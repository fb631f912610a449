CONSTANTS
    UnsignedModulus = 65536
    TAMANO_MEMORIA = 10
    TAMANO_MINIMO_PARTICION = 2
    Frecuencias <- AllFrecuencias
    DataSizes = {2, 3, 5, 11}
    MaxTime = 6
SPECIFICATION FairSpec
INVARIANT Gapless
INVARIANT ContentIntact
PROPERTY EvictsOnlyIfShort
PROPERTY SaveEnds
