CONSTANTS
    UnsignedModulus = 65536
    PowersOfTwo <- Powers
    TAMANO_MEMORIA = 16
    TAMANO_MINIMO_PARTICION = 4
    DataSizes = {3, 5, 9, 17}
    MaxTime = 7
SPECIFICATION FairSpec
INVARIANT Tiling
INVARIANT Buddies
INVARIANT VictimsInOrder
PROPERTY SaveEnds
