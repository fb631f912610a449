CONSTANTS
    UnsignedModulus = 65536
    TAMANO_MEMORIA = 10
    TAMANO_MINIMO_PARTICION = 4
    Frecuencias <- AllFrecuencias
    DataSizes = {2, 4, 5}
    MaxTime = 4
SPECIFICATION FairSpec
PROPERTY BrokenInTwo
