CONSTANTS
    UnsignedModulus = 65536
    TAMANO_MEMORIA = 10
    TAMANO_MINIMO_PARTICION = 2
    Frecuencias <- ZeroFrecuencia
    DataSizes = {2, 3, 5, 7}
    MaxTime = 4
SPECIFICATION FairSpec
PROPERTY CompactionGathers
