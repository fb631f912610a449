SPECIFICATION Spec
CONSTANTS
    pikachu = pikachu
    squirtle = squirtle
    charmander = charmander
    Especies = {pikachu, squirtle}
    Objetivo <- UnoYUno
    Inicio <- Separados
    Pokemones <- PikachuYSquirtle
    BrokerArriba = TRUE
    Algoritmos = {"FIFO", "RR", "SJF_CD", "SJF_SD"}
    Quantum = 1
    MaxPermisos = 3
INVARIANT NeverOverLimit
INVARIANT PendingCatches
CHECK_DEADLOCK FALSE
