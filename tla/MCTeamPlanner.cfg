SPECIFICATION Spec
CONSTANTS
    pikachu = pikachu
    squirtle = squirtle
    charmander = charmander
    Especies = {pikachu, squirtle}
    Objetivo <- UnoCadaUno
    Inicio <- EnFila
    Pokemones <- Cambiados
    BrokerArriba = FALSE
    Algoritmos = {"FIFO", "RR", "SJF_CD", "SJF_SD"}
    Quantum = 1
    MaxPermisos = 20
INVARIANT InPlace
INVARIANT DoneWhenAllAre
PROPERTY Finishes
CHECK_DEADLOCK FALSE
