SPECIFICATION Spec
CONSTANTS
    pikachu = pikachu
    squirtle = squirtle
    charmander = charmander
    Especies = {pikachu, squirtle, charmander}
    Objetivo <- UnoDeCada
    Inicio <- EnFila
    Pokemones <- TresDistintos
    BrokerArriba = FALSE
    Algoritmos = {"FIFO"}
    Quantum = 1
    MaxPermisos = 20
INVARIANT ExchangesAreRegistered
CHECK_DEADLOCK FALSE
