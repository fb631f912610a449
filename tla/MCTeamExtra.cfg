SPECIFICATION Spec
CONSTANTS
    pikachu = pikachu
    squirtle = squirtle
    charmander = charmander
    Especies = {pikachu, squirtle}
    Objetivo <- UnoYUno
    Inicio <- Separados
    Pokemones <- DosPikachus
    BrokerArriba = FALSE
    Algoritmos = {"FIFO"}
    Quantum = 1
    MaxPermisos = 20
INVARIANT NoMoreThanNeeded
CHECK_DEADLOCK FALSE
