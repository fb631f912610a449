SPECIFICATION Spec
CONSTANTS
    pikachu = pikachu
    squirtle = squirtle
    charmander = charmander
    Especies = {pikachu, squirtle}
    Objetivo <- DosYUno
    Inicio <- Separados
    Pokemones <- TresPokemones
    BrokerArriba = FALSE
    Algoritmos = {"FIFO"}
    Quantum = 1
    MaxPermisos = 20
INVARIANT PermitPerTrainer
CHECK_DEADLOCK FALSE
