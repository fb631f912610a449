SPECIFICATION Spec
CONSTANTS
    pikachu = pikachu
    squirtle = squirtle
    charmander = charmander
    Especies = {pikachu, squirtle}
    Objetivo <- UnoSolo
    Inicio <- Aislado
    Pokemones <- DosIguales
    BrokerArriba = TRUE
    Algoritmos = {"FIFO"}
    Quantum = 1
    MaxPermisos = 20
INVARIANT NoForgottenCatch
CHECK_DEADLOCK FALSE
