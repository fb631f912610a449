SPECIFICATION Spec
CONSTANTS
    pikachu = pikachu
    squirtle = squirtle
    charmander = charmander
    bulbasaur = bulbasaur
    Especies = {pikachu, squirtle, charmander, bulbasaur}
    Objetivo <- CincoEntrenadores
    Repartos <- TodosLosRepartos
PROPERTY EveryExchangeHelps
PROPERTY DeadlocksAreReported
PROPERTY Dissolves
CHECK_DEADLOCK FALSE
