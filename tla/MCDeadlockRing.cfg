SPECIFICATION Spec
CONSTANTS
    pikachu = pikachu
    squirtle = squirtle
    charmander = charmander
    bulbasaur = bulbasaur
    Especies <- OchoEspecies
    Objetivo <- Anillo
    Repartos <- CadaUnoElSuyo
PROPERTY DeadlocksAreComponents
CHECK_DEADLOCK FALSE
