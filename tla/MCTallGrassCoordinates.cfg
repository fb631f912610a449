CONSTANTS
    t1 = t1
    t2 = t2
    t3 = t3
    pikachu = pikachu
    onix = onix
    Threads = {t1, t2, t3}
    Pokemons = {pikachu, onix}
    Existing = {pikachu}
    Coordinates <- Alike
    Tasks <- OneCreator
    NumberOfBlocks = 4
    BlockSize = 2
    LineLength = 3
    MaxCrashes = 0
SPECIFICATION FairSpec
PROPERTY CatchTookOne
CHECK_DEADLOCK FALSE
