SPECIFICATION Spec
CONSTANTS
    Clientes = {c1, c2}
    Catalogo <- Mensajes
INVARIANT NothingLeftOver
INVARIANT ArrivesAsSent
PROPERTY EveryMessageArrives
CHECK_DEADLOCK FALSE
