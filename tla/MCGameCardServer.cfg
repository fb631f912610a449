SPECIFICATION Spec
CONSTANTS
    Mensajes <- Varios
    Iniciales <- UnPikachu
    Casos <- CasosElegidos
INVARIANT Attended
INVARIANT CatchesAreBacked
PROPERTY EveryMessageIsProcessed
CHECK_DEADLOCK FALSE
