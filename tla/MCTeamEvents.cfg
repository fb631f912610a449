SPECIFICATION Spec
CONSTANTS
    Necesarios <- DosEspecies
    Mensajes <- Variados
    Conjuntos <- Juntos
    Catches <- UnCatch
    MaxCortes = 1
INVARIANT Attended
INVARIANT AnsweredOnce
PROPERTY EveryMessageGetsThrough
CHECK_DEADLOCK FALSE
