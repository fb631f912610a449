SPECIFICATION Spec
CONSTANT Totales <- HastaCuatro
INVARIANT OneAtATime
INVARIANT SafeUse
PROPERTY InOrder
PROPERTY CallsReturn
CHECK_DEADLOCK FALSE
