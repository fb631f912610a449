--------------------------- MODULE MCDynamicMemory ---------------------------
(* Dynamic partitions on a small cache, one frequency of each sign and more. *)
EXTENDS DynamicMemory

AllFrecuencias == {-1, 0, 1, 2}
ZeroFrecuencia == {0}

=============================================================================
