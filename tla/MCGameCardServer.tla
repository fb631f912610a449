-------------------------- MODULE MCGameCardServer --------------------------
(***************************************************************************)
(* A few messages for GameCardServer.                                      *)
(***************************************************************************)
EXTENDS GameCardServer, Sequences

Msj(c, p, n, v) == [cola |-> c, pokemon |-> p, cantidad |-> n, via |-> v]

\* A NEW for a pokemon without a file, and a GET and a CATCH for it; three catches for
\* the one pikachu there is.
Varios == << Msj("NEW", "onix", 1, "BROKER"), Msj("GET", "onix", 0, "GAMEBOY"),
             Msj("CATCH", "pikachu", 0, "BROKER"), Msj("CATCH", "pikachu", 0, "BROKER"),
             Msj("CATCH", "pikachu", 0, "GAMEBOY"), Msj("CATCH", "onix", 0, "BROKER") >>
UnPikachu == [p \in {"pikachu"} |-> 1]

Caso(ms, n, k) == [llegan |-> ms, cortes |-> n, caidas |-> k]
CasosElegidos == {Caso({1, 2}, 1, 1), Caso({1, 6}, 0, 1), Caso({3, 4, 5}, 1, 0),
                  Caso({3, 4}, 1, 0)}

=============================================================================
