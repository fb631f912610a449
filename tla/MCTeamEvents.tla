---------------------------- MODULE MCTeamEvents ----------------------------
(***************************************************************************)
(* A few messages for TeamEvents.                                          *)
(***************************************************************************)
EXTENDS TeamEvents

Aparece(e) == [cola |-> "APPEARED", especie |-> e, lugares |-> 1, id |-> SinId]
DelGameboy(e) == [cola |-> "GAMEBOY", especie |-> e, lugares |-> 1, id |-> SinId]
Localiza(e, i) == [cola |-> "LOCALIZED", especie |-> e, lugares |-> 2, id |-> i]
Responde(i) == [cola |-> "CAUGHT", especie |-> "pikachu", lugares |-> 1, id |-> i]

\* The answer to a request: with an appearance of another species, which a broken
\* connection repeats, or with what the GameBoy tells of its own. The answer to a catch,
\* with a message that nobody needs.
Variados == << Localiza("pikachu", "pikachu"), Aparece("squirtle"), Responde("catch"),
               DelGameboy("pikachu"), DelGameboy("onix") >>
Juntos == {{1, 2}, {1, 4}, {3, 5}}
DosEspecies == {"pikachu", "squirtle"}
UnCatch == {"catch"}

=============================================================================
