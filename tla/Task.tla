-------------------------------- MODULE Task --------------------------------
(***************************************************************************)
(* What a trainer promises whoever plans it: the instructions of its task  *)
(* are done one by one, in order, and the task is over once all of them    *)
(* were done or the trainer is destroyed.                                  *)
(***************************************************************************)
EXTENDS Naturals, Sequences

CONSTANT Totales        \* how many instructions a task may have

VARIABLES total, hechas     \* of the task at hand, 0 if none; those done, in order

Init == total = 0 /\ hechas = << >>

Asignar == total = 0 /\ total' \in Totales /\ hechas' = << >>
Avanzar == Len(hechas) < total /\ hechas' = Append(hechas, Len(hechas)) /\ UNCHANGED total
Terminar == total > 0 /\ Len(hechas) = total /\ total' = 0 /\ hechas' = << >>
Abandonar == total > 0 /\ total' = 0 /\ hechas' = << >>

Next == Asignar \/ Avanzar \/ Terminar \/ Abandonar

Spec == Init /\ [][Next]_<<total, hechas>>

=============================================================================
