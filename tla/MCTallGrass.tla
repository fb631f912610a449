----------------------------- MODULE MCTallGrass -----------------------------
(***************************************************************************)
(* Three messages on two files, of which the first exists. A file is only  *)
(* created by one New: Ordered allows two.                                 *)
(***************************************************************************)
EXTENDS TallGrass

CONSTANTS t1, t2, t3, pikachu, onix

Near == {<<1, 2>>, <<3, 4>>}
Alike == {<<1, 2>>, <<1, 20>>, <<11, 2>>}

\* Assignments that differ in the order of the threads behave alike.
Rank(t) == 9 * (CASE t.op = "NEW" -> 0 [] t.op = "CATCH" -> 1 [] OTHER -> 2)
               + (IF t.pokemon = pikachu THEN 0 ELSE 3)
               + (t.coordinate[1] % 3)

Ordered == {tasks \in [Threads -> Task] :
               /\ Rank(tasks[t1]) <= Rank(tasks[t2])
               /\ Rank(tasks[t2]) <= Rank(tasks[t3])}

Creates(task_) == task_.op = "NEW" /\ task_.pokemon \notin Existing

OneCreator ==
    {tasks \in Ordered : Cardinality({t \in Threads : Creates(tasks[t])}) <= 1}

=============================================================================
