--------------------------- MODULE ReadersWriters ---------------------------
(***************************************************************************)
(* What the broker's memory lock promises, whatever it is made of: any     *)
(* number of threads read the partition list together, or exactly one      *)
(* thread writes it and nobody reads it meanwhile.                         *)
(***************************************************************************)

CONSTANT Threads        \* the threads that serve connections

VARIABLES reading,      \* the threads inside a read section
          writing       \* the threads inside a write section

rwVars == <<reading, writing>>

RWInit ==
    /\ reading = {}
    /\ writing = {}

StartRead(t) ==
    /\ t \notin reading
    /\ writing = {}
    /\ reading' = reading \cup {t}
    /\ UNCHANGED writing

EndRead(t) ==
    /\ t \in reading
    /\ reading' = reading \ {t}
    /\ UNCHANGED writing

StartWrite(t) ==
    /\ reading = {}
    /\ writing = {}
    /\ writing' = {t}
    /\ UNCHANGED reading

EndWrite(t) ==
    /\ t \in writing
    /\ writing' = writing \ {t}
    /\ UNCHANGED reading

RWNext ==
    \E t \in Threads :
        \/ StartRead(t)
        \/ EndRead(t)
        \/ StartWrite(t)
        \/ EndWrite(t)

RWSpec == RWInit /\ [][RWNext]_rwVars

=============================================================================
