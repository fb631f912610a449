----------------------------- MODULE Partitions -----------------------------
(***************************************************************************)
(* The list of partitions of the broker's cache and the operations both    *)
(* memory algorithms share (broker/src/mem_utils.c).                       *)
(*                                                                         *)
(* memory->partitions is a sequence of records. A partition's start is the *)
(* cache's address plus its position, so position stands for both. A free  *)
(* partition carries no message and no times: nothing reads the stale ones *)
(* before they are written again.                                          *)
(***************************************************************************)
EXTENDS Integers, Sequences, FiniteSets, SequencesExt

CONSTANT UnsignedModulus    \* 2^32 for the C types, smaller when model-checked

ASSUME UnsignedModulusAssumption == UnsignedModulus \in Nat \ {0}

\* What broker.config chooses and the algorithms below depend on.
Configuration == [reemplazo : {"FIFO", "LRU"}, libre : {"FF", "BF"}]

Partition == [position : Nat, size : Nat, free : BOOLEAN,
              data_size : Nat, creation_time : Nat, access_time : Nat]

create_partition(position, size) ==
    [position |-> position, size |-> size % UnsignedModulus, free |-> TRUE,
     data_size |-> 0, creation_time |-> 0, access_time |-> 0]

\* The indices of the occupied and of the free partitions.
Occupied(partitions) == {i \in DOMAIN partitions : ~partitions[i].free}
Free(partitions) == {i \in DOMAIN partitions : partitions[i].free}

\* Fault: a free partition of exactly that size is not enough.
GreaterAndFree(partitions, size) ==
    {i \in Free(partitions) : partitions[i].size > size}

\* The free partitions that hold size bytes.
greater_equals_and_free(partitions, size) ==
    {i \in Free(partitions) : partitions[i].size >= size}

(***************************************************************************)
(* The partitions find_partition may return, none for NULL. First fit      *)
(* takes the first of the list; best fit sorts by size and takes the first *)
(* of the result: the sort is the commons library's, and which of several  *)
(* equal elements it puts first is left open.                              *)
(***************************************************************************)
find_partition(partitions, size, libre) ==
    LET candidates == greater_equals_and_free(partitions, size)
    IN  {i \in candidates :
            \A j \in candidates :
                IF libre = "FF" THEN i <= j
                                ELSE partitions[i].size <= partitions[j].size}

\* The time by which a replacement algorithm orders its victims.
Stamp(partition, reemplazo) ==
    IF reemplazo = "FIFO" THEN partition.creation_time ELSE partition.access_time

(***************************************************************************)
(* The partitions choose_victim may choose, none when it dereferences the  *)
(* NULL that list_get returns for an empty list.                           *)
(***************************************************************************)
victims(partitions, reemplazo) ==
    {i \in Occupied(partitions) :
        \A j \in Occupied(partitions) :
            Stamp(partitions[i], reemplazo) <= Stamp(partitions[j], reemplazo)}

\* choose_victim's effect on the victim.
Released(partition) ==
    [partition EXCEPT !.free = TRUE, !.data_size = 0,
                      !.creation_time = 0, !.access_time = 0]

\* A partition that has just received a message of data_size bytes.
Filled(partition, data_size, now) ==
    [partition EXCEPT !.free = FALSE, !.data_size = data_size,
                      !.creation_time = now, !.access_time = now]

\* new_suscription's effect on the partitions whose messages it replays.
Accessed(partitions, replayed, now) ==
    [i \in DOMAIN partitions |->
        IF i \in replayed THEN [partitions[i] EXCEPT !.access_time = now]
                          ELSE partitions[i]]

\* The first partition of the list that starts there; past the end if none.
_list_find_index(partitions, position) ==
    LET found == SelectInSeq(partitions, LAMBDA p : p.position = position)
    IN  IF found = 0 THEN Len(partitions) + 1 ELSE found

remove_partition_at(partitions, position) ==
    LET index == _list_find_index(partitions, position)
    IN  IF index \in DOMAIN partitions THEN RemoveAt(partitions, index)
                                       ELSE partitions

add_partition_next_to(partitions, position, partition) ==
    LET index == _list_find_index(partitions, position)
    IN  IF index \in DOMAIN partitions THEN InsertAt(partitions, index + 1, partition)
                                       ELSE partitions

-----------------------------------------------------------------------------

(***************************************************************************)
(* The partitions divide size bytes of memory among themselves: each one   *)
(* begins where the one before it in the list ends, from the first byte    *)
(* to the last.                                                            *)
(***************************************************************************)
Tiles(partitions, size) ==
    LET n == Len(partitions) IN
    /\ n > 0
    /\ partitions[1].position = 0
    /\ \A i \in 1 .. n - 1 :
          partitions[i + 1].position = partitions[i].position + partitions[i].size
    /\ partitions[n].position + partitions[n].size = size

=============================================================================
