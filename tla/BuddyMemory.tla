----------------------------- MODULE BuddyMemory -----------------------------
(***************************************************************************)
(* The broker's cache under the buddy system (broker/src/buddy.c, called   *)
(* by save_message of mem.c).                                              *)
(*                                                                         *)
(* One save runs at a time, inside the write lock (MemoryLock), so the     *)
(* module has one request in progress and one action per turn of the       *)
(* code's loops. Between two saves new_suscription, a reader, stamps the   *)
(* partitions whose messages it replays.                                   *)
(***************************************************************************)
EXTENDS Partitions

CONSTANTS
    PowersOfTwo,                \* the powers of two a uint32_t holds
    TAMANO_MEMORIA,             \* the cache's bytes, rounded up (main.c:50)
    TAMANO_MINIMO_PARTICION,    \* the least partition, rounded up (main.c:49)
    DataSizes,                  \* the sizes of the messages that arrive
    MaxTime                     \* bound of the runs: saves and replays

ASSUME BuddyAssumption ==
    /\ PowersOfTwo \subseteq Nat \ {0}
    /\ \A p \in PowersOfTwo : p # 1 => p % 2 = 0 /\ p \div 2 \in PowersOfTwo
    /\ \A p, q \in PowersOfTwo : p < q => p <= q \div 2 /\ 2 * p \in PowersOfTwo
    /\ \A p \in PowersOfTwo : p < UnsignedModulus
    /\ TAMANO_MEMORIA \in PowersOfTwo
    /\ TAMANO_MINIMO_PARTICION \in PowersOfTwo
    /\ TAMANO_MINIMO_PARTICION <= TAMANO_MEMORIA
    /\ DataSizes \subseteq Nat
    /\ MaxTime \in Nat

VARIABLES
    config,         \* the algorithms of broker.config
    partitions,     \* memory->partitions
    TIME,           \* the logical clock of get_time
    step,           \* where the save in progress is
    request,        \* its message's size and the partition size it wants
    at,             \* the partition it works on: an index, 0 for none
    lastVictim      \* history: the stamp of the last victim

vars == <<config, partitions, TIME, step, request, at, lastVictim>>

Steps == {"idle",           \* no save in progress
          "find",           \* buddy.c:23 and 33, looks for a free partition
          "break",          \* buddy.c:97, halves the one it found
          "consolidate",    \* buddy.c:67, merges the victim with its buddies
          "crashed"}        \* dereferenced a NULL victim

SizeOfPointer == 8     \* sizeof(data) of mem.c:9, on the machines it runs on

NoRequest == [data_size |-> 0, desired |-> 0]

Init ==
    /\ config \in Configuration
    /\ partitions = <<create_partition(0, TAMANO_MEMORIA)>>
    /\ TIME = 0
    /\ step = "idle"
    /\ request = NoRequest
    /\ at = 0
    /\ lastVictim = 0

-----------------------------------------------------------------------------

\* next_power_of_2(n), as what its bit smearing computes (see Arithmetic).
next_power_of_2(n) ==
    {p \in PowersOfTwo : p >= n /\ \A q \in PowersOfTwo : q >= n => p <= q}

(***************************************************************************)
(* position XOR size: the bit the size stands for is flipped.              *)
(***************************************************************************)
_buddy_position(partition) ==
    IF (partition.position \div partition.size) % 2 = 0
    THEN partition.position + partition.size
    ELSE partition.position - partition.size

\* The partition's buddy if it can be merged with it now; at most one.
MergeableBuddies(index) ==
    {b \in Free(partitions) :
        /\ partitions[b].position = _buddy_position(partitions[index])
        /\ partitions[b].size = partitions[index].size}

(***************************************************************************)
(* save_message and the entry of save_to_cache_buddy_system. The size      *)
(* check of mem.c:9 compares the size of a pointer, never the message's.   *)
(***************************************************************************)
SaveMessage(data_size) ==
    /\ step = "idle"
    /\ SizeOfPointer <= TAMANO_MEMORIA
    /\ TIME < MaxTime
    /\ \E power \in next_power_of_2(data_size) :
          request' = [data_size |-> data_size,
                      desired   |-> IF power > TAMANO_MINIMO_PARTICION
                                    THEN power ELSE TAMANO_MINIMO_PARTICION]
    /\ step' = "find"
    /\ UNCHANGED <<config, partitions, TIME, at, lastVictim>>

FindPartition ==
    /\ step = "find"
    /\ at' \in find_partition(partitions, request.desired, config.libre)
    /\ step' = "break"
    /\ UNCHANGED <<config, partitions, TIME, request, lastVictim>>

NoPartitionFits ==
    find_partition(partitions, request.desired, config.libre) = {}

\* Fault: the newest partition is the victim, not the oldest.
ChooseVictimNewest ==
    /\ step = "find"
    /\ NoPartitionFits
    /\ \E victim \in Occupied(partitions) :
          /\ \A i \in Occupied(partitions) :
                Stamp(partitions[i], config.reemplazo)
                    <= Stamp(partitions[victim], config.reemplazo)
          /\ partitions' = [partitions EXCEPT ![victim] = Released(@)]
          /\ lastVictim' = Stamp(partitions[victim], config.reemplazo)
          /\ at' = victim
    /\ step' = "consolidate"
    /\ UNCHANGED <<config, TIME, request>>

ChooseVictim ==
    /\ step = "find"
    /\ NoPartitionFits
    /\ \E victim \in victims(partitions, config.reemplazo) :
          /\ partitions' = [partitions EXCEPT ![victim] = Released(@)]
          /\ lastVictim' = Stamp(partitions[victim], config.reemplazo)
          /\ at' = victim
    /\ step' = "consolidate"
    /\ UNCHANGED <<config, TIME, request>>

\* Nothing fits and nothing is occupied: mem_utils.c:149 reads through NULL.
ChooseVictimOfNone ==
    /\ step = "find"
    /\ NoPartitionFits
    /\ Occupied(partitions) = {}
    /\ step' = "crashed"
    /\ UNCHANGED <<config, partitions, TIME, request, at, lastVictim>>

\* Fault: the merged partition keeps the victim's position.
ConsolidateKeepingPosition ==
    /\ step = "consolidate"
    /\ \E buddy \in MergeableBuddies(at) :
          LET merged == [partitions[at] EXCEPT !.size = 2 * @]
          IN  /\ partitions' = remove_partition_at(
                                   [partitions EXCEPT ![at] = merged],
                                   partitions[buddy].position)
              /\ at' = IF buddy < at THEN at - 1 ELSE at
    /\ UNCHANGED <<config, TIME, step, request, lastVictim>>

(***************************************************************************)
(* One turn of _consolidate_buddy's loop. The partition takes the lesser   *)
(* position of the two before remove_partition_at searches the list for    *)
(* the buddy's: if the buddy was the left one, both have it now, and the   *)
(* first of the list is removed.                                           *)
(***************************************************************************)
Consolidate ==
    /\ step = "consolidate"
    /\ \E buddy \in MergeableBuddies(at) :
          LET left   == partitions[buddy].position < partitions[at].position
              merged == [partitions[at] EXCEPT
                            !.position = IF left THEN partitions[buddy].position
                                                 ELSE @,
                            !.size = 2 * @]
          IN  /\ partitions' = remove_partition_at(
                                   [partitions EXCEPT ![at] = merged],
                                   partitions[buddy].position)
              /\ at' = IF buddy < at THEN at - 1 ELSE at
    /\ UNCHANGED <<config, TIME, step, request, lastVictim>>

\* Fault: one merge at most, as with an if in the place of the while.
ConsolidatedAfterOne ==
    /\ step = "consolidate"
    /\ step' = "find"
    /\ at' = 0
    /\ UNCHANGED <<config, partitions, TIME, request, lastVictim>>

Consolidated ==
    /\ step = "consolidate"
    /\ MergeableBuddies(at) = {}
    /\ step' = "find"
    /\ at' = 0
    /\ UNCHANGED <<config, partitions, TIME, request, lastVictim>>

(***************************************************************************)
(* One turn of _break_buddys's loop: the partition keeps its left half and *)
(* a new partition after it in the list takes the right one.               *)
(***************************************************************************)
BreakBuddys ==
    /\ step = "break"
    /\ partitions[at].size # request.desired
    /\ LET half  == partitions[at].size \div 2
           right == create_partition(partitions[at].position + half, half)
       IN  partitions' = add_partition_next_to(
                             [partitions EXCEPT ![at].size = half],
                             partitions[at].position, right)
    /\ UNCHANGED <<config, TIME, step, request, at, lastVictim>>

\* Fault: a partition may be handed out before it was halved enough.
OccupyUnbroken ==
    /\ step = "break"
    /\ partitions' = [partitions EXCEPT ![at] =
                         Filled(@, request.data_size, TIME + 1)]
    /\ TIME' = TIME + 1
    /\ step' = "idle"
    /\ request' = NoRequest
    /\ at' = 0
    /\ UNCHANGED <<config, lastVictim>>

Occupy ==
    /\ step = "break"
    /\ partitions[at].size = request.desired
    /\ partitions' = [partitions EXCEPT ![at] =
                         Filled(@, request.data_size, TIME + 1)]
    /\ TIME' = TIME + 1
    /\ step' = "idle"
    /\ request' = NoRequest
    /\ at' = 0
    /\ UNCHANGED <<config, lastVictim>>

(***************************************************************************)
(* new_suscription replays, and stamps with one time, the messages of a    *)
(* queue its subscriber has not received: any of the cached ones.          *)
(***************************************************************************)
Replay(replayed) ==
    /\ step = "idle"
    /\ TIME < MaxTime
    /\ replayed # {}
    /\ partitions' = Accessed(partitions, replayed, TIME + 1)
    /\ TIME' = TIME + 1
    /\ UNCHANGED <<config, step, request, at, lastVictim>>

SaveStep ==
    \/ FindPartition
    \/ ChooseVictim
    \/ ChooseVictimOfNone
    \/ Consolidate
    \/ Consolidated
    \/ BreakBuddys
    \/ Occupy

\* The process died, or the runs' bound is reached.
Stopped ==
    /\ step = "crashed" \/ (step = "idle" /\ TIME = MaxTime)
    /\ UNCHANGED vars

Next ==
    \/ \E data_size \in DataSizes : SaveMessage(data_size)
    \/ SaveStep
    \/ \E replayed \in SUBSET Occupied(partitions) : Replay(replayed)
    \/ Stopped

Spec == Init /\ [][Next]_vars

\* A save is sequential code: nothing keeps it from its next turn.
FairSpec == Spec /\ WF_vars(SaveStep)

-----------------------------------------------------------------------------

\* The variables range over the values their C types and uses allow.
TypeOK ==
    /\ config \in Configuration
    /\ partitions \in Seq(Partition)
    /\ TIME \in Nat
    /\ step \in Steps
    /\ request \in [data_size : Nat, desired : Nat]
    /\ at \in 0 .. Len(partitions)
    /\ lastVictim \in Nat

(***************************************************************************)
(* No byte of the cache belongs to two partitions or to none, at every     *)
(* turn of the loops that merge and halve them (buddy.c:67-114).           *)
(***************************************************************************)
Tiling == Tiles(partitions, TAMANO_MEMORIA)

(***************************************************************************)
(* Between saves no two free buddies remain apart: whenever a block of     *)
(* some size could be formed from free memory it is there, so a victim is  *)
(* taken only when it must be (buddy.c:63-91 runs on victims only).        *)
(***************************************************************************)
Coalesced ==
    step \in {"idle", "find"} =>
        \A i \in Free(partitions) : MergeableBuddies(i) = {}

(***************************************************************************)
(* A message sits in the smallest buddy that holds it, and every partition *)
(* starts at a multiple of its size, without which XOR would not find the  *)
(* buddy (buddy.c:18 and 124-126).                                         *)
(***************************************************************************)
SmallestAlignedBuddy ==
    \A i \in DOMAIN partitions :
        LET p == partitions[i] IN
        /\ p.position % p.size = 0
        /\ ~p.free => /\ p.data_size <= p.size
                      /\ \/ p.size = TAMANO_MINIMO_PARTICION
                         \/ p.size \div 2 < p.data_size

(***************************************************************************)
(* The partitions are the buddies they should be, at every step of a save. *)
(***************************************************************************)
Buddies == Coalesced /\ SmallestAlignedBuddy

(***************************************************************************)
(* Messages leave the cache in the order of the replacement algorithm,     *)
(* over the whole history: whatever is cached is more recent than every    *)
(* victim so far (mem_utils.c:35-43 and 141-155).                          *)
(***************************************************************************)
VictimsInOrder ==
    \A i \in Occupied(partitions) :
        lastVictim <= Stamp(partitions[i], config.reemplazo)

(***************************************************************************)
(* A message that fits in an empty cache is saved: the loop that evicts    *)
(* and consolidates until a partition is found ends (buddy.c:26-34).       *)
(***************************************************************************)
SaveEnds ==
    (step = "find" /\ request.data_size <= TAMANO_MEMORIA) ~> step = "idle"

(***************************************************************************)
(* "Message size is bigger than memory size. Message will be not saved."   *)
(* (mem.c:15): such a message leaves the cache as it was.                  *)
(***************************************************************************)
BigMessageIsNotSaved ==
    [][request.data_size > TAMANO_MEMORIA => partitions' = partitions]_vars

=============================================================================
