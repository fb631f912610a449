---------------------------- MODULE DynamicMemory ----------------------------
(***************************************************************************)
(* The broker's cache with dynamic partitions (broker/src/dynamic.c,       *)
(* called by save_message of mem.c): evictions, consolidation of free      *)
(* neighbours and compaction, in the order FRECUENCIA_COMPACTACION asks    *)
(* for.                                                                    *)
(*                                                                         *)
(* One save runs at a time, inside the write lock (MemoryLock): one action *)
(* per turn of the loop of _negative_, _zero_ or _positive_frecuency.      *)
(***************************************************************************)
EXTENDS Partitions

CONSTANTS
    TAMANO_MEMORIA,             \* the cache's bytes
    TAMANO_MINIMO_PARTICION,    \* the least partition
    Frecuencias,                \* the values of FRECUENCIA_COMPACTACION
    DataSizes,                  \* the sizes of the messages that arrive
    MaxTime                     \* bound of the runs: saves and replays

ASSUME DynamicAssumption ==
    /\ TAMANO_MEMORIA \in Nat \ {0}
    /\ TAMANO_MEMORIA < UnsignedModulus
    /\ TAMANO_MINIMO_PARTICION \in Nat
    /\ Frecuencias \subseteq Int
    /\ DataSizes \subseteq Nat \ {0}
    /\ MaxTime \in Nat

VARIABLES
    config,         \* the algorithms of broker.config
    frecuencia,     \* FRECUENCIA_COMPACTACION
    partitions,     \* memory->partitions
    cache,          \* memory->cache: the save that wrote each byte, 0 for none
    TIME,           \* the logical clock of get_time
    step,           \* whether a save is in progress
    request,        \* the size of its message
    kills           \* the loop's partitions_killed, or its kill flag as 0 or 1

vars == <<config, frecuencia, partitions, cache, TIME, step, request, kills>>

Bytes == 0 .. TAMANO_MEMORIA - 1

SizeOfPointer == 8     \* sizeof(data) of mem.c:9, on the machines it runs on

Init ==
    /\ config \in Configuration
    /\ frecuencia \in Frecuencias
    /\ partitions = <<create_partition(0, TAMANO_MEMORIA)>>
    /\ cache = [b \in Bytes |-> 0]
    /\ TIME = 0
    /\ step = "idle"
    /\ request = 0
    /\ kills = 0

-----------------------------------------------------------------------------

\* The bytes of some partitions of a list, by their indices.
SumOfSizes(list, indices) ==
    SumFunctionOnSet([i \in DOMAIN list |-> list[i].size], indices)

NoPartitionFits == find_partition(partitions, request, config.libre) = {}

\* Fault: three free neighbours are merged two by two, once.
ConsolidatePairOnly(list) ==
    LET pairs == {i \in Free(list) : i + 1 \in Free(list)}
        left  == CHOOSE i \in pairs : \A j \in pairs : i <= j
    IN  IF pairs = {} THEN list
        ELSE remove_partition_at(
                 [list EXCEPT ![left].size = @ + list[left + 1].size],
                 list[left + 1].position)

(***************************************************************************)
(* Merges the first two or three free neighbours of the list, if any.      *)
(***************************************************************************)
_consolidate(list) ==
    LET pairs   == {i \in Free(list) : i + 1 \in Free(list)}
        left    == CHOOSE i \in pairs : \A j \in pairs : i <= j
        three   == left + 2 \in Free(list)
        size    == list[left].size + list[left + 1].size
                       + (IF three THEN list[left + 2].size ELSE 0)
        grown   == [list EXCEPT ![left].size = size]
        without == IF three THEN remove_partition_at(grown, list[left + 2].position)
                   ELSE grown
    IN  IF pairs = {} THEN list
        ELSE remove_partition_at(without, list[left + 1].position)

\* Where _compact moves each occupied partition: after those below it.
NewPosition(list, i) ==
    SumOfSizes(list, {j \in Occupied(list) : list[j].position < list[i].position})

Moved(list) ==
    [i \in DOMAIN list |->
        IF i \in Occupied(list)
        THEN [list[i] EXCEPT !.position = NewPosition(list, i)]
        ELSE list[i]]

\* The occupied partition with the greatest position.
LastOccupied(list) ==
    CHOOSE i \in Occupied(list) :
        \A j \in Occupied(list) : list[j].position <= list[i].position

\* Fault: the free partitions are removed, the occupied ones stay in place.
CompactWithoutMoving(list) ==
    LET last == LastOccupied(list)
    IN  Append(SelectSeq(list, LAMBDA p : ~p.free),
               create_partition(list[last].position + list[last].size,
                                SumOfSizes(list, Free(list))))

(***************************************************************************)
(* The occupied partitions move to the start of the memory, in the order   *)
(* of their positions; then each free one is removed, by its position, and *)
(* one with all their bytes is added after the last occupied one, which    *)
(* the code takes to exist.                                                *)
(***************************************************************************)
_compact(list) ==
    LET moved    == Moved(list)
        last     == moved[LastOccupied(list)]
        new_free == create_partition(last.position + last.size,
                                     SumOfSizes(list, Free(list)))
        rest[k \in 0 .. Len(list)] ==
            IF k = 0 THEN moved
            ELSE IF list[k].free
            THEN remove_partition_at(rest[k - 1], list[k].position)
            ELSE rest[k - 1]
    IN  add_partition_next_to(rest[Len(list)], last.position, new_free)

\* Fault: the bytes of the partitions that move stay where they were.
CacheNotMoved(list) == cache

\* The bytes _compact copies out of the cache and then to their new places.
CompactedCache(list) ==
    LET target == [i \in Occupied(list) |-> NewPosition(list, i)]
        source(b) == {list[i].position + b - target[i] :
                         i \in {i \in DOMAIN target :
                                   b \in target[i] .. target[i] + list[i].data_size - 1}}
    IN  [b \in Bytes |-> IF source(b) = {} THEN cache[b]
                         ELSE cache[CHOOSE origin \in source(b) : TRUE]]

\* The lists choose_victim and _consolidate may leave.
Evictions ==
    {_consolidate([partitions EXCEPT ![victim] = Released(@)]) :
        victim \in victims(partitions, config.reemplazo)}

-----------------------------------------------------------------------------

SaveMessage(data_size) ==
    /\ step = "idle"
    /\ SizeOfPointer <= TAMANO_MEMORIA
    /\ TIME < MaxTime
    /\ step' = "find"
    /\ request' = data_size
    /\ kills' = 0
    /\ UNCHANGED <<config, frecuencia, partitions, cache, TIME>>

(***************************************************************************)
(* find_partition_dynamic finds a partition and cuts what the message does *)
(* not need off it; then the message is saved there. Nothing compares the  *)
(* least size with the one of the partition that was found: the rest is    *)
(* computed modulo 2^32.                                                   *)
(***************************************************************************)
SaveInPartition(i) ==
    LET old_size == partitions[i].size
        new_size == IF request > TAMANO_MINIMO_PARTICION
                    THEN request ELSE TAMANO_MINIMO_PARTICION
        position == partitions[i].position
        used     == [partitions EXCEPT ![i] =
                        [Filled(@, request, TIME + 1) EXCEPT !.size = new_size]]
    IN  /\ partitions' = IF old_size = new_size THEN used
                         ELSE add_partition_next_to(used, position,
                                  create_partition(position + new_size,
                                                   old_size - new_size))
        /\ cache' = [b \in Bytes |->
                        IF b \in position .. position + request - 1
                        THEN TIME + 1 ELSE cache[b]]

Save ==
    /\ step = "find"
    /\ \E i \in find_partition(partitions, request, config.libre) : SaveInPartition(i)
    /\ TIME' = TIME + 1
    /\ step' = "idle"
    /\ request' = 0
    /\ kills' = 0
    /\ UNCHANGED <<config, frecuencia>>

\* _negative_frecuency evicts until something fits and never compacts.
EvictNegative ==
    /\ step = "find"
    /\ NoPartitionFits
    /\ frecuencia < 0
    /\ partitions' \in Evictions
    /\ UNCHANGED <<config, frecuencia, cache, TIME, step, request, kills>>

\* _zero_frecuency, not to kill: it compacts, and kills the next time.
CompactZero ==
    /\ step = "find"
    /\ NoPartitionFits
    /\ frecuencia = 0 /\ kills = 0
    /\ Occupied(partitions) # {}
    /\ partitions' = _compact(partitions)
    /\ cache' = CompactedCache(partitions)
    /\ kills' = 1
    /\ UNCHANGED <<config, frecuencia, TIME, step, request>>

\* _zero_frecuency, to kill: it evicts and compacts.
EvictZero ==
    /\ step = "find"
    /\ NoPartitionFits
    /\ frecuencia = 0 /\ kills = 1
    /\ \E evicted \in Evictions :
          /\ Occupied(evicted) # {}
          /\ partitions' = _compact(evicted)
          /\ cache' = CompactedCache(evicted)
    /\ kills' = 0
    /\ UNCHANGED <<config, frecuencia, TIME, step, request>>

\* _positive_frecuency evicts frecuencia times ...
EvictPositive ==
    /\ step = "find"
    /\ NoPartitionFits
    /\ frecuencia > 0 /\ kills # frecuencia
    /\ partitions' \in Evictions
    /\ kills' = kills + 1
    /\ UNCHANGED <<config, frecuencia, cache, TIME, step, request>>

\* ... and then compacts.
CompactPositive ==
    /\ step = "find"
    /\ NoPartitionFits
    /\ frecuencia > 0 /\ kills = frecuencia
    /\ Occupied(partitions) # {}
    /\ partitions' = _compact(partitions)
    /\ cache' = CompactedCache(partitions)
    /\ kills' = 0
    /\ UNCHANGED <<config, frecuencia, TIME, step, request>>

(***************************************************************************)
(* With nothing occupied list_get returns NULL, to choose_victim as a      *)
(* victim (mem_utils.c:147) or to _compact as the last partition           *)
(* (dynamic.c:178), and both read through it.                              *)
(***************************************************************************)
Crash ==
    /\ step = "find"
    /\ NoPartitionFits
    /\ \/ Occupied(partitions) = {}
       \/ /\ frecuencia = 0 /\ kills = 1
          /\ \E evicted \in Evictions : Occupied(evicted) = {}
    /\ step' = "crashed"
    /\ UNCHANGED <<config, frecuencia, partitions, cache, TIME, request, kills>>

\* new_suscription stamps the messages it replays (see BuddyMemory).
Replay(replayed) ==
    /\ step = "idle"
    /\ TIME < MaxTime
    /\ replayed # {}
    /\ partitions' = Accessed(partitions, replayed, TIME + 1)
    /\ TIME' = TIME + 1
    /\ UNCHANGED <<config, frecuencia, cache, step, request, kills>>

Evict == EvictNegative \/ EvictZero \/ EvictPositive
Compact == CompactZero \/ CompactPositive

SaveStep == Save \/ Evict \/ Compact \/ Crash

\* The process died, or the runs' bound is reached.
Stopped ==
    /\ step = "crashed" \/ (step = "idle" /\ TIME = MaxTime)
    /\ UNCHANGED vars

Next ==
    \/ \E data_size \in DataSizes : SaveMessage(data_size)
    \/ SaveStep
    \/ \E replayed \in SUBSET Occupied(partitions) : Replay(replayed)
    \/ Stopped

Spec == Init /\ [][Next]_vars

(***************************************************************************)
(* A save is sequential code: nothing keeps it from its next turn. This is *)
(* weak fairness of SaveStep, which is enabled exactly when a save is in   *)
(* progress (the conditions of its disjuncts leave nothing out).           *)
(***************************************************************************)
FairSpec == Spec /\ ([]<>(step # "find") \/ []<><<SaveStep>>_vars)

-----------------------------------------------------------------------------

\* The variables range over the values their C types and uses allow.
TypeOK ==
    /\ config \in Configuration
    /\ frecuencia \in Frecuencias
    /\ partitions \in Seq(Partition)
    /\ cache \in [Bytes -> Nat]
    /\ TIME \in Nat
    /\ step \in {"idle", "find", "crashed"}
    /\ request \in Nat
    /\ kills \in 0 .. (IF frecuencia > 0 THEN frecuencia ELSE 1)

(***************************************************************************)
(* No byte of the cache belongs to two partitions or to none, however the  *)
(* partitions are cut, consolidated and compacted (dynamic.c:120-315).     *)
(***************************************************************************)
Tiling == Tiles(partitions, TAMANO_MEMORIA)

(***************************************************************************)
(* The bytes of every cached message are those that were saved: no save,   *)
(* and no compaction that moves it, writes over it (dynamic.c:136-158).    *)
(***************************************************************************)
ContentIntact ==
    \A i \in Occupied(partitions) :
        LET p == partitions[i] IN
        \A b \in p.position .. p.position + p.data_size - 1 :
            cache[b] = p.creation_time

(***************************************************************************)
(* Two free partitions are never neighbours when a partition is looked     *)
(* for, though _consolidate merges one group of them only                  *)
(* (dynamic.c:213-262).                                                    *)
(***************************************************************************)
NoFreeNeighbours ==
    \A i \in Free(partitions) : i + 1 \notin Free(partitions)

(***************************************************************************)
(* The partitions cover the cache without gaps, and free bytes that touch  *)
(* are one partition.                                                      *)
(***************************************************************************)
Gapless == TypeOK /\ Tiling /\ NoFreeNeighbours

(***************************************************************************)
(* With frequency 0 a message is evicted only if the free bytes, all of    *)
(* them together, do not hold the one that arrived (dynamic.c:61-88).      *)
(***************************************************************************)
EvictsOnlyIfShort ==
    [][frecuencia = 0 /\ TIME' = TIME
           /\ Cardinality(Occupied(partitions')) < Cardinality(Occupied(partitions))
       => SumOfSizes(partitions, Free(partitions)) < request]_vars

(***************************************************************************)
(* A message that fits in an empty cache is saved, unless the frequency    *)
(* is 0 (see CompactionGathers): the loops of dynamic.c:42-118 end.        *)
(***************************************************************************)
SaveEnds ==
    (step = "find" /\ request <= TAMANO_MEMORIA /\ frecuencia # 0) ~> step = "idle"

(***************************************************************************)
(* "la rompo si hace falta en 2 particiones (1 del tamanioQueVoyAGuardar)  *)
(* y la otra de lo que le quedo libre" (dynamic.c:266-267): what is saved  *)
(* and what is left are as many bytes as there were.                       *)
(***************************************************************************)
BrokenInTwo ==
    [][Save => SumOfSizes(partitions', DOMAIN partitions')
                   = SumOfSizes(partitions, DOMAIN partitions)]_vars

(***************************************************************************)
(* "Tengo toda las particiones, debo agarrar las libres y hacer una sola   *)
(* con todos los tamaños. Esa la tengo que agregar al final de la lista"   *)
(* (dynamic.c:36-40): after a turn that compacts, the free bytes are one   *)
(* partition, the last.                                                    *)
(***************************************************************************)
CompactionGathers ==
    [][frecuencia = 0 /\ step = "find" /\ request <= TAMANO_MEMORIA /\ NoPartitionFits
       => step' # "crashed" /\ Free(partitions') = {Len(partitions')}]_vars

=============================================================================
