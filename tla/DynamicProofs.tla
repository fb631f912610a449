---------------------------- MODULE DynamicProofs ----------------------------
(***************************************************************************)
(* With dynamic partitions no byte of the cache is lost or shared, free    *)
(* bytes that touch are one partition, no message is written over, and     *)
(* with frequency 0 a message is evicted only for want of bytes: whatever  *)
(* the size of the cache, the sizes of the messages and the algorithms, as *)
(* long as no message is smaller than the least partition.                 *)
(*                                                                         *)
(* Tiling is kept by a compaction because a free partition that is removed *)
(* by its position is the first of the list there, although the occupied   *)
(* ones have moved already: none moves to the right (NotToTheRight), and   *)
(* none but the last is empty (Sizes).                                     *)
(***************************************************************************)
EXTENDS DynamicMemory, CollectionProofs

\* No message is smaller than the least partition (see BrokenInTwo).
NoneIsSmaller == \A d \in DataSizes : TAMANO_MINIMO_PARTICION <= d

\* Only the last partition may be empty: the free one of a compaction that
\* found nothing free.
Sizes(s) == \A i \in DOMAIN s : s[i].size = 0 => i = Len(s) /\ s[i].free

\* A message is inside its partition, and its bytes are those that were saved.
Fit(s) == \A i \in Occupied(s) : s[i].data_size <= s[i].size

Content(s, c) ==
    \A i \in Occupied(s) :
        \A b \in s[i].position .. s[i].position + s[i].data_size - 1 :
            c[b] = s[i].creation_time

\* No two free partitions are neighbours, but for those around v.
FreeApart(s, v) ==
    \A i \in Free(s) : i + 1 \in Free(s) => i = v \/ i + 1 = v

\* The messages of r are messages of s.
Comes(r, s) ==
    \A k \in DOMAIN r : ~r[k].free => \E j \in DOMAIN s : r[k] = s[j]

Layout(s) ==
    /\ s \in Seq(Partition)
    /\ Tiles(s, TAMANO_MEMORIA)
    /\ Sizes(s)
    /\ Fit(s)

\* With frequency 0, what is free is one partition when it is time to kill.
Gathered ==
    step = "find" /\ frecuencia = 0 /\ kills = 1 =>
        Free(partitions) = {Len(partitions)}

DynamicInv ==
    /\ TypeOK
    /\ Layout(partitions)
    /\ NoFreeNeighbours
    /\ Content(partitions, cache)
    /\ Gathered
    /\ step = "find" => request \in DataSizes

-----------------------------------------------------------------------------
(* Lists that divide the memory                                            *)

\* What a list of partitions is made of.
LEMMA ListProperties ==
    ASSUME NEW s \in Seq(Partition)
    PROVE  /\ DOMAIN s = 1 .. Len(s)
           /\ Len(s) \in Nat
           /\ \A j \in 1 .. Len(s) : s[j] \in Partition
           /\ \A j \in 1 .. Len(s) : s[j].position \in Nat /\ s[j].size \in Nat
<1>1. DOMAIN s = 1 .. Len(s) /\ Len(s) \in Nat
  BY LenProperties
<1>2. ASSUME NEW j \in 1 .. Len(s) PROVE s[j] \in Partition
  BY <1>1, ElementOfSeq
<1>3. ASSUME NEW j \in 1 .. Len(s)
      PROVE  s[j].position \in Nat /\ s[j].size \in Nat
  BY <1>2 DEF Partition
<1>4. QED
  BY <1>1, <1>2, <1>3

\* Where a partition ends is not after where a later one of the list begins.
LEMMA TilesAreOrdered ==
    ASSUME NEW s \in Seq(Partition), NEW size, Tiles(s, size),
           NEW i \in DOMAIN s, NEW j \in DOMAIN s, i < j
    PROVE  s[i].position + s[i].size <= s[j].position
<1> DEFINE end == s[i].position + s[i].size
           T == {k \in i + 1 .. Len(s) : ~(end <= s[k].position)}
<1>1. /\ DOMAIN s = 1 .. Len(s) /\ Len(s) \in Nat
      /\ \A k \in 1 .. Len(s) : s[k].position \in Nat /\ s[k].size \in Nat
  BY ListProperties
<1>2. /\ \A k \in 1 .. Len(s) - 1 : s[k + 1].position = s[k].position + s[k].size
      /\ end \in Nat /\ i \in 1 .. Len(s) /\ j \in i + 1 .. Len(s)
  BY <1>1 DEF Tiles
<1>3. SUFFICES ASSUME T # {} PROVE FALSE
  BY <1>2
<1> HIDE DEF end
<1>4. PICK k \in T : \A l \in T : k <= l
  <2>1. T \in SUBSET (i + 1 .. Len(s)) /\ i + 1 \in Nat /\ T # {}
    BY <1>1, <1>2, <1>3
  <2> HIDE DEF T
  <2>2. QED
    BY <1>1, <2>1, LeastOf
<1>5. k \in i + 1 .. Len(s) /\ ~(end <= s[k].position)
  OBVIOUS
<1>6. k - 1 \in 1 .. Len(s) - 1 /\ (k - 1) + 1 = k
  BY <1>1, <1>2, <1>5
<1>7. s[k].position = s[k - 1].position + s[k - 1].size
  BY <1>2, <1>6
<1>8. CASE k = i + 1
  BY <1>1, <1>2, <1>5, <1>7, <1>8 DEF end
<1>9. CASE k # i + 1
  <2>1. k - 1 \in i + 1 .. Len(s) /\ ~(k <= k - 1)
    BY <1>1, <1>2, <1>5, <1>9
  <2>2. end <= s[k - 1].position
    BY <1>4, <2>1
  <2>3. s[k - 1].position \in Nat /\ s[k - 1].size \in Nat /\ s[k].position \in Nat
    BY <1>1, <1>2, <1>5, <1>6
  <2>4. QED
    BY <1>2, <1>5, <1>7, <2>2, <2>3, SMTT(20)
<1>10. QED
  BY <1>8, <1>9

LEMMA EndsInside ==
    ASSUME NEW s \in Seq(Partition), Tiles(s, TAMANO_MEMORIA), NEW i \in DOMAIN s
    PROVE  s[i].position + s[i].size <= TAMANO_MEMORIA
<1>1. /\ DOMAIN s = 1 .. Len(s) /\ Len(s) \in Nat
      /\ \A j \in 1 .. Len(s) : s[j].position \in Nat /\ s[j].size \in Nat
  BY ListProperties
<1>2. s[Len(s)].position + s[Len(s)].size = TAMANO_MEMORIA /\ TAMANO_MEMORIA \in Nat
  BY DynamicAssumption DEF Tiles
<1>3. CASE i = Len(s)
  BY <1>1, <1>2, <1>3
<1>4. CASE i # Len(s)
  <2>1. Len(s) \in DOMAIN s /\ i < Len(s)
    BY <1>1, <1>4
  <2>2. s[i].position + s[i].size <= s[Len(s)].position
    BY <2>1, TilesAreOrdered
  <2>3. QED
    BY <1>1, <1>2, <2>1, <2>2, SMTT(20)
<1>5. QED
  BY <1>3, <1>4

\* Positions grow along the list.
LEMMA PositionsGrow ==
    ASSUME NEW s \in Seq(Partition), NEW size, Tiles(s, size), Sizes(s),
           NEW i \in DOMAIN s, NEW j \in DOMAIN s
    PROVE  s[i].position < s[j].position <=> i < j
<1>1. /\ DOMAIN s = 1 .. Len(s) /\ Len(s) \in Nat
      /\ \A k \in 1 .. Len(s) : s[k].position \in Nat /\ s[k].size \in Nat
  BY ListProperties
<1>2. ASSUME NEW a \in DOMAIN s, NEW b \in DOMAIN s, a < b
      PROVE  s[a].position < s[b].position
  <2>1. s[a].position + s[a].size <= s[b].position
    BY <1>2, TilesAreOrdered
  <2>2. s[a].size # 0
    BY <1>1, <1>2 DEF Sizes
  <2>3. QED
    BY <1>1, <2>1, <2>2, SMTT(20)
<1>3. i \in Nat /\ j \in Nat /\ s[i].position \in Nat /\ s[j].position \in Nat
  BY <1>1
<1>4. CASE i < j
  BY <1>2, <1>4
<1>5. CASE j < i
  BY <1>2, <1>3, <1>5
<1>6. CASE i = j
  BY <1>3, <1>6
<1>7. QED
  BY <1>3, <1>4, <1>5, <1>6

\* The list is searched from its head: the first partition that starts there.
LEMMA FindIndexProperties ==
    ASSUME NEW s, NEW i \in DOMAIN s, DOMAIN s = 1 .. Len(s), Len(s) \in Nat,
           \A j \in DOMAIN s : s[j].position = s[i].position => i <= j
    PROVE  _list_find_index(s, s[i].position) = i
<1>1. SelectInSeq(s, LAMBDA p : p.position = s[i].position) = i
  BY FirstAtPosition
<1>2. QED
  BY <1>1 DEF _list_find_index

LEMMA RemovePartition ==
    ASSUME NEW s \in Seq(Partition), NEW i \in 1 .. Len(s),
           \A j \in 1 .. Len(s) : s[j].position = s[i].position => i <= j
    PROVE  remove_partition_at(s, s[i].position) = RemoveAt(s, i)
<1>1. DOMAIN s = 1 .. Len(s) /\ Len(s) \in Nat
  BY ListProperties
<1>2. _list_find_index(s, s[i].position) = i
  BY <1>1, FindIndexProperties
<1>3. QED
  BY <1>1, <1>2 DEF remove_partition_at

LEMMA AddPartition ==
    ASSUME NEW s \in Seq(Partition), NEW i \in 1 .. Len(s), NEW p,
           \A j \in 1 .. Len(s) : s[j].position = s[i].position => i <= j
    PROVE  add_partition_next_to(s, s[i].position, p) = InsertAt(s, i + 1, p)
<1>1. DOMAIN s = 1 .. Len(s) /\ Len(s) \in Nat
  BY ListProperties
<1>2. _list_find_index(s, s[i].position) = i
  BY <1>1, FindIndexProperties
<1>3. QED
  BY <1>1, <1>2 DEF add_partition_next_to

\* A new partition has the size it is created with, if that is one of memory.
LEMMA CreateProperties ==
    ASSUME NEW position \in Nat, NEW size \in Nat, size <= TAMANO_MEMORIA
    PROVE  /\ create_partition(position, size) \in Partition
           /\ create_partition(position, size).position = position
           /\ create_partition(position, size).size = size
           /\ create_partition(position, size).free
<1>1. size < UnsignedModulus /\ UnsignedModulus \in Nat \ {0}
  BY DynamicAssumption, UnsignedModulusAssumption
<1>2. size % UnsignedModulus = size
  BY <1>1
<1>3. QED
  BY <1>1, <1>2 DEF create_partition, Partition

\* A list that differs from a good one in messages only is good, if what is
\* new in it fits.
LEMMA SameLayout ==
    ASSUME NEW s, Layout(s), NEW r \in Seq(Partition), Len(r) = Len(s),
           \A i \in DOMAIN s :
              /\ r[i].position = s[i].position /\ r[i].size = s[i].size
              /\ \/ r[i].free
                 \/ ~s[i].free /\ r[i].data_size = s[i].data_size
                 \/ s[i].size > 0 /\ r[i].data_size <= s[i].size
    PROVE  Layout(r)
<1>1. /\ DOMAIN s = 1 .. Len(s) /\ DOMAIN r = 1 .. Len(s) /\ Len(s) \in Nat
      /\ s \in Seq(Partition)
  BY ListProperties DEF Layout
<1>2. Tiles(r, TAMANO_MEMORIA)
  <2>1. Len(s) > 0 /\ r[1].position = 0
    BY <1>1 DEF Layout, Tiles
  <2>2. r[Len(r)].position + r[Len(r)].size = TAMANO_MEMORIA
    BY <1>1, <2>1 DEF Layout, Tiles
  <2>3. ASSUME NEW k \in 1 .. Len(s) - 1
        PROVE  r[k + 1].position = r[k].position + r[k].size
    <3>1. k \in DOMAIN s /\ k + 1 \in DOMAIN s
      BY <1>1
    <3>2. s[k + 1].position = s[k].position + s[k].size
      BY DEF Layout, Tiles
    <3>3. QED
      BY <3>1, <3>2
  <2>4. QED
    BY <2>1, <2>2, <2>3 DEF Tiles
<1>3. Sizes(r)
  <2>1. ASSUME NEW i \in DOMAIN r, r[i].size = 0 PROVE i = Len(r) /\ r[i].free
    <3>1. i \in DOMAIN s /\ s[i].size = 0
      BY <1>1, <2>1
    <3>2. i = Len(s) /\ s[i].free
      BY <3>1 DEF Layout, Sizes
    <3>3. QED
      BY <3>1, <3>2
  <2>2. QED
    BY <2>1 DEF Sizes
<1>4. Fit(r)
  <2>1. ASSUME NEW i \in Occupied(r) PROVE r[i].data_size <= r[i].size
    <3>1. i \in DOMAIN s /\ ~r[i].free
      BY <1>1 DEF Occupied
    <3>2. CASE ~s[i].free /\ r[i].data_size = s[i].data_size
      <4>1. i \in Occupied(s)
        BY <3>1, <3>2 DEF Occupied
      <4>2. QED
        BY <3>1, <3>2, <4>1 DEF Layout, Fit
    <3>3. CASE r[i].data_size <= s[i].size
      BY <3>1, <3>3
    <3>4. QED
      BY <3>1, <3>2, <3>3
  <2>2. QED
    BY <2>1 DEF Fit
<1>5. QED
  BY <1>2, <1>3, <1>4 DEF Layout

(***************************************************************************)
(* Partitions i to i + d become one, a free one.                           *)
(***************************************************************************)
LEMMA MergedLayout ==
    ASSUME NEW s, Layout(s), NEW r \in Seq(Partition),
           NEW i \in 1 .. Len(s), NEW d \in Nat \ {0}, i + d <= Len(s),
           Len(r) = Len(s) - d,
           r[i].free, r[i].position = s[i].position,
           r[i].position + r[i].size = s[i + d].position + s[i + d].size,
           \A k \in 1 .. Len(s) - d : k < i => r[k] = s[k],
           \A k \in 1 .. Len(s) - d : k > i => r[k] = s[k + d]
    PROVE  Layout(r) /\ Comes(r, s)
<1>1. /\ s \in Seq(Partition) /\ DOMAIN s = 1 .. Len(s) /\ Len(s) \in Nat
      /\ DOMAIN r = 1 .. Len(s) - d /\ i \in 1 .. Len(s) - d /\ Len(s) - d \in Nat
      /\ i + d \in 1 .. Len(s)
      /\ \A j \in 1 .. Len(s) : s[j].position \in Nat /\ s[j].size \in Nat
      /\ \A j \in 1 .. Len(s) - d : r[j].position \in Nat /\ r[j].size \in Nat
  <2>1. s \in Seq(Partition)
    BY DEF Layout
  <2>2. DOMAIN r = 1 .. Len(r) /\ \A j \in 1 .. Len(r) : r[j].position \in Nat /\ r[j].size \in Nat
    BY ListProperties
  <2>3. Len(s) \in Nat
    BY <2>1, ListProperties
  <2>4. i \in 1 .. Len(s) - d /\ Len(s) - d \in Nat /\ i + d \in 1 .. Len(s)
    BY <2>3
  <2>5. QED
    BY <2>1, <2>2, <2>3, <2>4, ListProperties
<1>2. /\ Len(s) > 0 /\ s[1].position = 0
      /\ \A k \in 1 .. Len(s) - 1 : s[k + 1].position = s[k].position + s[k].size
      /\ s[Len(s)].position + s[Len(s)].size = TAMANO_MEMORIA
      /\ Sizes(s) /\ Fit(s) /\ Len(r) = Len(s) - d
  BY DEF Layout, Tiles
<1>0. /\ Len(s) \in Nat /\ i \in Nat /\ d \in Nat /\ d # 0 /\ 1 <= i /\ i + d <= Len(s)
      /\ Len(r) = Len(s) - d
  BY <1>1
<1>3. Tiles(r, TAMANO_MEMORIA)
  <2>1. r[1].position = 0
    <3>1. CASE i = 1
      BY <1>2, <3>1
    <3>2. CASE i # 1
      <4>1. 1 \in 1 .. Len(s) - d /\ 1 < i
        BY <1>1, <3>2
      <4>2. QED
        BY <1>2, <4>1
    <3>3. QED
      BY <3>1, <3>2
  <2>2. ASSUME NEW k \in 1 .. (Len(s) - d) - 1
        PROVE  r[k + 1].position = r[k].position + r[k].size
    <3>0. /\ k \in 1 .. Len(s) - d /\ k + 1 \in 1 .. Len(s) - d
          /\ k \in 1 .. Len(s) - 1 /\ k + d \in 1 .. Len(s) - 1
          /\ (k + 1) + d = (k + d) + 1
      BY <1>1
    <3>1. CASE k + 1 < i
      <4>1. r[k] = s[k] /\ r[k + 1] = s[k + 1]
        BY <1>1, <3>0, <3>1
      <4>2. QED
        BY <1>2, <3>0, <4>1
    <3>2. CASE k + 1 = i
      <4>1. r[k] = s[k] /\ r[k + 1].position = s[k + 1].position
        BY <1>1, <3>0, <3>2, SMTT(20)
      <4>2. QED
        BY <1>2, <3>0, <4>1
    <3>3. CASE k = i
      <4>1. r[k + 1] = s[(k + d) + 1]
        BY <1>1, <3>0, <3>3
      <4>2. s[(k + d) + 1].position = s[k + d].position + s[k + d].size
        BY <1>2, <3>0
      <4>3. QED
        BY <3>3, <4>1, <4>2
    <3>4. CASE k > i
      <4>1. r[k] = s[k + d] /\ r[k + 1] = s[(k + d) + 1]
        BY <1>1, <3>0, <3>4, SMTT(20)
      <4>2. QED
        BY <1>2, <3>0, <4>1
    <3>5. QED
      BY <1>1, <3>0, <3>1, <3>2, <3>3, <3>4
  <2>3. r[Len(r)].position + r[Len(r)].size = TAMANO_MEMORIA
    <3>1. CASE i + d = Len(s)
      <4>1. Len(r) = i
        BY ONLY <1>0, <3>1
      <4>2. QED
        BY <1>2, <3>1, <4>1
    <3>2. CASE i + d # Len(s)
      <4>1. Len(r) \in 1 .. Len(s) - d /\ Len(r) > i /\ Len(r) + d = Len(s)
        BY ONLY <1>0, <3>2
      <4>2. QED
        BY <1>2, <4>1
    <3>3. QED
      BY <3>1, <3>2
  <2>4. Len(r) > 0
    BY <1>1
  <2>5. QED
    BY <2>1, <2>2, <2>3, <2>4 DEF Tiles
<1>4. Sizes(r)
  <2>1. ASSUME NEW k \in 1 .. Len(s) - d, r[k].size = 0
        PROVE  k = Len(s) - d /\ r[k].free
    <3>1. CASE k < i
      <4>1. r[k] = s[k] /\ k \in DOMAIN s /\ k # Len(s)
        BY <1>1, <3>1
      <4>2. QED
        BY <1>2, <2>1, <4>1 DEF Sizes
    <3>2. CASE k = i
      <4>1. i + d \in DOMAIN s /\ i \in DOMAIN s /\ i < i + d /\ i # Len(s)
        BY <1>1
      <4>2. s[i].size # 0
        BY <1>2, <4>1 DEF Sizes
      <4>3. s[i].position + s[i].size <= s[i + d].position
        <5>1. s \in Seq(Partition) /\ Tiles(s, TAMANO_MEMORIA)
          BY DEF Layout
        <5>2. QED
          BY <4>1, <5>1, TilesAreOrdered
      <4>4. r[i].size = 0 /\ r[i].position = s[i].position
        BY <2>1, <3>2
      <4>5. /\ s[i].position \in Nat /\ s[i].size \in Nat
            /\ s[i + d].position \in Nat /\ s[i + d].size \in Nat
        BY <1>1
      <4>6. s[i].position + 0 = s[i + d].position + s[i + d].size
        BY <4>4
      <4>7. \A p, q, z, w \in Nat : p + 0 = z + w /\ p + q <= z => q = 0
        OBVIOUS
      <4>8. FALSE
        BY ONLY <4>2, <4>3, <4>5, <4>6, <4>7
      <4>9. QED
        BY <4>8
    <3>3. CASE k > i
      <4>1. r[k] = s[k + d] /\ k + d \in DOMAIN s
        BY <1>1, <3>3, SMTT(20)
      <4>2. k + d = Len(s) /\ s[k + d].free
        BY <1>2, <2>1, <4>1 DEF Sizes
      <4>3. k = Len(s) - d
        BY ONLY <1>0, <4>2, k \in 1 .. Len(s) - d
      <4>4. QED
        BY <4>1, <4>2, <4>3
    <3>4. QED
      BY <1>1, <3>1, <3>2, <3>3
  <2>2. QED
    BY <1>1, <2>1 DEF Sizes
<1>5. ASSUME NEW k \in DOMAIN r, ~r[k].free
      PROVE  \E j \in DOMAIN s : r[k] = s[j]
  <2>1. k # i /\ k \in 1 .. Len(s) - d
    BY <1>1, <1>5
  <2>2. CASE k < i
    <3>1. k \in DOMAIN s /\ r[k] = s[k]
      BY <1>1, <2>1, <2>2
    <3>2. QED
      BY <3>1
  <2>3. CASE k > i
    <3>1. k + d \in DOMAIN s /\ r[k] = s[k + d]
      BY <1>1, <2>1, <2>3, SMTT(20)
    <3>2. QED
      BY <3>1
  <2>4. QED
    BY <1>1, <2>1, <2>2, <2>3
<1>6. Fit(r)
  BY <1>2, <1>5 DEF Fit, Occupied
<1>7. QED
  BY <1>3, <1>4, <1>5, <1>6 DEF Layout, Comes

(***************************************************************************)
(* Partition i becomes two: the first one of first bytes, and a free one   *)
(* of the others.                                                          *)
(***************************************************************************)
LEMMA SplitLayout ==
    ASSUME NEW s, Layout(s), NEW r \in Seq(Partition),
           NEW i \in 1 .. Len(s), Len(r) = Len(s) + 1,
           r[i].position = s[i].position, r[i].size > 0, r[i].data_size <= r[i].size,
           r[i + 1].position = r[i].position + r[i].size,
           r[i + 1].size > 0, r[i + 1].free,
           r[i + 1].position + r[i + 1].size = s[i].position + s[i].size,
           \A k \in 1 .. Len(s) : k < i => r[k] = s[k],
           \A k \in 1 .. Len(s) : k > i => r[k + 1] = s[k]
    PROVE  Layout(r)
<1>1. /\ s \in Seq(Partition) /\ DOMAIN s = 1 .. Len(s) /\ Len(s) \in Nat
      /\ DOMAIN r = 1 .. Len(s) + 1
      /\ \A j \in 1 .. Len(s) : s[j].position \in Nat /\ s[j].size \in Nat
      /\ \A j \in 1 .. Len(s) + 1 : r[j].position \in Nat /\ r[j].size \in Nat
  <2>1. s \in Seq(Partition)
    BY DEF Layout
  <2>2. DOMAIN r = 1 .. Len(r) /\ \A j \in 1 .. Len(r) : r[j].position \in Nat /\ r[j].size \in Nat
    BY ListProperties
  <2>3. QED
    BY <2>1, <2>2, ListProperties
<1>2. /\ Len(s) > 0 /\ s[1].position = 0
      /\ \A k \in 1 .. Len(s) - 1 : s[k + 1].position = s[k].position + s[k].size
      /\ s[Len(s)].position + s[Len(s)].size = TAMANO_MEMORIA
      /\ Sizes(s) /\ Fit(s)
  BY DEF Layout, Tiles
<1>3. ASSUME NEW k \in i + 2 .. Len(s) + 1
      PROVE  k - 1 \in 1 .. Len(s) /\ k - 1 > i /\ r[k] = s[k - 1]
  <2>1. k - 1 \in 1 .. Len(s) /\ k - 1 > i /\ (k - 1) + 1 = k
    BY <1>1
  <2>2. QED
    BY <2>1
<1>4. Tiles(r, TAMANO_MEMORIA)
  <2>1. r[1].position = 0
    <3>1. CASE i = 1
      BY <1>2, <3>1
    <3>2. CASE i # 1
      <4>1. 1 \in 1 .. Len(s) /\ 1 < i
        BY <1>1, <3>2
      <4>2. QED
        BY <1>2, <4>1
    <3>3. QED
      BY <3>1, <3>2
  <2>2. ASSUME NEW k \in 1 .. (Len(s) + 1) - 1
        PROVE  r[k + 1].position = r[k].position + r[k].size
    <3>1. CASE k + 1 < i
      <4>1. k \in 1 .. Len(s) - 1 /\ k \in 1 .. Len(s) /\ k + 1 \in 1 .. Len(s) /\ k < i
        BY <1>1, <3>1, SMTT(20)
      <4>2. QED
        BY <1>2, <3>1, <4>1
    <3>2. CASE k + 1 = i
      <4>1. k \in 1 .. Len(s) - 1 /\ k \in 1 .. Len(s) /\ k < i
        BY <1>1, <3>2
      <4>2. QED
        BY <1>2, <3>2, <4>1
    <3>3. CASE k = i
      BY <3>3
    <3>4. CASE k = i + 1
      <4>1. k + 1 \in i + 2 .. Len(s) + 1 /\ (k + 1) - 1 = i + 1 /\ i \in 1 .. Len(s) - 1
        BY <1>1, <3>4
      <4>2. r[k + 1] = s[i + 1]
        BY <1>3, <4>1
      <4>3. QED
        BY <1>2, <3>4, <4>1, <4>2
    <3>5. CASE k > i + 1
      <4>1. /\ k \in i + 2 .. Len(s) + 1 /\ k + 1 \in i + 2 .. Len(s) + 1
            /\ (k + 1) - 1 = (k - 1) + 1 /\ k - 1 \in 1 .. Len(s) - 1
        BY <1>1, <3>5
      <4>2. r[k] = s[k - 1] /\ r[k + 1] = s[(k - 1) + 1]
        <5>1. r[k + 1] = s[(k + 1) - 1]
          BY <1>3, <4>1
        <5>2. QED
          BY <1>3, <4>1, <5>1
      <4>3. QED
        BY <1>2, <4>1, <4>2
    <3>6. QED
      BY <1>1, <3>1, <3>2, <3>3, <3>4, <3>5
  <2>3. r[Len(r)].position + r[Len(r)].size = TAMANO_MEMORIA
    <3>1. CASE i = Len(s)
      BY <1>1, <1>2, <3>1
    <3>3. Len(s) \in Nat /\ i \in Nat /\ 1 <= i /\ i <= Len(s) /\ Len(r) = Len(s) + 1
      BY <1>1
    <3>2. CASE i # Len(s)
      <4>1. Len(r) \in i + 2 .. Len(s) + 1 /\ Len(r) - 1 = Len(s)
        BY ONLY <3>3, <3>2
      <4>2. QED
        BY <1>2, <1>3, <4>1
    <3>4. QED
      BY <3>1, <3>2
  <2>4. Len(r) > 0
    BY <1>1
  <2>5. QED
    BY <1>1, <2>1, <2>2, <2>3, <2>4 DEF Tiles
<1>5. ASSUME NEW k \in DOMAIN r, k # i, k # i + 1
      PROVE  \/ k \in DOMAIN s /\ k < i /\ r[k] = s[k]
             \/ k - 1 \in DOMAIN s /\ k - 1 > i /\ r[k] = s[k - 1]
  <2>1. CASE k < i
    BY <1>1, <1>5, <2>1
  <2>2. CASE k > i
    <3>1. k \in i + 2 .. Len(s) + 1
      BY <1>1, <1>5, <2>2
    <3>2. QED
      BY <1>1, <1>3, <3>1
  <2>3. QED
    BY <1>1, <1>5, <2>1, <2>2
<1>6. Sizes(r)
  <2>1. ASSUME NEW k \in DOMAIN r, r[k].size = 0 PROVE k = Len(r) /\ r[k].free
    <3>1. k # i /\ k # i + 1
      BY <2>1
    <3>2. CASE k \in DOMAIN s /\ k < i /\ r[k] = s[k]
      BY <1>1, <1>2, <2>1, <3>2 DEF Sizes
    <3>3. CASE k - 1 \in DOMAIN s /\ k - 1 > i /\ r[k] = s[k - 1]
      <4>1. k - 1 = Len(s) /\ r[k].free
        BY <1>2, <2>1, <3>3 DEF Sizes
      <4>2. QED
        BY <1>1, <4>1
    <3>4. QED
      BY <1>5, <3>1, <3>2, <3>3
  <2>2. QED
    BY <2>1 DEF Sizes
<1>7. Fit(r)
  <2>1. ASSUME NEW k \in DOMAIN r, ~r[k].free PROVE r[k].data_size <= r[k].size
    <3>1. CASE k = i
      BY <3>1
    <3>2. CASE k # i
      <4>1. \E j \in DOMAIN s : r[k] = s[j]
        BY <1>5, <2>1, <3>2
      <4>2. QED
        BY <1>2, <2>1, <4>1 DEF Fit, Occupied
    <3>3. QED
      BY <3>1, <3>2
  <2>2. QED
    BY <2>1 DEF Fit, Occupied
<1>8. QED
  BY <1>4, <1>6, <1>7 DEF Layout

\* Where partitions i to i + d, the first and the last of them free, become one,
\* and all the free neighbours were among them, there are none any more.
LEMMA MergedApart ==
    ASSUME NEW s \in Seq(Partition), NEW r \in Seq(Partition),
           NEW i \in Free(s), NEW d \in Nat \ {0}, i + d \in Free(s),
           Len(r) = Len(s) - d,
           \A k \in 1 .. Len(s) - d : k < i => r[k] = s[k],
           \A k \in 1 .. Len(s) - d : k > i => r[k] = s[k + d],
           \A j \in Free(s) : j + 1 \in Free(s) => i <= j /\ j < i + d
    PROVE  \A k \in Free(r) : k + 1 \notin Free(r)
<1>1. /\ DOMAIN s = 1 .. Len(s) /\ Len(s) \in Nat /\ DOMAIN r = 1 .. Len(s) - d
      /\ i \in 1 .. Len(s) /\ i + d \in 1 .. Len(s)
  <2>1. DOMAIN s = 1 .. Len(s) /\ Len(s) \in Nat /\ DOMAIN r = 1 .. Len(r)
    BY ListProperties
  <2>2. i \in DOMAIN s /\ i + d \in DOMAIN s
    BY DEF Free
  <2>3. QED
    BY <2>1, <2>2
<1>2. SUFFICES ASSUME NEW k \in Free(r), k + 1 \in Free(r) PROVE FALSE
  OBVIOUS
<1>3. /\ k \in 1 .. Len(s) - d /\ k + 1 \in 1 .. Len(s) - d /\ r[k].free /\ r[k + 1].free
      /\ k \in 1 .. Len(s) /\ k + 1 \in 1 .. Len(s) /\ k + d \in 1 .. Len(s)
      /\ (k + 1) + d = (k + d) + 1 /\ (k + d) + 1 \in 1 .. Len(s)
  <2>1. k \in DOMAIN r /\ k + 1 \in DOMAIN r /\ r[k].free /\ r[k + 1].free
    BY <1>2 DEF Free
  <2>2. /\ k \in 1 .. Len(s) /\ k + 1 \in 1 .. Len(s) /\ k + d \in 1 .. Len(s)
        /\ (k + 1) + d = (k + d) + 1 /\ (k + d) + 1 \in 1 .. Len(s)
    <3>1. /\ Len(s) \in Nat /\ k \in 1 .. Len(s) - d /\ k + 1 \in 1 .. Len(s) - d
          /\ d \in Nat
      BY <1>1, <2>1
    <3>2. QED
      BY ONLY <3>1
  <2>3. QED
    BY <1>1, <2>1, <2>2
<1>4. \A j \in 1 .. Len(s) : s[j].free <=> j \in Free(s)
  BY <1>1 DEF Free
<1>5. \A j \in Free(s) : j + 1 \in Free(s) => i <= j /\ j < i + d
  OBVIOUS
<1>6. CASE k + 1 < i
  <2>1. r[k] = s[k] /\ r[k + 1] = s[k + 1]
    BY <1>1, <1>3, <1>6
  <2>2. k \in Free(s) /\ k + 1 \in Free(s)
    BY <1>3, <1>4, <2>1
  <2>3. QED
    BY <1>1, <1>3, <1>5, <1>6, <2>2
<1>7. CASE k + 1 = i
  <2>1. r[k] = s[k]
    BY <1>1, <1>3, <1>7
  <2>2. k \in Free(s) /\ k + 1 \in Free(s)
    BY <1>3, <1>4, <1>7, <2>1
  <2>3. QED
    BY <1>1, <1>3, <1>5, <1>7, <2>2
<1>8. CASE k = i
  <2>1. r[k + 1] = s[(k + d) + 1]
    BY <1>1, <1>3, <1>8
  <2>2. k + d \in Free(s) /\ (k + d) + 1 \in Free(s)
    BY <1>3, <1>4, <1>8, <2>1
  <2>3. k + d < i + d
    BY <1>5, <2>2
  <2>4. QED
    BY <1>1, <1>8, <2>3
<1>9. CASE k > i
  <2>1. r[k] = s[k + d] /\ r[k + 1] = s[(k + d) + 1]
    <3>1. r[k] = s[k + d]
      BY <1>1, <1>3, <1>9
    <3>2. k + 1 > i
      BY <1>1, <1>3, <1>9
    <3>3. r[k + 1] = s[(k + 1) + d]
      BY <1>3, <3>2
    <3>4. QED
      BY <1>3, <3>1, <3>3
  <2>2. k + d \in Free(s) /\ (k + d) + 1 \in Free(s)
    BY <1>3, <1>4, <2>1
  <2>3. k + d < i + d
    BY <1>5, <2>2
  <2>4. QED
    BY <1>1, <1>3, <1>9, <2>3
<1>10. QED
  BY <1>1, <1>3, <1>6, <1>7, <1>8, <1>9

\* The partition behind a partition leaves the list.
LEMMA RemoveBehind ==
    ASSUME NEW s \in Seq(Partition), NEW i \in 1 .. Len(s),
           \A j \in 1 .. Len(s) : j < i => s[j].position # s[i].position
    PROVE  LET r == remove_partition_at(s, s[i].position) IN
           /\ r \in Seq(Partition)
           /\ Len(r) = Len(s) - 1
           /\ \A k \in 1 .. Len(s) - 1 : r[k] = IF k < i THEN s[k] ELSE s[k + 1]
<1>1. \A j \in 1 .. Len(s) : s[j].position = s[i].position => i <= j
  <2>1. Len(s) \in Nat
    BY ListProperties
  <2>2. QED
    BY <2>1
<1>2. remove_partition_at(s, s[i].position) = RemoveAt(s, i)
  BY <1>1, RemovePartition
<1>3. QED
  BY <1>2, RemoveAtProperties

(***************************************************************************)
(* In a list with no free neighbours but those around v, a free partition, *)
(* _consolidate leaves none.                                               *)
(***************************************************************************)
LEMMA ConsolidateProperties ==
    ASSUME NEW s, Layout(s), NEW v \in Free(s), FreeApart(s, v)
    PROVE  LET r == _consolidate(s) IN
           /\ Layout(r)
           /\ Comes(r, s)
           /\ \A k \in Free(r) : k + 1 \notin Free(r)
<1> DEFINE pairs   == {i \in Free(s) : i + 1 \in Free(s)}
           left    == CHOOSE i \in pairs : \A j \in pairs : i <= j
           three   == left + 2 \in Free(s)
           size    == s[left].size + s[left + 1].size
                          + (IF three THEN s[left + 2].size ELSE 0)
           grown   == [s EXCEPT ![left].size = size]
           without == IF three THEN remove_partition_at(grown, s[left + 2].position)
                      ELSE grown
           r       == remove_partition_at(without, s[left + 1].position)
<1>1. _consolidate(s) = IF pairs = {} THEN s ELSE r
  BY DEF _consolidate
<1>2. /\ s \in Seq(Partition) /\ DOMAIN s = 1 .. Len(s) /\ Len(s) \in Nat
      /\ \A j \in 1 .. Len(s) : s[j] \in Partition
      /\ \A j \in 1 .. Len(s) : s[j].position \in Nat /\ s[j].size \in Nat
  BY ListProperties DEF Layout
<1>3. \A j \in Free(s) : j \in 1 .. Len(s) /\ s[j].free
  BY <1>2 DEF Free
<1>4. CASE pairs = {}
  <2>1. _consolidate(s) = s
    BY <1>1, <1>4
  <2>2. \A k \in Free(s) : k + 1 \notin Free(s)
    BY <1>4
  <2>3. Comes(s, s)
    BY DEF Comes
  <2>4. QED
    BY <2>1, <2>2, <2>3
<1>5. CASE pairs # {}
  <2>1. left \in pairs /\ \A j \in pairs : left <= j
    <3>1. \A j \in pairs : j \in Nat
      BY <1>2, <1>3
    <3>2. pairs \in SUBSET Nat
      BY <3>1
    <3> HIDE DEF pairs
    <3>3. \E x \in pairs : \A y \in pairs : x <= y
      BY <1>5, <3>2, MinProperties
    <3>4. QED
      BY <3>3
  <2>2. \A j \in pairs : j \in Nat /\ (j = v \/ j = v - 1)
    BY <1>2, <1>3 DEF FreeApart
  <2> HIDE DEF left
  <2>3. /\ left \in 1 .. Len(s) /\ left + 1 \in 1 .. Len(s)
        /\ left \in Free(s) /\ left + 1 \in Free(s)
    BY <1>3, <2>1
  <2>4. three => left + 2 \in 1 .. Len(s)
    BY <1>3
  <2>5. /\ \A i \in 1 .. Len(s), j \in 1 .. Len(s) : i < j => s[i].position # s[j].position
        /\ s[left + 1].position = s[left].position + s[left].size
        /\ three => s[left + 2].position = s[left + 1].position + s[left + 1].size
    <3>1. ASSUME NEW i \in 1 .. Len(s), NEW j \in 1 .. Len(s), i < j
          PROVE  s[i].position # s[j].position
      <4>1. s[i].position < s[j].position
        BY <1>2, <3>1, PositionsGrow DEF Layout
      <4>2. QED
        BY <1>2, <4>1
    <3>2. \A k \in 1 .. Len(s) - 1 : s[k + 1].position = s[k].position + s[k].size
      BY DEF Layout, Tiles
    <3>3. left \in 1 .. Len(s) - 1 /\ (three => left + 1 \in 1 .. Len(s) - 1 /\ (left + 1) + 1 = left + 2)
      BY <1>2, <2>3, <2>4
    <3> HIDE DEF three
    <3>4. QED
      BY <3>1, <3>2, <3>3
  <2>6. size \in Nat
    BY <1>2, <2>3, <2>4
  <2> HIDE DEF size
  <2>7. /\ grown \in Seq(Partition) /\ Len(grown) = Len(s)
        /\ \A k \in 1 .. Len(s) : k # left => grown[k] = s[k]
        /\ grown[left].position = s[left].position /\ grown[left].size = size
        /\ grown[left].free
        /\ \A k \in 1 .. Len(s) : grown[k].position = s[k].position
    <3>1. grown = [s EXCEPT ![left] = [s[left] EXCEPT !.size = size]]
      OBVIOUS
    <3>2. [s[left] EXCEPT !.size = size] \in Partition
      <4>1. s[left] \in Partition
        BY <1>2, <2>3
      <4>2. QED
        BY <2>6, <4>1 DEF Partition
    <3>3. /\ grown \in Seq(Partition) /\ Len(grown) = Len(s)
          /\ grown[left] = [s[left] EXCEPT !.size = size]
          /\ \A k \in 1 .. Len(s) : k # left => grown[k] = s[k]
      <4> HIDE DEF grown
      <4>1. /\ grown \in Seq(Partition) /\ Len(grown) = Len(s)
        BY <1>2, <2>3, <3>1, <3>2, ExceptSeq
      <4>2. /\ grown[left] = [s[left] EXCEPT !.size = size]
            /\ \A k \in 1 .. Len(s) : k # left => grown[k] = s[k]
        BY <1>2, <2>3, <3>1, <3>2, ExceptSeq
      <4>3. QED
        BY <4>1, <4>2
    <3>4. s[left] \in Partition /\ s[left].free
      BY <1>2, <1>3, <2>3
    <3>5. /\ grown[left].position = s[left].position /\ grown[left].size = size
          /\ grown[left].free
      BY <3>3, <3>4 DEF Partition
    <3> HIDE DEF grown
    <3>6. QED
      BY <3>3, <3>5
  <2> HIDE DEF grown
  <2>8. CASE three
    <3>1. /\ left + 1 \in 1 .. Len(s) /\ left + 2 \in 1 .. Len(s) /\ left \in 1 .. Len(s)
          /\ Len(s) \in Nat /\ left \in Nat /\ s[left + 2].free /\ left + 2 \in Free(s)
      BY <1>2, <1>3, <2>3, <2>4, <2>8
    <3>2. /\ without \in Seq(Partition) /\ Len(without) = Len(s) - 1
          /\ \A k \in 1 .. Len(s) - 1 :
                without[k] = IF k < left + 2 THEN grown[k] ELSE grown[k + 1]
      <4>1. without = remove_partition_at(grown, grown[left + 2].position)
        BY <2>7, <2>8, <3>1
      <4>2. \A j \in 1 .. Len(grown) : j < left + 2 => grown[j].position # grown[left + 2].position
        BY <2>5, <2>7, <3>1
      <4> HIDE DEF without, three
      <4>3. left + 2 \in 1 .. Len(grown)
        BY <2>7, <3>1
      <4>4. QED
        BY <2>7, <4>1, <4>2, <4>3, RemoveBehind
    <3> HIDE DEF without
    <3>3. /\ r \in Seq(Partition) /\ Len(r) = Len(s) - 2
          /\ \A k \in 1 .. Len(s) - 2 :
                r[k] = IF k < left + 1 THEN without[k] ELSE without[k + 1]
      <4>1. left + 1 \in 1 .. Len(without) /\ without[left + 1] = grown[left + 1]
        BY <3>1, <3>2
      <4>2. r = remove_partition_at(without, without[left + 1].position)
        BY <2>7, <3>1, <4>1
      <4>3. ASSUME NEW j \in 1 .. Len(without), j < left + 1
            PROVE  without[j].position # without[left + 1].position
        <5>1. j \in 1 .. Len(s) /\ j \in 1 .. Len(s) - 1 /\ j < left + 2 /\ j # left + 1
          BY <3>1, <3>2, <4>3
        <5>2. without[j] = grown[j]
          BY <3>2, <5>1
        <5>3. QED
          BY <2>5, <2>7, <3>1, <4>1, <4>3, <5>1, <5>2
      <4> HIDE DEF r
      <4>4. Len(without) - 1 = Len(s) - 2
        BY <3>1, <3>2
      <4>5. QED
        BY <3>2, <4>1, <4>2, <4>3, <4>4, RemoveBehind
    <3> HIDE DEF r
    <3>4. \A k \in 1 .. Len(s) - 2 : k < left => r[k] = s[k]
      <4>1. ASSUME NEW k \in 1 .. Len(s) - 2, k < left PROVE r[k] = s[k]
        <5>1. /\ k \in 1 .. Len(s) - 1 /\ k < left + 1 /\ k < left + 2
              /\ k \in 1 .. Len(s) /\ k # left
          BY <3>1, <4>1
        <5>2. QED
          BY <2>7, <3>2, <3>3, <5>1
      <4>2. QED
        BY <4>1
    <3>5. \A k \in 1 .. Len(s) - 2 : k > left => r[k] = s[k + 2]
      <4>1. ASSUME NEW k \in 1 .. Len(s) - 2, k > left PROVE r[k] = s[k + 2]
        <5>1. /\ k + 1 \in 1 .. Len(s) - 1 /\ ~(k < left + 1) /\ ~(k + 1 < left + 2)
              /\ (k + 1) + 1 = k + 2 /\ k + 2 \in 1 .. Len(s) /\ k + 2 # left
          BY <3>1, <4>1
        <5>2. r[k] = without[k + 1] /\ without[k + 1] = grown[k + 2]
          BY <3>2, <3>3, <5>1
        <5>3. QED
          BY <2>7, <5>1, <5>2
      <4>2. QED
        BY <4>1
    <3>6. r[left] = grown[left]
      <4>1. left \in 1 .. Len(s) - 2 /\ left < left + 1 /\ left \in 1 .. Len(s) - 1 /\ left < left + 2
        BY <3>1
      <4>2. QED
        BY <3>2, <3>3, <4>1
    <3>7. r[left].position + r[left].size = s[left + 2].position + s[left + 2].size
      <4>1. size = s[left].size + s[left + 1].size + s[left + 2].size
        BY <2>8 DEF size
      <4>2. /\ s[left].position \in Nat /\ s[left].size \in Nat
            /\ s[left + 1].size \in Nat /\ s[left + 2].size \in Nat
        BY <1>2, <3>1
      <4>3. /\ s[left + 1].position = s[left].position + s[left].size
            /\ s[left + 2].position = s[left + 1].position + s[left + 1].size
        BY <2>5, <2>8
      <4>4. r[left].position = s[left].position /\ r[left].size = size
        BY <2>7, <3>6
      <4>5. QED
        BY ONLY <4>1, <4>2, <4>3, <4>4
    <3>8. Layout(r) /\ Comes(r, s)
      <4>1. r[left].free /\ r[left].position = s[left].position
        BY <2>7, <3>6
      <4>2. 2 \in Nat \ {0} /\ left + 2 <= Len(s)
        BY <3>1
      <4>3. QED
        BY <3>1, <3>3, <3>4, <3>5, <3>7, <4>1, <4>2, MergedLayout
    <3>9. \A k \in Free(r) : k + 1 \notin Free(r)
      <4>1. left = v - 1
        <5>1. left + 1 \in pairs
          BY <2>3, <3>1
        <5>2. left + 1 = v \/ left + 1 = v - 1
          BY <2>2, <5>1
        <5>3. left = v \/ left = v - 1
          BY <2>1, <2>2
        <5>4. v \in Nat
          BY <1>3
        <5>5. QED
          BY <3>1, <5>2, <5>3, <5>4
      <4>2. \A j \in Free(s) : j + 1 \in Free(s) => left <= j /\ j < left + 2
        <5>1. ASSUME NEW j \in pairs PROVE left <= j /\ j < left + 2
          <6>1. j \in Nat /\ (j = v \/ j = v - 1) /\ v \in Nat
            BY <1>3, <2>2
          <6>2. QED
            BY <3>1, <4>1, <6>1
        <5>2. QED
          BY <5>1
      <4>3. 2 \in Nat \ {0}
        OBVIOUS
      <4> HIDE DEF pairs, three
      <4>4. QED
        BY <1>2, <2>3, <3>1, <3>3, <3>4, <3>5, <4>2, <4>3, MergedApart
    <3>10. QED
      BY <1>1, <1>5, <3>8, <3>9
  <2>9. CASE ~three
    <3>1. /\ left + 1 \in 1 .. Len(s) /\ left \in 1 .. Len(s)
          /\ Len(s) \in Nat /\ left \in Nat
      BY <1>2, <2>3
    <3>2. r = remove_partition_at(grown, grown[left + 1].position)
      BY <2>7, <2>9, <3>1
    <3> HIDE DEF r
    <3>3. /\ r \in Seq(Partition) /\ Len(r) = Len(s) - 1
          /\ \A k \in 1 .. Len(s) - 1 :
                r[k] = IF k < left + 1 THEN grown[k] ELSE grown[k + 1]
      <4>1. \A j \in 1 .. Len(grown) : j < left + 1 => grown[j].position # grown[left + 1].position
        BY <2>5, <2>7, <3>1
      <4>2. left + 1 \in 1 .. Len(grown)
        BY <2>7, <3>1
      <4>3. QED
        BY <2>7, <3>2, <4>1, <4>2, RemoveBehind
    <3>4. \A k \in 1 .. Len(s) - 1 : k < left => r[k] = s[k]
      <4>1. ASSUME NEW k \in 1 .. Len(s) - 1, k < left PROVE r[k] = s[k]
        <5>1. k < left + 1 /\ k \in 1 .. Len(s) /\ k # left
          BY <3>1, <4>1
        <5>2. QED
          BY <2>7, <3>3, <5>1
      <4>2. QED
        BY <4>1
    <3>5. \A k \in 1 .. Len(s) - 1 : k > left => r[k] = s[k + 1]
      <4>1. ASSUME NEW k \in 1 .. Len(s) - 1, k > left PROVE r[k] = s[k + 1]
        <5>1. ~(k < left + 1) /\ k + 1 \in 1 .. Len(s) /\ k + 1 # left
          BY <3>1, <4>1
        <5>2. QED
          BY <2>7, <3>3, <5>1
      <4>2. QED
        BY <4>1
    <3>6. r[left] = grown[left]
      <4>1. left \in 1 .. Len(s) - 1 /\ left < left + 1
        BY <3>1
      <4>2. QED
        BY <3>3, <4>1
    <3>7. r[left].position + r[left].size = s[left + 1].position + s[left + 1].size
      <4>1. size = s[left].size + s[left + 1].size + 0
        BY <2>9 DEF size
      <4>2. /\ s[left].position \in Nat /\ s[left].size \in Nat /\ s[left + 1].size \in Nat
        BY <1>2, <3>1
      <4>3. s[left + 1].position = s[left].position + s[left].size
        BY <2>5
      <4>4. r[left].position = s[left].position /\ r[left].size = size
        BY <2>7, <3>6
      <4>5. QED
        BY ONLY <4>1, <4>2, <4>3, <4>4
    <3>8. Layout(r) /\ Comes(r, s)
      <4>1. r[left].free /\ r[left].position = s[left].position
        BY <2>7, <3>6
      <4>2. 1 \in Nat \ {0} /\ left + 1 <= Len(s)
        BY <3>1
      <4>3. QED
        BY <3>1, <3>3, <3>4, <3>5, <3>7, <4>1, <4>2, MergedLayout
    <3>9. \A k \in Free(r) : k + 1 \notin Free(r)
      <4>1. ASSUME NEW j \in pairs PROVE j = left
        <5>1. j \in Nat /\ (j = v \/ j = v - 1) /\ (left = v \/ left = v - 1) /\ left <= j
          BY <2>1, <2>2
        <5>2. v \in Nat
          BY <1>3
        <5>3. ASSUME j # left PROVE FALSE
          <6>1. j = left + 1
            BY <3>1, <5>1, <5>2, <5>3
          <6>2. left + 2 \in Free(s)
            <7>1. (left + 1) + 1 = left + 2 /\ j + 1 \in Free(s)
              BY <3>1
            <7>2. QED
              BY <6>1, <7>1
          <6>3. QED
            BY <2>9, <6>2
        <5>4. QED
          BY <5>3
      <4>2. \A j \in Free(s) : j + 1 \in Free(s) => left <= j /\ j < left + 1
        <5>1. \A j \in pairs : left <= j /\ j < left + 1
          BY <3>1, <4>1
        <5>2. QED
          BY <5>1
      <4>3. 1 \in Nat \ {0}
        OBVIOUS
      <4> HIDE DEF pairs, three
      <4>4. QED
        BY <1>2, <2>3, <3>1, <3>3, <3>4, <3>5, <4>2, <4>3, MergedApart
    <3>10. QED
      BY <1>1, <1>5, <3>8, <3>9
  <2>10. QED
    BY <2>8, <2>9
<1>6. QED
  BY <1>4, <1>5

-----------------------------------------------------------------------------
(* Compaction                                                              *)

LEMMA SizesAddUp ==
    ASSUME NEW s \in Seq(Partition), NEW I \in SUBSET (1 .. Len(s))
    PROVE  /\ SumOfSizes(s, I) \in Nat
           /\ \A x \in I : SumOfSizes(s, I) = s[x].size + SumOfSizes(s, I \ {x})
           /\ I = {} => SumOfSizes(s, I) = 0
<1> DEFINE f == [i \in DOMAIN s |-> s[i].size]
<1>1. /\ DOMAIN s = 1 .. Len(s) /\ Len(s) \in Nat
      /\ \A j \in 1 .. Len(s) : s[j].size \in Nat
  BY ListProperties
<1>2. IsFiniteSet(I)
  <2>1. IsFiniteSet(1 .. Len(s))
    BY <1>1, FS_Interval
  <2>2. QED
    BY <2>1, FS_Subset
<1>3. \A x \in I : f[x] = s[x].size /\ f[x] \in Nat
  BY <1>1
<1> HIDE DEF f
<1>4. /\ SumFunctionOnSet(f, I) \in Nat
      /\ \A x \in I : SumFunctionOnSet(f, I) = f[x] + SumFunctionOnSet(f, I \ {x})
  BY <1>2, <1>3, SumProperties
<1>5. I = {} => SumFunctionOnSet(f, I) = 0
  BY <1>2, SumFirst
<1>6. QED
  BY <1>3, <1>4, <1>5 DEF SumOfSizes, f

\* The partitions of K before the i-th.
Before(K, i) == {j \in K : j < i}

LEMMA BeforeNext ==
    ASSUME NEW s \in Seq(Partition), NEW K \in SUBSET (1 .. Len(s)),
           NEW i \in 1 .. Len(s)
    PROVE  SumOfSizes(s, Before(K, i + 1)) =
              SumOfSizes(s, Before(K, i)) + (IF i \in K THEN s[i].size ELSE 0)
<1>1. Len(s) \in Nat /\ \A j \in 1 .. Len(s) : s[j].size \in Nat
  BY ListProperties
<1>5. \A j \in K : (j < i + 1 <=> j < i \/ j = i) /\ (j = i => ~(j < i))
  <2>1. \A j \in K : j \in Int
    OBVIOUS
  <2>2. i \in Int
    OBVIOUS
  <2>3. QED
    BY ONLY <2>1, <2>2
<1>2. CASE i \in K
  <2>1. /\ Before(K, i + 1) \in SUBSET (1 .. Len(s)) /\ i \in Before(K, i + 1)
        /\ Before(K, i + 1) \ {i} = Before(K, i) /\ Before(K, i) \in SUBSET (1 .. Len(s))
    BY <1>2, <1>5 DEF Before
  <2>2. SumOfSizes(s, Before(K, i)) \in Nat
    BY <2>1, SizesAddUp
  <2>3. SumOfSizes(s, Before(K, i + 1)) = s[i].size + SumOfSizes(s, Before(K, i))
    BY <2>1, SizesAddUp
  <2>4. QED
    BY <1>1, <1>2, <2>2, <2>3
<1>3. CASE i \notin K
  <2>1. Before(K, i + 1) = Before(K, i) /\ Before(K, i) \in SUBSET (1 .. Len(s))
    BY <1>3, <1>5 DEF Before
  <2>2. SumOfSizes(s, Before(K, i)) \in Nat
    BY <2>1, SizesAddUp
  <2>3. QED
    BY <1>3, <2>1, <2>2
<1>4. QED
  BY <1>2, <1>3

(***************************************************************************)
(* A partition begins where the sizes of those before it, occupied and     *)
(* free, add up to; all together they add up to the memory.                *)
(***************************************************************************)
LEMMA PrefixSums ==
    ASSUME NEW s \in Seq(Partition), Tiles(s, TAMANO_MEMORIA),
           NEW i \in 1 .. Len(s) + 1
    PROVE  SumOfSizes(s, Before(Occupied(s), i)) + SumOfSizes(s, Before(Free(s), i))
              = IF i = Len(s) + 1 THEN TAMANO_MEMORIA ELSE s[i].position
<1> DEFINE total(k) == SumOfSizes(s, Before(Occupied(s), k)) + SumOfSizes(s, Before(Free(s), k))
           start(k) == IF k = Len(s) + 1 THEN TAMANO_MEMORIA ELSE s[k].position
           T == {k \in 1 .. Len(s) + 1 : total(k) # start(k)}
<1>1. /\ DOMAIN s = 1 .. Len(s) /\ Len(s) \in Nat
      /\ \A k \in 1 .. Len(s) : s[k].position \in Nat /\ s[k].size \in Nat
      /\ Occupied(s) \in SUBSET (1 .. Len(s)) /\ Free(s) \in SUBSET (1 .. Len(s))
      /\ \A k \in 1 .. Len(s) : k \in Occupied(s) <=> k \notin Free(s)
  BY ListProperties DEF Occupied, Free
<1>2. /\ Len(s) > 0 /\ s[1].position = 0
      /\ \A k \in 1 .. Len(s) - 1 : s[k + 1].position = s[k].position + s[k].size
      /\ s[Len(s)].position + s[Len(s)].size = TAMANO_MEMORIA
  BY DEF Tiles
<1>3. SUFFICES ASSUME T # {} PROVE FALSE
  OBVIOUS
<1>4. PICK k \in T : \A l \in T : k <= l
  <2>1. T \in SUBSET (1 .. Len(s) + 1)
    OBVIOUS
  <2>2. 1 \in Nat /\ Len(s) + 1 \in Nat
    BY <1>1
  <2> HIDE DEF T
  <2>3. QED
    BY <1>3, <2>1, <2>2, LeastOf
<1>5. k \in 1 .. Len(s) + 1 /\ total(k) # start(k)
  OBVIOUS
<1>6. CASE k = 1
  <2>1. Before(Occupied(s), 1) = {} /\ Before(Free(s), 1) = {}
    BY <1>1 DEF Before
  <2>2. SumOfSizes(s, {}) = 0
    BY SizesAddUp
  <2>3. start(1) = 0
    BY <1>1, <1>2
  <2>4. total(1) = 0
    <3>1. /\ SumOfSizes(s, Before(Occupied(s), 1)) = 0
          /\ SumOfSizes(s, Before(Free(s), 1)) = 0
      BY <2>1, <2>2
    <3>2. QED
      BY <3>1
  <2>5. QED
    BY <1>5, <1>6, <2>3, <2>4
<1>7. CASE k # 1
  <2> DEFINE j == k - 1
  <2>1. j \in 1 .. Len(s) /\ j + 1 = k /\ ~(k <= j) /\ j \in 1 .. Len(s) + 1 /\ j # Len(s) + 1
    BY <1>1, <1>5, <1>7
  <2>2. total(j) = s[j].position
    <3>1. j \notin T
      BY <1>4, <2>1
    <3>2. QED
      BY <2>1, <3>1
  <2>3. start(j + 1) = s[j].position + s[j].size
    <3>1. CASE j = Len(s)
      BY <1>2, <3>1
    <3>2. CASE j # Len(s)
      <4>1. j \in 1 .. Len(s) - 1 /\ j + 1 # Len(s) + 1
        BY <1>1, <2>1, <3>2
      <4>2. QED
        BY <1>2, <4>1
    <3>3. QED
      BY <3>1, <3>2
  <2> HIDE DEF j
  <2>4. /\ SumOfSizes(s, Before(Occupied(s), j + 1)) =
              SumOfSizes(s, Before(Occupied(s), j)) + (IF j \in Occupied(s) THEN s[j].size ELSE 0)
        /\ SumOfSizes(s, Before(Free(s), j + 1)) =
              SumOfSizes(s, Before(Free(s), j)) + (IF j \in Free(s) THEN s[j].size ELSE 0)
    BY <1>1, <2>1, BeforeNext
  <2>5. /\ SumOfSizes(s, Before(Occupied(s), j)) \in Nat /\ SumOfSizes(s, Before(Free(s), j)) \in Nat
        /\ s[j].size \in Nat
    <3>1. Before(Occupied(s), j) \in SUBSET (1 .. Len(s)) /\ Before(Free(s), j) \in SUBSET (1 .. Len(s))
      BY <1>1 DEF Before
    <3>2. QED
      BY <1>1, <2>1, <3>1, SizesAddUp
  <2>6. total(j + 1) = total(j) + s[j].size
    BY <1>1, <2>1, <2>4, <2>5
  <2>7. QED
    BY <1>5, <2>1, <2>2, <2>3, <2>6
<1>8. QED
  BY <1>6, <1>7

\* What is occupied moves to after what is occupied before it, and not to the right.
LEMMA NotToTheRight ==
    ASSUME NEW s, Layout(s), NEW i \in Occupied(s)
    PROVE  /\ i \in 1 .. Len(s)
           /\ NewPosition(s, i) = SumOfSizes(s, Before(Occupied(s), i))
           /\ NewPosition(s, i) \in Nat
           /\ NewPosition(s, i) <= s[i].position
<1>1. /\ s \in Seq(Partition) /\ DOMAIN s = 1 .. Len(s) /\ Len(s) \in Nat
      /\ Occupied(s) \in SUBSET (1 .. Len(s)) /\ Free(s) \in SUBSET (1 .. Len(s))
      /\ Tiles(s, TAMANO_MEMORIA) /\ Sizes(s)
  BY ListProperties DEF Layout, Occupied, Free
<1>2. {j \in Occupied(s) : s[j].position < s[i].position} = Before(Occupied(s), i)
  <2>1. \A j \in Occupied(s) : s[j].position < s[i].position <=> j < i
    BY <1>1, PositionsGrow
  <2>2. QED
    BY <2>1 DEF Before
<1>3. NewPosition(s, i) = SumOfSizes(s, Before(Occupied(s), i))
  BY <1>2 DEF NewPosition
<1>4. Before(Occupied(s), i) \in SUBSET (1 .. Len(s)) /\ Before(Free(s), i) \in SUBSET (1 .. Len(s))
  BY <1>1 DEF Before
<1>5. SumOfSizes(s, Before(Occupied(s), i)) \in Nat /\ SumOfSizes(s, Before(Free(s), i)) \in Nat
  BY <1>1, <1>4, SizesAddUp
<1>6. i \in 1 .. Len(s) /\ i \in 1 .. Len(s) + 1 /\ i # Len(s) + 1
  BY <1>1
<1>7. SumOfSizes(s, Before(Occupied(s), i)) + SumOfSizes(s, Before(Free(s), i)) = s[i].position
  BY <1>1, <1>6, PrefixSums
<1>8. QED
  BY <1>3, <1>5, <1>6, <1>7

LEMMA MovedProperties ==
    ASSUME NEW s, Layout(s)
    PROVE  /\ Moved(s) \in Seq(Partition) /\ Len(Moved(s)) = Len(s)
           /\ \A i \in 1 .. Len(s) :
                 /\ Moved(s)[i].position =
                       IF s[i].free THEN s[i].position ELSE NewPosition(s, i)
                 /\ Moved(s)[i].size = s[i].size
                 /\ Moved(s)[i].free = s[i].free
                 /\ Moved(s)[i].data_size = s[i].data_size
                 /\ Moved(s)[i].creation_time = s[i].creation_time
<1> DEFINE m == Moved(s)
<1>1. /\ s \in Seq(Partition) /\ DOMAIN s = 1 .. Len(s) /\ Len(s) \in Nat
      /\ \A i \in 1 .. Len(s) : s[i] \in Partition
  BY ListProperties DEF Layout
<1>2. ASSUME NEW i \in 1 .. Len(s)
      PROVE  /\ m[i] \in Partition
             /\ m[i].position = IF s[i].free THEN s[i].position ELSE NewPosition(s, i)
             /\ m[i].size = s[i].size
             /\ m[i].free = s[i].free
             /\ m[i].data_size = s[i].data_size
             /\ m[i].creation_time = s[i].creation_time
  <2>1. s[i] \in Partition /\ i \in DOMAIN s
    BY <1>1
  <2>2. CASE s[i].free
    <3>1. m[i] = s[i]
      BY <2>1, <2>2 DEF Moved, Occupied
    <3>2. QED
      BY <2>1, <2>2, <3>1
  <2>3. CASE ~s[i].free
    <3>1. i \in Occupied(s)
      BY <2>1, <2>3 DEF Occupied
    <3>2. m[i] = [s[i] EXCEPT !.position = NewPosition(s, i)]
      BY <2>1, <3>1 DEF Moved
    <3>3. NewPosition(s, i) \in Nat
      BY <3>1, NotToTheRight
    <3> HIDE DEF m
    <3>4. QED
      BY <2>1, <2>3, <3>2, <3>3 DEF Partition
  <2>4. QED
    BY <2>2, <2>3
<1>3. m \in [1 .. Len(s) -> Partition]
  <2>1. DOMAIN m = 1 .. Len(s) /\ m = [i \in 1 .. Len(s) |-> m[i]]
    BY <1>1 DEF Moved
  <2> HIDE DEF m
  <2>2. QED
    BY <1>2, <2>1
<1> HIDE DEF m
<1>4. m \in Seq(Partition) /\ Len(m) = Len(s)
  BY <1>1, <1>3, ListFromFunction
<1>5. QED
  BY <1>2, <1>4 DEF m

\* r is what remains of the list m: the elements of the indices K, in order.
Enumerates(e, r, m, K) ==
    /\ r \in Seq(Partition)
    /\ e \in Seq(Nat)
    /\ Len(e) = Len(r)
    /\ \A i \in 1 .. Len(r) : e[i] \in K /\ r[i] = m[e[i]]
    /\ \A i, j \in 1 .. Len(r) : i < j => e[i] < e[j]
    /\ \A x \in K : \E i \in 1 .. Len(r) : e[i] = x

\* What is left once the free partitions among the first k are removed.
Kept(s, k) == {x \in DOMAIN s : x > k \/ ~s[x].free}

LEMMA RemoveFree ==
    ASSUME NEW s, Layout(s), NEW k \in 1 .. Len(s), s[k].free,
           NEW r, NEW e, Enumerates(e, r, Moved(s), Kept(s, k - 1))
    PROVE  \E f : Enumerates(f, remove_partition_at(r, s[k].position), Moved(s), Kept(s, k))
<1> DEFINE m == Moved(s)
<1>1. /\ s \in Seq(Partition) /\ DOMAIN s = 1 .. Len(s) /\ Len(s) \in Nat
      /\ Tiles(s, TAMANO_MEMORIA) /\ Sizes(s) /\ k \in Nat
      /\ \A i \in 1 .. Len(s) : s[i].position \in Nat
  BY ListProperties DEF Layout
<1>2. \A i \in 1 .. Len(s) :
         m[i].position = IF s[i].free THEN s[i].position ELSE NewPosition(s, i)
  BY MovedProperties
<1> HIDE DEF m
<1>3. /\ r \in Seq(Partition) /\ e \in Seq(Nat) /\ Len(e) = Len(r) /\ Len(r) \in Nat
      /\ \A i \in 1 .. Len(r) : e[i] \in Kept(s, k - 1) /\ r[i] = m[e[i]]
      /\ \A i, j \in 1 .. Len(r) : i < j => e[i] < e[j]
      /\ \A x \in Kept(s, k - 1) : \E i \in 1 .. Len(r) : e[i] = x
      /\ \A i \in 1 .. Len(r) : e[i] \in Nat
  <2>1. r \in Seq(Partition) /\ e \in Seq(Nat) /\ Len(e) = Len(r)
    BY DEF Enumerates
  <2>2. \A i \in 1 .. Len(e) : e[i] \in Nat
    BY <2>1, ElementOfSeq
  <2>3. Len(r) \in Nat
    BY <2>1, ListProperties
  <2>4. QED
    BY <2>1, <2>2, <2>3 DEF Enumerates, m
<1>4. PICK a \in 1 .. Len(r) : e[a] = k
  <2>1. k \in Kept(s, k - 1)
    BY <1>1 DEF Kept
  <2>2. QED
    BY <1>3, <2>1
<1>5. r[a].position = s[k].position
  BY <1>2, <1>3, <1>4
\* The first one of the list there is the free one.
<1>6. ASSUME NEW j \in 1 .. Len(r), j < a PROVE r[j].position # r[a].position
  <2> DEFINE x == e[j]
  <2>1. x < k /\ x \in Nat /\ x \in Kept(s, k - 1) /\ r[j] = m[x]
    BY <1>3, <1>4, <1>6
  <2> HIDE DEF x
  <2>2. x \in 1 .. Len(s) /\ x \in Occupied(s) /\ ~s[x].free
    BY <1>1, <2>1 DEF Kept, Occupied
  <2>3. m[x].position = NewPosition(s, x)
    BY <1>2, <2>2
  <2>4. NewPosition(s, x) \in Nat /\ NewPosition(s, x) <= s[x].position
    BY <2>2, NotToTheRight
  <2>5. s[x].position < s[k].position
    BY <1>1, <2>1, <2>2, PositionsGrow
  <2>6. s[x].position \in Nat /\ s[k].position \in Nat
    BY <1>1, <2>2
  <2>7. QED
    BY <1>5, <2>1, <2>3, <2>4, <2>5, <2>6
<1> DEFINE q == remove_partition_at(r, s[k].position)
           f == RemoveAt(e, a)
<1>7. /\ q \in Seq(Partition) /\ Len(q) = Len(r) - 1
      /\ \A i \in 1 .. Len(r) - 1 : q[i] = IF i < a THEN r[i] ELSE r[i + 1]
  <2>1. q = remove_partition_at(r, r[a].position)
    BY <1>5
  <2> HIDE DEF q
  <2>2. r \in Seq(Partition) /\ a \in 1 .. Len(r)
    BY <1>3
  <2>3. QED
    BY <1>6, <2>1, <2>2, RemoveBehind
<1>8. /\ f \in Seq(Nat) /\ Len(f) = Len(r) - 1
      /\ \A i \in 1 .. Len(r) - 1 : f[i] = IF i < a THEN e[i] ELSE e[i + 1]
  <2>1. e \in Seq(Nat) /\ a \in 1 .. Len(e) /\ Len(e) = Len(r)
    BY <1>3
  <2>2. QED
    BY <2>1, RemoveAtProperties
<1> HIDE DEF q, f
<1> DEFINE place(i) == IF i < a THEN i ELSE i + 1
<1>18. Len(r) \in Nat /\ a \in Nat /\ 1 <= a /\ a <= Len(r)
  BY <1>3
<1>9. ASSUME NEW i \in 1 .. Len(r) - 1
      PROVE  /\ place(i) \in 1 .. Len(r) /\ place(i) # a
             /\ f[i] = e[place(i)] /\ q[i] = r[place(i)]
  <2>1. place(i) \in 1 .. Len(r) /\ place(i) # a
    BY ONLY <1>18, i \in 1 .. Len(r) - 1
  <2>2. f[i] = e[place(i)] /\ q[i] = r[place(i)]
    <3>1. CASE i < a
      BY <1>7, <1>8, <3>1
    <3>2. CASE ~(i < a)
      BY <1>7, <1>8, <3>2
    <3>3. QED
      BY <3>1, <3>2
  <2>3. QED
    BY <2>1, <2>2
<1>10. \A i, j \in 1 .. Len(r) - 1 : i < j => place(i) < place(j)
  BY ONLY <1>18
<1> HIDE DEF place
<1>11. \A x \in Kept(s, k - 1) : x \in Kept(s, k) <=> x # k
  BY <1>1 DEF Kept
<1>12. Kept(s, k) \subseteq Kept(s, k - 1)
  BY <1>1 DEF Kept
<1>13. ASSUME NEW i \in 1 .. Len(r) - 1
       PROVE  f[i] \in Kept(s, k) /\ q[i] = m[f[i]]
  <2>1. e[place(i)] # k
    <3>1. place(i) \in 1 .. Len(r) /\ place(i) # a
      BY <1>9
    <3>2. place(i) < a \/ a < place(i)
      BY ONLY <1>18, <3>1
    <3>3. e[place(i)] < e[a] \/ e[a] < e[place(i)]
      BY <1>3, <3>1, <3>2
    <3>4. e[place(i)] \in Nat /\ e[a] \in Nat
      BY <1>3, <3>1
    <3>5. QED
      BY ONLY <1>4, <3>3, <3>4
  <2>2. QED
    BY <1>3, <1>9, <1>11, <2>1
<1>14. \A i, j \in 1 .. Len(r) - 1 : i < j => f[i] < f[j]
  BY <1>3, <1>9, <1>10
<1>15. ASSUME NEW x \in Kept(s, k) PROVE \E i \in 1 .. Len(r) - 1 : f[i] = x
  <2>1. PICK j \in 1 .. Len(r) : e[j] = x
    BY <1>3, <1>12
  <2>2. j # a
    BY <1>4, <1>11, <1>12, <2>1
  <2>3. CASE j < a
    <3>1. j \in 1 .. Len(r) - 1
      BY ONLY <1>18, <2>3, j \in 1 .. Len(r)
    <3>2. f[j] = e[j]
      BY <1>8, <2>3, <3>1
    <3>3. QED
      BY <2>1, <3>1, <3>2
  <2>4. CASE j > a
    <3>1. j - 1 \in 1 .. Len(r) - 1 /\ ~(j - 1 < a) /\ (j - 1) + 1 = j
      BY ONLY <1>18, <2>4, j \in 1 .. Len(r)
    <3>2. f[j - 1] = e[j]
      BY <1>8, <3>1
    <3>3. QED
      BY <2>1, <3>1, <3>2
  <2>5. j < a \/ j > a
    BY ONLY <1>18, <2>2, j \in 1 .. Len(r)
  <2>6. QED
    BY <2>3, <2>4, <2>5
<1>16. Enumerates(f, q, m, Kept(s, k))
  BY <1>7, <1>8, <1>13, <1>14, <1>15 DEF Enumerates
<1>17. QED
  BY <1>16 DEF q, m

\* The lists _compact goes through as it removes what is free.
IsRest(g, s, k) ==
    g = [j \in 0 .. k |->
            IF j = 0 THEN Moved(s)
            ELSE IF s[j].free
            THEN remove_partition_at(g[j - 1], s[j].position)
            ELSE g[j - 1]]

\* What defines them determines them, one by one.
LEMMA RestExists ==
    ASSUME NEW s, NEW n \in Nat
    PROVE  \E g : IsRest(g, s, n)
<1> DEFINE T == {k \in 0 .. n : ~ \E g : IsRest(g, s, k)}
<1>1. SUFFICES ASSUME T # {} PROVE FALSE
  OBVIOUS
<1>2. T \in SUBSET (0 .. n)
  OBVIOUS
<1> HIDE DEF T
<1>3. PICK k \in T : \A l \in T : k <= l
  BY <1>1, <1>2, LeastOf
<1>4. k \in 0 .. n /\ ~ \E g : IsRest(g, s, k)
  BY DEF T
<1>5. CASE k = 0
  <2> DEFINE g == [j \in 0 .. 0 |-> Moved(s)]
  <2>1. g = [j \in 0 .. 0 |->
                IF j = 0 THEN Moved(s)
                ELSE IF s[j].free
                THEN remove_partition_at(g[j - 1], s[j].position)
                ELSE g[j - 1]]
    OBVIOUS
  <2>2. QED
    BY <1>4, <1>5, <2>1 DEF IsRest
<1>6. CASE k # 0
  <2>1. k - 1 \in 0 .. n /\ ~(k <= k - 1)
    BY <1>4, <1>6
  <2>2. PICK f : IsRest(f, s, k - 1)
    BY <1>3, <2>1 DEF T
  <2> DEFINE next(h, j) == IF j = 0 THEN Moved(s)
                           ELSE IF s[j].free
                           THEN remove_partition_at(h[j - 1], s[j].position)
                           ELSE h[j - 1]
             g == [j \in 0 .. k |-> IF j = k THEN next(f, k) ELSE f[j]]
  <2>3. f = [j \in 0 .. k - 1 |-> next(f, j)]
    BY <2>2 DEF IsRest
  <2>4. ASSUME NEW j \in 0 .. k PROVE g[j] = next(g, j)
    <3>1. CASE j = 0
      <4>1. j # k /\ 0 \in 0 .. k - 1
        BY <1>4, <1>6, <3>1
      <4>2. g[j] = f[0] /\ f[0] = Moved(s)
        BY <2>3, <3>1, <4>1
      <4>3. QED
        BY <3>1, <4>2
    <3>2. CASE j # 0
      <4>1. j - 1 \in 0 .. k /\ j - 1 # k /\ (j # k => j \in 0 .. k - 1)
        BY <1>4, <3>2
      <4>2. g[j - 1] = f[j - 1]
        BY <4>1
      <4>3. g[j] = next(f, j)
        BY <2>3, <4>1
      <4> HIDE DEF g
      <4>4. QED
        BY <3>2, <4>2, <4>3
    <3>3. QED
      BY <3>1, <3>2
  <2>5. g = [j \in 0 .. k |-> next(g, j)]
    <3>1. g = [j \in 0 .. k |-> g[j]]
      OBVIOUS
    <3> HIDE DEF g, next
    <3>2. QED
      BY <2>4, <3>1
  <2> HIDE DEF g
  <2>6. IsRest(g, s, k)
    BY <2>5 DEF IsRest
  <2>7. QED
    BY <1>4, <2>6
<1>7. QED
  BY <1>5, <1>6

\* What is left in the end is what is occupied, in order.
LEMMA RestProperties ==
    ASSUME NEW s, Layout(s), NEW g, IsRest(g, s, Len(s))
    PROVE  \E e : Enumerates(e, g[Len(s)], Moved(s), Occupied(s))
<1> DEFINE T == {k \in 0 .. Len(s) : ~ \E e : Enumerates(e, g[k], Moved(s), Kept(s, k))}
<1>1. /\ s \in Seq(Partition) /\ DOMAIN s = 1 .. Len(s) /\ Len(s) \in Nat
  BY ListProperties DEF Layout
<1>2. T = {}
  <2>1. SUFFICES ASSUME T # {} PROVE FALSE
    OBVIOUS
  <2>2. T \in SUBSET (0 .. Len(s))
    OBVIOUS
  <2> HIDE DEF T
  <2>3. PICK k \in T : \A l \in T : k <= l
    BY <1>1, <2>1, <2>2, LeastOf
  <2>4. k \in 0 .. Len(s) /\ ~ \E e : Enumerates(e, g[k], Moved(s), Kept(s, k))
    BY DEF T
  <2>5. g[k] = IF k = 0 THEN Moved(s)
               ELSE IF s[k].free
               THEN remove_partition_at(g[k - 1], s[k].position)
               ELSE g[k - 1]
    BY <2>4 DEF IsRest
  <2>6. CASE k = 0
    <3> DEFINE e == [i \in 1 .. Len(s) |-> i]
    <3>1. e \in [1 .. Len(s) -> Nat]
      BY <1>1
    <3>2. e \in Seq(Nat) /\ Len(e) = Len(s) /\ \A i \in 1 .. Len(s) : e[i] = i
      <4>1. \A i \in 1 .. Len(s) : e[i] = i
        OBVIOUS
      <4> HIDE DEF e
      <4>2. QED
        BY <1>1, <3>1, <4>1, ListFromFunction
    <3> HIDE DEF e
    <3>3. Moved(s) \in Seq(Partition) /\ Len(Moved(s)) = Len(s)
      BY MovedProperties
    <3>4. Kept(s, 0) = 1 .. Len(s)
      BY <1>1 DEF Kept
    <3>5. Enumerates(e, Moved(s), Moved(s), Kept(s, 0))
      BY <3>2, <3>3, <3>4 DEF Enumerates
    <3>6. QED
      BY <2>4, <2>5, <2>6, <3>5
  <2>7. CASE k # 0
    <3>1. k \in 1 .. Len(s) /\ k - 1 \in 0 .. Len(s) /\ ~(k <= k - 1)
      BY <1>1, <2>4, <2>7
    <3>2. PICK e : Enumerates(e, g[k - 1], Moved(s), Kept(s, k - 1))
      BY <2>3, <3>1 DEF T
    <3>3. CASE s[k].free
      <4>1. g[k] = remove_partition_at(g[k - 1], s[k].position)
        BY <2>5, <2>7, <3>3
      <4>2. \E f : Enumerates(f, remove_partition_at(g[k - 1], s[k].position),
                              Moved(s), Kept(s, k))
        BY <3>1, <3>2, <3>3, RemoveFree
      <4>3. QED
        BY <2>4, <4>1, <4>2
    <3>4. CASE ~s[k].free
      <4>1. Kept(s, k - 1) = Kept(s, k)
        <5>1. \A x \in DOMAIN s : x > k - 1 <=> x > k \/ x = k
          BY <1>1, <3>1
        <5>2. QED
          BY <3>4, <5>1 DEF Kept
      <4>2. g[k] = g[k - 1]
        BY <2>5, <2>7, <3>4
      <4>3. QED
        BY <2>4, <3>2, <4>1, <4>2
    <3>5. QED
      BY <3>3, <3>4
  <2>8. QED
    BY <2>6, <2>7
<1>3. Len(s) \in 0 .. Len(s)
  BY <1>1
<1>4. Kept(s, Len(s)) = Occupied(s)
  BY <1>1 DEF Kept, Occupied
<1>5. QED
  BY <1>2, <1>3, <1>4

\* The occupied partitions, in order, divide the bytes they have among themselves.
LEMMA Gathering ==
    ASSUME NEW s, Layout(s), NEW r, NEW e, Enumerates(e, r, Moved(s), Occupied(s)),
           Occupied(s) # {}
    PROVE  /\ r \in Seq(Partition) /\ Len(r) \in Nat \ {0}
           /\ \A i \in 1 .. Len(r) :
                 /\ e[i] \in Occupied(s)
                 /\ r[i].position = NewPosition(s, e[i])
                 /\ r[i].size = s[e[i]].size
                 /\ ~r[i].free
                 /\ r[i].data_size = s[e[i]].data_size
                 /\ r[i].creation_time = s[e[i]].creation_time
           /\ \A x \in Occupied(s) : \E i \in 1 .. Len(r) : x = e[i]
           /\ \A i, j \in 1 .. Len(r) : e[i] = e[j] => i = j
           /\ Sizes(r)
           /\ Tiles(r, SumOfSizes(s, Occupied(s)))
           /\ LastOccupied(s) = e[Len(r)]
<1> DEFINE O == Occupied(s)
           n == Len(r)
<1>1. /\ s \in Seq(Partition) /\ DOMAIN s = 1 .. Len(s) /\ Len(s) \in Nat
      /\ \A i \in 1 .. Len(s) : s[i].position \in Nat /\ s[i].size \in Nat
      /\ Tiles(s, TAMANO_MEMORIA) /\ Sizes(s)
      /\ O \in SUBSET (1 .. Len(s))
  BY ListProperties DEF Layout, Occupied
<1>2. /\ r \in Seq(Partition) /\ DOMAIN r = 1 .. n /\ n \in Nat
      /\ \A i \in 1 .. n : e[i] \in O /\ r[i] = Moved(s)[e[i]] /\ e[i] \in Nat
      /\ \A i, j \in 1 .. n : i < j => e[i] < e[j]
      /\ \A x \in O : \E i \in 1 .. n : e[i] = x
  <2>1. r \in Seq(Partition)
    BY DEF Enumerates
  <2>2. n \in Nat /\ DOMAIN r = 1 .. n
    BY <2>1, ListProperties
  <2>3. \A i \in 1 .. n : e[i] \in O
    BY DEF Enumerates
  <2>4. \A i \in 1 .. n : e[i] \in Nat
    BY <1>1, <2>3
  <2>5. QED
    BY <2>1, <2>2, <2>3, <2>4 DEF Enumerates
<1>3. n # 0 /\ n \in 1 .. n /\ 1 \in 1 .. n
  BY <1>2
<1>4. ASSUME NEW i \in 1 .. n
      PROVE  /\ e[i] \in 1 .. Len(s) /\ ~s[e[i]].free
             /\ r[i].position = NewPosition(s, e[i])
             /\ r[i].position = SumOfSizes(s, Before(O, e[i]))
             /\ r[i].size = s[e[i]].size
             /\ ~r[i].free
             /\ r[i].data_size = s[e[i]].data_size
             /\ r[i].creation_time = s[e[i]].creation_time
  <2>1. e[i] \in 1 .. Len(s) /\ ~s[e[i]].free /\ e[i] \in O
    BY <1>1, <1>2 DEF Occupied
  <2>2. r[i] = Moved(s)[e[i]]
    BY <1>2
  <2>3. NewPosition(s, e[i]) = SumOfSizes(s, Before(O, e[i]))
    BY <2>1, NotToTheRight
  <2>4. QED
    BY <2>1, <2>2, <2>3, MovedProperties
<1>5. ASSUME NEW i \in 1 .. n PROVE r[i].size # 0
  <2>1. e[i] \in DOMAIN s /\ ~s[e[i]].free /\ r[i].size = s[e[i]].size
    BY <1>1, <1>4
  <2>2. QED
    BY <1>1, <2>1 DEF Sizes
<1>6. Sizes(r)
  BY <1>2, <1>5 DEF Sizes
\* Nothing occupied is between two that follow each other.
<1>7. ASSUME NEW i \in 1 .. n, NEW x \in O
      PROVE  x < e[i] + 1 <=> \E j \in 1 .. n : j <= i /\ x = e[j]
  <2>1. PICK j \in 1 .. n : x = e[j]
    BY <1>2
  <2>2. i \in Int /\ j \in Int /\ e[i] \in Nat /\ e[j] \in Nat
    BY <1>2
  <2>3. CASE j <= i
    <3>1. e[j] < e[i] \/ j = i
      BY <1>2, <2>2, <2>3
    <3>2. x < e[i] + 1
      BY <2>1, <2>2, <3>1
    <3>3. QED
      BY <2>1, <2>3, <3>2
  <2>4. CASE ~(j <= i)
    <3>1. e[i] < e[j]
      BY <1>2, <2>2, <2>4
    <3>2. ~(x < e[i] + 1)
      BY <2>1, <2>2, <3>1
    <3>3. ASSUME NEW k \in 1 .. n, k <= i, x = e[k] PROVE FALSE
      <4>1. k < j
        BY <2>2, <2>4, <3>3
      <4>2. e[k] < e[j]
        BY <1>2, <4>1
      <4>3. QED
        BY <2>1, <2>2, <3>3, <4>2
    <3>4. QED
      BY <3>2, <3>3
  <2>5. QED
    BY <2>3, <2>4
<1>8. ASSUME NEW i \in 1 .. n
      PROVE  SumOfSizes(s, Before(O, e[i] + 1)) = r[i].position + r[i].size
  <2>1. SumOfSizes(s, Before(O, e[i] + 1)) =
            SumOfSizes(s, Before(O, e[i])) + (IF e[i] \in O THEN s[e[i]].size ELSE 0)
    <3>1. e[i] \in 1 .. Len(s) /\ O \in SUBSET (1 .. Len(s)) /\ s \in Seq(Partition)
      BY <1>1, <1>4
    <3> HIDE DEF O
    <3>2. QED
      BY <3>1, BeforeNext
  <2>2. QED
    BY <1>2, <1>4, <2>1
<1>9. r[1].position = 0
  <2>1. Before(O, e[1]) = {}
    <3>1. ASSUME NEW x \in O, x < e[1] PROVE FALSE
      <4>1. PICK j \in 1 .. n : x = e[j]
        BY <1>2
      <4>2. j = 1 \/ 1 < j
        BY <1>2
      <4>3. e[1] \in Nat /\ e[j] \in Nat /\ (j = 1 \/ e[1] < e[j])
        BY <1>2, <1>3, <4>2
      <4>4. QED
        BY <3>1, <4>1, <4>3
    <3>2. QED
      BY <3>1 DEF Before
  <2>2. SumOfSizes(s, {}) = 0
    BY <1>1, SizesAddUp
  <2>3. QED
    BY <1>3, <1>4, <2>1, <2>2
<1>10. ASSUME NEW i \in 1 .. n - 1
       PROVE  r[i + 1].position = r[i].position + r[i].size
  <2>1. i \in 1 .. n /\ i + 1 \in 1 .. n
    BY <1>2
  <2>2. Before(O, e[i + 1]) = Before(O, e[i] + 1)
    <3>1. ASSUME NEW x \in O
          PROVE  x < e[i + 1] <=> x < e[i] + 1
      <4>1. x < e[i] + 1 <=> \E j \in 1 .. n : j <= i /\ x = e[j]
        BY <1>7, <2>1
      <4>2. PICK k \in 1 .. n : x = e[k]
        BY <1>2
      <4>3. x < e[i + 1] <=> k <= i
        <5>1. k < i + 1 => e[k] < e[i + 1]
          BY <1>2, <2>1
        <5>2. k > i + 1 => e[i + 1] < e[k]
          BY <1>2, <2>1
        <5>3. e[k] \in Nat /\ e[i + 1] \in Nat
          BY <1>2, <2>1
        <5>4. k < i + 1 \/ k = i + 1 \/ k > i + 1
          BY <2>1
        <5>5. k < i + 1 <=> k <= i
          BY <2>1
        <5>6. x < e[i + 1] <=> k < i + 1
          <6>1. CASE k < i + 1
            BY <4>2, <5>1, <6>1
          <6>2. CASE k = i + 1
            BY <4>2, <5>3, <6>2
          <6>3. CASE k > i + 1
            <7>1. ~(k < i + 1)
              BY <2>1, <6>3
            <7>2. ~(e[k] < e[i + 1])
              BY <5>2, <5>3, <6>3
            <7>3. QED
              BY <4>2, <7>1, <7>2
          <6>4. QED
            BY <5>4, <6>1, <6>2, <6>3
        <5>7. QED
          BY <5>5, <5>6
      <4>4. (\E j \in 1 .. n : j <= i /\ x = e[j]) <=> k <= i
        <5>1. \A j \in 1 .. n : x = e[j] => j = k
          <6>1. \A j \in 1 .. n : j < k \/ j = k \/ k < j
            OBVIOUS
          <6>2. \A j \in 1 .. n : e[j] \in Nat /\ (j < k => e[j] < e[k]) /\ (k < j => e[k] < e[j])
            BY <1>2
          <6>3. QED
            BY <4>2, <6>1, <6>2
        <5>2. QED
          BY <4>2, <5>1
      <4>5. QED
        BY <4>1, <4>3, <4>4
    <3>2. QED
      BY <3>1 DEF Before
  <2>3. r[i + 1].position = SumOfSizes(s, Before(O, e[i + 1]))
    BY <1>4, <2>1
  <2>4. QED
    BY <1>8, <2>1, <2>2, <2>3
<1>11. Before(O, e[n] + 1) = O
  <2>1. \A x \in O : x < e[n] + 1
    <3>1. \A x \in O : \E j \in 1 .. n : j <= n /\ x = e[j]
      BY <1>2
    <3>2. QED
      BY <1>3, <1>7, <3>1
  <2>2. QED
    BY <2>1 DEF Before
<1>12. Tiles(r, SumOfSizes(s, O))
  <2>1. r[n].position + r[n].size = SumOfSizes(s, O)
    BY <1>3, <1>8, <1>11
  <2>2. n > 0
    BY <1>2, <1>3
  <2>3. QED
    BY <1>9, <1>10, <2>1, <2>2 DEF Tiles
<1>13. \A i, j \in 1 .. n : e[i] = e[j] => i = j
  <2>1. \A i, j \in 1 .. n : i < j \/ i = j \/ j < i
    OBVIOUS
  <2>2. QED
    BY <1>2, <2>1
<1>14. LastOccupied(s) = e[n]
  <2>1. \A x \in O : s[x].position <= s[e[n]].position
    <3>1. SUFFICES ASSUME NEW x \in O PROVE s[x].position <= s[e[n]].position
      OBVIOUS
    <3>2. ~(e[n] < x)
      <4>1. x < e[n] + 1
        BY <1>11 DEF Before
      <4>2. QED
        BY <1>1, <1>2, <1>3, <4>1
    <3>3. ~(s[e[n]].position < s[x].position)
      BY <1>1, <1>3, <1>4, <3>2, PositionsGrow
    <3>4. s[e[n]].position \in Nat /\ s[x].position \in Nat
      BY <1>1, <1>3, <1>4
    <3>5. QED
      BY <3>3, <3>4
  <2>2. ASSUME NEW w \in O, \A x \in O : s[x].position <= s[w].position
        PROVE  w = e[n]
    <3>1. s[e[n]].position <= s[w].position /\ e[n] \in 1 .. Len(s) /\ w \in 1 .. Len(s)
      BY <1>1, <1>2, <1>3, <2>2
    <3>2. ~(w < e[n])
      <4>1. s[w].position < s[e[n]].position <=> w < e[n]
        BY <1>1, <3>1, PositionsGrow
      <4>2. s[w].position \in Nat /\ s[e[n]].position \in Nat
        BY <1>1, <3>1
      <4>3. QED
        BY <3>1, <4>1, <4>2
    <3>3. w < e[n] + 1
      BY <1>11 DEF Before
    <3>4. QED
      BY <3>1, <3>2, <3>3
  <2>3. e[n] \in O
    BY <1>2, <1>3
  <2>4. QED
    BY <2>1, <2>2, <2>3 DEF LastOccupied
<1>15. QED
  BY <1>2, <1>3, <1>4, <1>6, <1>12, <1>13, <1>14

\* r has the messages of s in order, e says whose, and then what is free.
Gathers(r, s, e, n) ==
    /\ n \in Nat \ {0} /\ Len(r) = n + 1
    /\ Layout(r)
    /\ Free(r) = {n + 1} /\ Occupied(r) = 1 .. n
    /\ \A i \in 1 .. n :
          /\ e[i] \in Occupied(s)
          /\ r[i].position = NewPosition(s, e[i])
          /\ r[i].data_size = s[e[i]].data_size
          /\ r[i].creation_time = s[e[i]].creation_time
    /\ \A x \in Occupied(s) : \E i \in 1 .. n : x = e[i]
    /\ \A i, j \in 1 .. n : e[i] = e[j] => i = j

\* The occupied partitions in order, from the first byte, and all that is free.
LEMMA CompactProperties ==
    ASSUME NEW s, Layout(s), Occupied(s) # {}
    PROVE  \E e, n : Gathers(_compact(s), s, e, n)
<1> DEFINE g == CHOOSE g : IsRest(g, s, Len(s))
           q == g[Len(s)]
           n == Len(q)
           total == SumOfSizes(s, Free(s))
           last == Moved(s)[LastOccupied(s)]
           p == create_partition(last.position + last.size, total)
           r == _compact(s)
<1>1. r = add_partition_next_to(q, last.position, p)
  BY DEF _compact, IsRest
<1>2. /\ s \in Seq(Partition) /\ DOMAIN s = 1 .. Len(s) /\ Len(s) \in Nat
      /\ Tiles(s, TAMANO_MEMORIA) /\ Fit(s)
      /\ Occupied(s) \in SUBSET (1 .. Len(s)) /\ Free(s) \in SUBSET (1 .. Len(s))
  BY ListProperties DEF Layout, Occupied, Free
<1>3. IsRest(g, s, Len(s))
  BY <1>2, RestExists
<1> HIDE DEF g
<1>4. PICK e : Enumerates(e, q, Moved(s), Occupied(s))
  BY <1>3, RestProperties
<1> HIDE DEF q
<1>5. /\ q \in Seq(Partition) /\ n \in Nat \ {0}
      /\ \A i \in 1 .. n :
            /\ e[i] \in Occupied(s)
            /\ q[i].position = NewPosition(s, e[i])
            /\ q[i].size = s[e[i]].size
            /\ ~q[i].free
            /\ q[i].data_size = s[e[i]].data_size
            /\ q[i].creation_time = s[e[i]].creation_time
      /\ \A x \in Occupied(s) : \E i \in 1 .. n : x = e[i]
      /\ \A i, j \in 1 .. n : e[i] = e[j] => i = j
      /\ Sizes(q)
      /\ Tiles(q, SumOfSizes(s, Occupied(s)))
      /\ LastOccupied(s) = e[n]
  BY <1>4, Gathering
<1>6. n \in 1 .. n /\ DOMAIN q = 1 .. n
  BY <1>5, ListProperties
<1>7. last = q[n]
  <2>1. q[n] = Moved(s)[e[n]]
    BY <1>4, <1>6 DEF Enumerates
  <2>2. QED
    BY <1>5, <2>1
<1> HIDE DEF last
<1>8. /\ SumOfSizes(s, Occupied(s)) + total = TAMANO_MEMORIA
      /\ SumOfSizes(s, Occupied(s)) \in Nat /\ total \in Nat
  <2>1. Before(Occupied(s), Len(s) + 1) = Occupied(s) /\ Before(Free(s), Len(s) + 1) = Free(s)
    <3>1. \A x \in 1 .. Len(s) : x < Len(s) + 1
      BY <1>2
    <3>2. QED
      BY <1>2, <3>1 DEF Before
  <2>2. Len(s) + 1 \in 1 .. Len(s) + 1
    BY <1>2
  <2>3. SumOfSizes(s, Before(Occupied(s), Len(s) + 1)) + SumOfSizes(s, Before(Free(s), Len(s) + 1))
           = TAMANO_MEMORIA
    BY <1>2, <2>2, PrefixSums
  <2>4. QED
    BY <1>2, <2>1, <2>3, SizesAddUp
<1>9. q[n].position + q[n].size = SumOfSizes(s, Occupied(s))
  BY <1>5 DEF Tiles
<1> HIDE DEF total
<1>10. /\ p \in Partition /\ p.free
       /\ p.position = q[n].position + q[n].size /\ p.size = total
  <2>1. q[n].position + q[n].size \in Nat /\ total <= TAMANO_MEMORIA
    <3>1. TAMANO_MEMORIA \in Nat
      BY DynamicAssumption
    <3>2. QED
      BY <1>8, <1>9, <3>1
  <2>2. QED
    BY <1>7, <1>8, <2>1, CreateProperties
<1> HIDE DEF p
<1>11. r = InsertAt(q, n + 1, p)
  <2>1. \A j \in 1 .. n : q[j].position = q[n].position => n <= j
    <3>1. SUFFICES ASSUME NEW j \in 1 .. n, j < n PROVE q[j].position # q[n].position
      BY <1>5
    <3>2. q[j].position < q[n].position
      BY <1>5, <1>6, <3>1, PositionsGrow
    <3>3. q[j].position \in Nat /\ q[n].position \in Nat
      BY <1>5, <1>6, ListProperties
    <3>4. QED
      BY <3>2, <3>3
  <2>2. add_partition_next_to(q, q[n].position, p) = InsertAt(q, n + 1, p)
    BY <1>5, <1>6, <2>1, AddPartition
  <2>3. QED
    BY <1>1, <1>7, <2>2
<1> HIDE DEF r
<1>12. /\ r \in Seq(Partition) /\ Len(r) = n + 1 /\ r[n + 1] = p
       /\ \A k \in 1 .. n : r[k] = q[k]
  <2>1. n + 1 \in 1 .. n + 1 /\ q \in Seq(Partition)
    BY <1>5
  <2>2. /\ r \in Seq(Partition) /\ Len(r) = n + 1 /\ r[n + 1] = p
        /\ \A k \in 1 .. n : k < n + 1 => r[k] = q[k]
    BY <1>10, <1>11, <2>1, InsertAtProperties, SMTT(20)
  <2>3. \A k \in 1 .. n : k < n + 1
    BY <1>5
  <2>4. QED
    BY <2>2, <2>3
<1>13. DOMAIN r = 1 .. n + 1 /\ \A k \in 1 .. n + 1 : k \in 1 .. n \/ k = n + 1
  BY <1>5, <1>12, ListProperties
<1>20. 1 .. n \subseteq 1 .. n + 1 /\ n + 1 \in 1 .. n + 1 /\ n + 1 \notin 1 .. n
  BY <1>5
<1>14. Tiles(r, TAMANO_MEMORIA)
  <2>1. r[1].position = 0
    BY <1>5, <1>6, <1>12 DEF Tiles
  <2>2. ASSUME NEW k \in 1 .. (n + 1) - 1
        PROVE  r[k + 1].position = r[k].position + r[k].size
    <3>1. CASE k = n
      BY <1>10, <1>12, <1>6, <3>1
    <3>2. CASE k # n
      <4>1. k \in 1 .. n - 1 /\ k \in 1 .. n /\ k + 1 \in 1 .. n
        BY <1>5, <3>2
      <4>2. q[k + 1].position = q[k].position + q[k].size
        BY <1>5, <4>1 DEF Tiles
      <4>3. QED
        BY <1>12, <4>1, <4>2
    <3>3. QED
      BY <3>1, <3>2
  <2>3. r[n + 1].position + r[n + 1].size = TAMANO_MEMORIA
    BY <1>8, <1>9, <1>10, <1>12
  <2>4. n + 1 > 0
    BY <1>5
  <2>5. QED
    BY <1>12, <2>1, <2>2, <2>3, <2>4 DEF Tiles
<1>15. Sizes(r)
  <2>1. ASSUME NEW k \in 1 .. n PROVE r[k].size # 0
    <3>1. ~q[k].free /\ k \in DOMAIN q /\ r[k] = q[k]
      BY <1>5, <1>6, <1>12
    <3>2. QED
      BY <1>5, <3>1 DEF Sizes
  <2>2. QED
    BY <1>10, <1>12, <1>13, <2>1 DEF Sizes
<1>16. Free(r) = {n + 1} /\ Occupied(r) = 1 .. n
  <2>1. \A k \in 1 .. n : ~r[k].free
    BY <1>5, <1>12
  <2>2. r[n + 1].free
    BY <1>10, <1>12
  <2>3. QED
    BY <1>13, <1>20, <2>1, <2>2 DEF Free, Occupied
<1>17. Fit(r)
  <2>1. ASSUME NEW k \in 1 .. n PROVE r[k].data_size <= r[k].size
    BY <1>2, <1>5, <1>12 DEF Fit
  <2>2. QED
    BY <1>16, <2>1 DEF Fit
<1>18. \A i \in 1 .. n :
          /\ e[i] \in Occupied(s)
          /\ r[i].position = NewPosition(s, e[i])
          /\ r[i].data_size = s[e[i]].data_size
          /\ r[i].creation_time = s[e[i]].creation_time
  BY <1>5, <1>12
<1>21. Layout(r)
  BY <1>12, <1>14, <1>15, <1>17 DEF Layout
<1> HIDE DEF n
<1>22. Gathers(r, s, e, n)
  BY <1>5, <1>12, <1>16, <1>18, <1>21 DEF Gathers
<1>19. QED
  BY <1>22 DEF r

\* Every byte of a message is copied to its new place, and only there.
LEMMA CompactedContent ==
    ASSUME NEW s, Layout(s), Occupied(s) # {}, Content(s, cache), cache \in [Bytes -> Nat]
    PROVE  /\ Content(_compact(s), CompactedCache(s))
           /\ CompactedCache(s) \in [Bytes -> Nat]
           /\ Cardinality(Occupied(_compact(s))) = Cardinality(Occupied(s))
<1> DEFINE r == _compact(s)
           target == [i \in Occupied(s) |-> NewPosition(s, i)]
           source(b) == {s[i].position + b - target[i] :
                            i \in {i \in DOMAIN target :
                                      b \in target[i] .. target[i] + s[i].data_size - 1}}
           c == CompactedCache(s)
<1>13. PICK e, n : Gathers(r, s, e, n)
  BY CompactProperties
<1>2. c = [b \in Bytes |-> IF source(b) = {} THEN cache[b]
                           ELSE cache[CHOOSE origin \in source(b) : TRUE]]
  BY DEF CompactedCache
<1>3. \A x \in Occupied(s) : target[x] = NewPosition(s, x)
  OBVIOUS
<1>4. DOMAIN target = Occupied(s)
  OBVIOUS
<1> HIDE DEF r, c, target
<1>1. /\ n \in Nat \ {0} /\ Len(r) = n + 1
      /\ Layout(r)
      /\ Free(r) = {n + 1} /\ Occupied(r) = 1 .. n
      /\ \A i \in 1 .. n :
            /\ e[i] \in Occupied(s)
            /\ r[i].position = NewPosition(s, e[i])
            /\ r[i].data_size = s[e[i]].data_size
            /\ r[i].creation_time = s[e[i]].creation_time
      /\ \A x \in Occupied(s) : \E i \in 1 .. n : x = e[i]
      /\ \A i, j \in 1 .. n : e[i] = e[j] => i = j
  BY <1>13 DEF Gathers
<1>5. /\ s \in Seq(Partition) /\ Tiles(s, TAMANO_MEMORIA) /\ Fit(s)
      /\ DOMAIN s = 1 .. Len(s) /\ Occupied(s) \subseteq DOMAIN s
      /\ \A x \in Occupied(s) : /\ s[x].position \in Nat /\ s[x].size \in Nat
                                /\ s[x].data_size \in Nat /\ s[x].data_size <= s[x].size
                                /\ s[x].position + s[x].size <= TAMANO_MEMORIA
  <2>1. s \in Seq(Partition) /\ Tiles(s, TAMANO_MEMORIA) /\ Fit(s)
    BY DEF Layout
  <2>2. DOMAIN s = 1 .. Len(s) /\ \A j \in 1 .. Len(s) : s[j] \in Partition
    BY <2>1, ListProperties
  <2>3. Occupied(s) \subseteq DOMAIN s
    BY DEF Occupied
  <2>4. ASSUME NEW x \in Occupied(s)
        PROVE  /\ s[x].position \in Nat /\ s[x].size \in Nat
               /\ s[x].data_size \in Nat /\ s[x].data_size <= s[x].size
               /\ s[x].position + s[x].size <= TAMANO_MEMORIA
    <3>1. s[x] \in Partition /\ x \in DOMAIN s
      BY <2>2, <2>3
    <3>2. s[x].position + s[x].size <= TAMANO_MEMORIA
      BY <2>1, <3>1, EndsInside
    <3>3. s[x].data_size <= s[x].size
      BY <2>1 DEF Fit
    <3>4. QED
      BY <3>1, <3>2, <3>3 DEF Partition
  <2>5. QED
    BY <2>1, <2>2, <2>3, <2>4
<1>6. /\ r \in Seq(Partition) /\ Tiles(r, TAMANO_MEMORIA) /\ Fit(r) /\ DOMAIN r = 1 .. n + 1
      /\ \A i \in 1 .. n + 1 : r[i].position \in Nat /\ r[i].size \in Nat
      /\ 1 .. n \subseteq 1 .. n + 1
  <2>1. r \in Seq(Partition) /\ Tiles(r, TAMANO_MEMORIA) /\ Fit(r)
    BY <1>1 DEF Layout
  <2>2. 1 .. n \subseteq 1 .. n + 1
    BY <1>1
  <2>3. QED
    BY <1>1, <2>1, <2>2, ListProperties
<1>7. TAMANO_MEMORIA \in Nat
  BY DynamicAssumption
\* Where the bytes of a message come from.
<1>8. ASSUME NEW x \in Occupied(s), NEW b \in Int,
             b \in target[x] .. target[x] + s[x].data_size - 1
      PROVE  /\ source(b) = {s[x].position + b - target[x]}
             /\ s[x].position + b - target[x] \in
                   s[x].position .. s[x].position + s[x].data_size - 1
             /\ s[x].position + b - target[x] \in Bytes
  <2>1. PICK i \in 1 .. n : x = e[i]
    BY <1>1
  <2>2. target[x] = r[i].position /\ s[x].data_size = r[i].data_size
    BY <1>1, <1>3, <2>1
  <2>3. ASSUME NEW y \in Occupied(s), b \in target[y] .. target[y] + s[y].data_size - 1
        PROVE  y = x
    <3>1. PICK j \in 1 .. n : y = e[j]
      BY <1>1
    <3>2. target[y] = r[j].position /\ s[y].data_size = r[j].data_size
      BY <1>1, <1>3, <3>1
    <3>3. ASSUME NEW k \in 1 .. n, NEW l \in 1 .. n, k < l,
                 b \in r[k].position .. r[k].position + r[k].data_size - 1,
                 b \in r[l].position .. r[l].position + r[l].data_size - 1
          PROVE  FALSE
      <4>1. k \in DOMAIN r /\ l \in DOMAIN r
        BY <1>6
      <4>2. r[k].position + r[k].size <= r[l].position
        BY <1>6, <3>3, <4>1, TilesAreOrdered
      <4>3. r[k].data_size <= r[k].size
        BY <1>1, <1>6 DEF Fit
      <4>4. r[k] \in Partition /\ r[l] \in Partition
        BY <1>6, <4>1, ElementOfSeq, ListProperties
      <4>5. r[k].position \in Nat /\ r[l].position \in Nat /\ r[k].size \in Nat
            /\ r[k].data_size \in Nat /\ r[l].data_size \in Nat
        BY <4>4 DEF Partition
      <4>6. b < r[k].position + r[k].data_size /\ r[l].position <= b
        BY <3>3, <4>5
      <4>7. QED
        BY <4>2, <4>3, <4>5, <4>6
    <3>4. i < j \/ i = j \/ j < i
      OBVIOUS
    <3>5. b \in r[i].position .. r[i].position + r[i].data_size - 1
      BY <1>8, <2>2
    <3>6. b \in r[j].position .. r[j].position + r[j].data_size - 1
      BY <2>3, <3>2
    <3>7. i = j
      BY <3>3, <3>4, <3>5, <3>6
    <3>8. QED
      BY <2>1, <3>1, <3>7
  <2>4. {y \in DOMAIN target : b \in target[y] .. target[y] + s[y].data_size - 1} = {x}
    BY <1>4, <1>8, <2>3
  <2>5. source(b) = {s[x].position + b - target[x]}
    BY <2>4
  <2>6. target[x] \in Nat
    <3>1. i \in 1 .. n + 1
      BY <1>6
    <3>2. QED
      BY <1>6, <2>2, <3>1
  <2> DEFINE o == s[x].position + b - target[x]
  <2>7. /\ s[x].position \in Nat /\ s[x].data_size \in Nat
        /\ s[x].size \in Nat /\ s[x].data_size <= s[x].size
        /\ s[x].position + s[x].size <= TAMANO_MEMORIA
    BY <1>5
  <2>8. o \in s[x].position .. s[x].position + s[x].data_size - 1
    BY <1>8, <2>6, <2>7
  <2>9. o \in 0 .. TAMANO_MEMORIA - 1
    BY <1>7, <2>7, <2>8
  <2>10. QED
    BY <2>5, <2>8, <2>9 DEF Bytes
<1>9. c \in [Bytes -> Nat]
  <2>1. SUFFICES ASSUME NEW b \in Bytes PROVE c[b] \in Nat
    BY <1>2
  <2>2. CASE source(b) = {}
    BY <1>2, <2>2
  <2>3. CASE source(b) # {}
    <3>1. PICK x \in Occupied(s) : b \in target[x] .. target[x] + s[x].data_size - 1
      BY <1>4, <2>3
    <3>2. b \in Int
      BY DEF Bytes
    <3>3. source(b) = {s[x].position + b - target[x]} /\ s[x].position + b - target[x] \in Bytes
      BY <1>8, <3>1, <3>2
    <3> HIDE DEF source
    <3>4. (CHOOSE origin \in source(b) : TRUE) \in Bytes
      BY <3>3
    <3>5. QED
      BY <1>2, <2>3, <3>4
  <2>4. QED
    BY <2>2, <2>3
<1>10. Content(r, c)
  <2>1. SUFFICES ASSUME NEW i \in Occupied(r),
                        NEW b \in r[i].position .. r[i].position + r[i].data_size - 1
                 PROVE  c[b] = r[i].creation_time
    BY DEF Content
  <2> DEFINE x == e[i]
  <2>2. /\ i \in 1 .. n /\ i \in 1 .. n + 1 /\ x \in Occupied(s)
        /\ target[x] = r[i].position /\ r[i].data_size = s[x].data_size
        /\ r[i].creation_time = s[x].creation_time
    BY <1>1, <1>3, <1>6
  <2>3. b \in Int /\ b \in target[x] .. target[x] + s[x].data_size - 1
    BY <2>2
  <2> DEFINE o == s[x].position + b - target[x]
  <2>4. /\ source(b) = {o}
        /\ o \in s[x].position .. s[x].position + s[x].data_size - 1
    BY <1>8, <2>2, <2>3
  <2>5. b \in Bytes
    <3>1. r[i].position + r[i].size <= TAMANO_MEMORIA
      BY <1>6, <2>2, EndsInside
    <3>2. r[i].data_size <= r[i].size
      BY <1>6 DEF Fit
    <3>3. s[x].data_size \in Nat /\ r[i].position \in Nat /\ r[i].size \in Nat
      BY <1>5, <1>6, <2>2
    <3>4. QED
      BY <1>7, <2>2, <3>1, <3>2, <3>3, SMTT(20) DEF Bytes
  <2>6. cache[o] = s[x].creation_time
    BY <2>2, <2>4 DEF Content
  <2> HIDE DEF o, source
  <2>7. (CHOOSE origin \in source(b) : TRUE) = o
    BY <2>4
  <2>8. c[b] = cache[o]
    BY <1>2, <2>4, <2>5, <2>7
  <2>9. QED
    BY <2>2, <2>6, <2>8
<1>11. Cardinality(1 .. n) = Cardinality(Occupied(s))
  <2> DEFINE f == [i \in 1 .. n |-> e[i]]
  <2>1. f \in Bijection(1 .. n, Occupied(s))
    <3>1. f \in [1 .. n -> Occupied(s)] /\ \A i \in 1 .. n : f[i] = e[i]
      BY <1>1
    <3> HIDE DEF f
    <3>2. \A i, j \in 1 .. n : f[i] = f[j] => i = j
      BY <1>1, <3>1
    <3>3. \A x \in Occupied(s) : \E i \in 1 .. n : f[i] = x
      <4>1. SUFFICES ASSUME NEW x \in Occupied(s) PROVE \E i \in 1 .. n : f[i] = x
        OBVIOUS
      <4>2. PICK i \in 1 .. n : x = e[i]
        BY <1>1
      <4>3. QED
        BY <3>1, <4>2
    <3>4. QED
      BY <3>1, <3>2, <3>3 DEF Bijection, Injection, Surjection, IsInjective
  <2>2. IsFiniteSet(1 .. n)
    BY <1>1, FS_Interval
  <2>3. ExistsBijection(1 .. n, Occupied(s))
    BY <2>1 DEF ExistsBijection
  <2>4. QED
    BY <2>2, <2>3, FS_Bijection
<1>12. QED
  BY <1>1, <1>9, <1>10, <1>11 DEF r, c

-----------------------------------------------------------------------------
(* The actions                                                             *)

\* What every state of the invariant says of the list and the cache.
LEMMA PartitionsProperties ==
    ASSUME DynamicInv
    PROVE  /\ partitions \in Seq(Partition) /\ Layout(partitions)
           /\ DOMAIN partitions = 1 .. Len(partitions) /\ Len(partitions) \in Nat
           /\ \A i \in 1 .. Len(partitions) : partitions[i] \in Partition
           /\ \A i \in Free(partitions) : i + 1 \notin Free(partitions)
           /\ Content(partitions, cache)
           /\ cache \in [Bytes -> Nat]
           /\ IsFiniteSet(Occupied(partitions))
<1>1. Layout(partitions) /\ Content(partitions, cache) /\ cache \in [Bytes -> Nat]
  BY DEF DynamicInv, TypeOK
<1>2. \A i \in Free(partitions) : i + 1 \notin Free(partitions)
  BY DEF DynamicInv, NoFreeNeighbours
<1>3. /\ partitions \in Seq(Partition)
      /\ DOMAIN partitions = 1 .. Len(partitions) /\ Len(partitions) \in Nat
      /\ \A i \in 1 .. Len(partitions) : partitions[i] \in Partition
  BY <1>1, ListProperties DEF Layout
<1>4. IsFiniteSet(Occupied(partitions))
  <2>1. IsFiniteSet(1 .. Len(partitions))
    BY <1>3, FS_Interval
  <2>2. Occupied(partitions) \subseteq 1 .. Len(partitions)
    BY <1>3 DEF Occupied
  <2>3. QED
    BY <2>1, <2>2, FS_Subset
<1>5. QED
  BY <1>1, <1>2, <1>3, <1>4

LEMMA InitDynamicInv == Init => DynamicInv
<1> SUFFICES ASSUME Init PROVE DynamicInv
  OBVIOUS
<1> DEFINE p == create_partition(0, TAMANO_MEMORIA)
<1>1. /\ p \in Partition /\ p.position = 0 /\ p.size = TAMANO_MEMORIA /\ p.free
      /\ TAMANO_MEMORIA \in Nat \ {0}
  BY DynamicAssumption, CreateProperties
<1>2. partitions = <<p>>
  BY DEF Init
<1> HIDE DEF p
<1>3. /\ partitions \in Seq(Partition) /\ Len(partitions) = 1 /\ DOMAIN partitions = {1}
      /\ partitions[1] = p
  BY <1>1, <1>2
<1>4. Free(partitions) = {1} /\ Occupied(partitions) = {}
  BY <1>1, <1>3 DEF Free, Occupied
<1>5. Layout(partitions)
  BY <1>1, <1>3, <1>4 DEF Layout, Tiles, Sizes, Fit
<1>6. TypeOK
  <2>1. frecuencia \in Frecuencias /\ frecuencia \in Int
    BY DynamicAssumption DEF Init
  <2>2. kills \in 0 .. (IF frecuencia > 0 THEN frecuencia ELSE 1)
    BY <2>1 DEF Init
  <2>3. cache \in [Bytes -> Nat]
    BY DEF Init
  <2>4. QED
    BY <1>3, <2>1, <2>2, <2>3 DEF Init, TypeOK
<1>7. NoFreeNeighbours
  BY <1>4 DEF NoFreeNeighbours
<1>8. Content(partitions, cache)
  BY <1>4 DEF Content
<1>9. step = "idle"
  BY DEF Init
<1>10. QED
  BY <1>5, <1>6, <1>7, <1>8, <1>9 DEF DynamicInv, Gathered

\* The cache once size bytes are written to it.
Written(c, position, size, now) ==
    [b \in Bytes |-> IF b \in position .. position + size - 1 THEN now ELSE c[b]]

\* What is written to a free partition is written to no other.
LEMMA SavedContent ==
    ASSUME NEW s, Layout(s), NEW c \in [Bytes -> Nat], Content(s, c),
           NEW i \in Free(s), NEW size \in Nat, size <= s[i].size, NEW now,
           NEW r,
           \A k \in Occupied(r) :
              \/ /\ r[k].position = s[i].position /\ r[k].data_size = size
                 /\ r[k].creation_time = now
              \/ \E l \in Occupied(s) : r[k] = s[l]
    PROVE  Content(r, Written(c, s[i].position, size, now))
<1> DEFINE d == Written(c, s[i].position, size, now)
<1>8. d = [b \in Bytes |-> IF b \in s[i].position .. s[i].position + size - 1
                           THEN now ELSE c[b]]
  BY DEF Written
<1> HIDE DEF d
<1>1. /\ s \in Seq(Partition) /\ DOMAIN s = 1 .. Len(s) /\ Tiles(s, TAMANO_MEMORIA)
      /\ \A j \in 1 .. Len(s) : s[j] \in Partition
      /\ Occupied(s) \subseteq DOMAIN s /\ i \in DOMAIN s /\ Fit(s)
  BY ListProperties DEF Layout, Occupied, Free
<1>2. \A j \in 1 .. Len(s) : /\ s[j].position \in Nat /\ s[j].size \in Nat
                             /\ s[j].data_size \in Nat
                             /\ s[j].position + s[j].size <= TAMANO_MEMORIA
  <2>1. SUFFICES ASSUME NEW j \in 1 .. Len(s)
                 PROVE  /\ s[j].position \in Nat /\ s[j].size \in Nat
                        /\ s[j].data_size \in Nat
                        /\ s[j].position + s[j].size <= TAMANO_MEMORIA
    OBVIOUS
  <2>2. s[j].position + s[j].size <= TAMANO_MEMORIA
    BY <1>1, EndsInside
  <2>3. s[j] \in Partition
    BY <1>1
  <2>4. QED
    BY <2>2, <2>3 DEF Partition
<1>3. TAMANO_MEMORIA \in Nat
  BY DynamicAssumption
<1>4. SUFFICES ASSUME NEW k \in Occupied(r),
                      NEW b \in r[k].position .. r[k].position + r[k].data_size - 1
               PROVE  d[b] = r[k].creation_time
  BY DEF Content, d
<1>5. CASE /\ r[k].position = s[i].position /\ r[k].data_size = size
           /\ r[k].creation_time = now
  <2>1. b \in s[i].position .. s[i].position + size - 1
    BY <1>5
  <2>2. b \in Bytes
    BY <1>1, <1>2, <1>3, <2>1 DEF Bytes
  <2>3. QED
    BY <1>5, <1>8, <2>1, <2>2
<1>6. CASE \E l \in Occupied(s) : r[k] = s[l]
  <2>1. PICK l \in Occupied(s) : r[k] = s[l]
    BY <1>6
  <2>2. b \in s[l].position .. s[l].position + s[l].data_size - 1
    BY <2>1
  <2>3. l \in DOMAIN s /\ l # i /\ s[l].data_size <= s[l].size
    BY <1>1 DEF Occupied, Free, Fit
  <2>4. /\ s[l].position \in Nat /\ s[l].size \in Nat /\ s[l].data_size \in Nat
        /\ s[i].position \in Nat /\ s[i].size \in Nat
        /\ s[l].position + s[l].size <= TAMANO_MEMORIA
    BY <1>1, <1>2, <2>3
  <2>5. b \in Bytes
    BY <1>3, <2>2, <2>3, <2>4 DEF Bytes
  <2>6. \/ s[l].position + s[l].size <= s[i].position
        \/ s[i].position + s[i].size <= s[l].position
    <3>1. l < i \/ i < l
      BY <1>1, <2>3
    <3>2. QED
      BY <1>1, <2>3, <3>1, TilesAreOrdered
  <2>7. b \notin s[i].position .. s[i].position + size - 1
    BY <2>2, <2>3, <2>4, <2>6
  <2>8. c[b] = s[l].creation_time
    BY <2>2 DEF Content
  <2>9. QED
    BY <1>8, <2>1, <2>5, <2>7, <2>8
<1>7. QED
  BY <1>4, <1>5, <1>6 DEF d

\* A message that fits is saved in a free partition of its own.
LEMMA SaveKeeps ==
    ASSUME NoneIsSmaller, DynamicInv, Save
    PROVE  DynamicInv'
<1> DEFINE s == partitions
           r == partitions'
           now == TIME + 1
<1>1. /\ s \in Seq(Partition) /\ Layout(s)
      /\ DOMAIN s = 1 .. Len(s) /\ Len(s) \in Nat
      /\ \A j \in 1 .. Len(s) : s[j] \in Partition
      /\ \A j \in Free(s) : j + 1 \notin Free(s)
      /\ Content(s, cache)
      /\ cache \in [Bytes -> Nat]
  BY PartitionsProperties
<1>2. PICK i \in find_partition(s, request, config.libre) : SaveInPartition(i)
  BY DEF Save
<1>3. /\ request \in DataSizes /\ request \in Nat \ {0}
      /\ TAMANO_MINIMO_PARTICION <= request /\ TAMANO_MINIMO_PARTICION \in Nat
      /\ TIME \in Nat /\ TAMANO_MEMORIA \in Nat
  BY DynamicAssumption DEF DynamicInv, TypeOK, NoneIsSmaller, Save
<1>4. /\ i \in Free(s) /\ i \in 1 .. Len(s) /\ s[i].free
      /\ s[i].size >= request
      /\ s[i].size \in Nat /\ s[i].position \in Nat
      /\ s[i].position + s[i].size <= TAMANO_MEMORIA
  <2>1. i \in Free(s) /\ s[i].size >= request
    BY <1>2 DEF find_partition, greater_equals_and_free
  <2>2. i \in 1 .. Len(s) /\ s[i].free
    BY <1>1, <2>1 DEF Free
  <2>3. s[i].position + s[i].size <= TAMANO_MEMORIA
    BY <1>1, <2>2, EndsInside DEF Layout
  <2>4. QED
    BY <1>1, <2>1, <2>2, <2>3 DEF Partition
<1>5. (IF request > TAMANO_MINIMO_PARTICION
       THEN request ELSE TAMANO_MINIMO_PARTICION) = request
  BY <1>3
<1> DEFINE u == [Filled(s[i], request, now) EXCEPT !.size = request]
           used == [s EXCEPT ![i] = u]
           p == create_partition(s[i].position + request, s[i].size - request)
<1>6. /\ r = IF s[i].size = request THEN used
             ELSE add_partition_next_to(used, s[i].position, p)
      /\ cache' = [b \in Bytes |->
                      IF b \in s[i].position .. s[i].position + request - 1
                      THEN now ELSE cache[b]]
  BY <1>2, <1>5 DEF SaveInPartition
<1>7. /\ u \in Partition /\ u.position = s[i].position /\ u.size = request
      /\ ~u.free /\ u.data_size = request /\ u.creation_time = now
  <2>1. s[i] \in Partition /\ now \in Nat
    BY <1>1, <1>3, <1>4
  <2>2. QED
    BY <1>3, <2>1 DEF Filled, Partition
<1> HIDE DEF u
<1>8. /\ used \in Seq(Partition) /\ Len(used) = Len(s)
      /\ \A k \in 1 .. Len(s) : used[k] = IF k = i THEN u ELSE s[k]
  <2>1. used \in Seq(Partition) /\ Len(used) = Len(s)
    BY <1>1, <1>4, <1>7
  <2>2. \A k \in 1 .. Len(s) : used[k] = IF k = i THEN u ELSE s[k]
    BY <1>1
  <2>3. QED
    BY <2>1, <2>2
<1> HIDE DEF used
<1>9. /\ Layout(r) /\ \A k \in Free(r) : k + 1 \notin Free(r)
      /\ \A k \in Occupied(r) : r[k] = u \/ \E l \in Occupied(s) : r[k] = s[l]
  <2>1. CASE s[i].size = request
    <3>1. r = used
      BY <1>6, <2>1
    <3>2. Layout(used)
      <4>1. ASSUME NEW k \in DOMAIN s
            PROVE  /\ used[k].position = s[k].position /\ used[k].size = s[k].size
                   /\ \/ used[k].free
                      \/ ~s[k].free /\ used[k].data_size = s[k].data_size
                      \/ s[k].size > 0 /\ used[k].data_size <= s[k].size
        <5>1. CASE k = i
          BY <1>1, <1>3, <1>4, <1>7, <1>8, <2>1, <5>1
        <5>2. CASE k # i
          BY <1>1, <1>8, <5>2
        <5>3. QED
          BY <5>1, <5>2
      <4>2. QED
        BY <1>1, <1>8, <4>1, SameLayout
    <3>3. DOMAIN used = 1 .. Len(s)
      BY <1>8, ListProperties
    <3>4. Free(used) \subseteq Free(s)
      <4>1. \A k \in 1 .. Len(s) : used[k].free => s[k].free
        BY <1>7, <1>8
      <4>2. QED
        BY <1>1, <3>3, <4>1 DEF Free
    <3>5. \A k \in Occupied(used) : used[k] = u \/ (k \in Occupied(s) /\ used[k] = s[k])
      BY <1>1, <1>8, <3>3 DEF Occupied
    <3>6. QED
      BY <1>1, <3>1, <3>2, <3>4, <3>5
  <2>2. CASE s[i].size # request
    <3>1. /\ p \in Partition /\ p.free
          /\ p.position = s[i].position + request /\ p.size = s[i].size - request
          /\ p.size > 0
      <4>1. /\ s[i].position + request \in Nat /\ s[i].size - request \in Nat
            /\ s[i].size - request <= TAMANO_MEMORIA /\ s[i].size - request > 0
        BY <1>3, <1>4, <2>2
      <4>2. QED
        BY <4>1, CreateProperties
    <3> HIDE DEF p
    <3>2. r = InsertAt(used, i + 1, p)
      <4>1. ASSUME NEW j \in 1 .. Len(s), used[j].position = used[i].position
            PROVE  i <= j
        <5>1. s[j].position = s[i].position
          BY <1>4, <1>7, <1>8, <4>1
        <5>2. ~(s[j].position < s[i].position)
          <6>1. s[i].position \in Nat
            BY <1>4
          <6>2. QED
            BY <5>1, <6>1
        <5>3. ~(j < i)
          BY <1>1, <1>4, <5>2, PositionsGrow DEF Layout
        <5>4. QED
          BY <1>4, <5>3
      <4>2. used[i].position = s[i].position
        BY <1>4, <1>7, <1>8
      <4>3. add_partition_next_to(used, used[i].position, p) = InsertAt(used, i + 1, p)
        BY <1>4, <1>8, <4>1, AddPartition
      <4>4. QED
        BY <1>6, <2>2, <4>2, <4>3
    <3>3. /\ r \in Seq(Partition) /\ Len(r) = Len(s) + 1 /\ r[i + 1] = p
          /\ \A k \in 1 .. Len(s) : k < i + 1 => r[k] = used[k]
          /\ \A k \in 1 .. Len(s) : k >= i + 1 => r[k + 1] = used[k]
      <4>1. i + 1 \in 1 .. Len(used) + 1 /\ used \in Seq(Partition) /\ Len(used) = Len(s)
        BY <1>4, <1>8
      <4> HIDE DEF r
      <4>2. QED
        BY <3>1, <3>2, <4>1, InsertAtProperties
    <3> HIDE DEF r
    <3>4. /\ r[i] = u
          /\ \A k \in 1 .. Len(s) : k < i => r[k] = s[k]
          /\ \A k \in 1 .. Len(s) : k > i => r[k + 1] = s[k]
      <4>1. r[i] = used[i]
        BY <1>4, <3>3
      <4>2. \A k \in 1 .. Len(s) : (k < i => k < i + 1 /\ k # i) /\ (k > i => k >= i + 1 /\ k # i)
        BY <1>4
      <4>3. QED
        BY <1>4, <1>8, <3>3, <4>1, <4>2
    <3>5. Layout(r)
      <4>1. /\ r[i].position = s[i].position /\ r[i].size > 0
            /\ r[i].data_size <= r[i].size
            /\ r[i + 1].position = r[i].position + r[i].size
            /\ r[i + 1].size > 0 /\ r[i + 1].free
            /\ r[i + 1].position + r[i + 1].size = s[i].position + s[i].size
        <5>1. r[i] = u /\ r[i + 1] = p
          BY <3>3, <3>4
        <5>2. /\ u.position + u.size = p.position
              /\ p.position + p.size = s[i].position + s[i].size
              /\ u.size > 0 /\ u.data_size <= u.size
          BY <1>3, <1>4, <1>7, <3>1, SMTT(20)
        <5>3. QED
          BY <1>7, <3>1, <5>1, <5>2
      <4>2. /\ r \in Seq(Partition) /\ i \in 1 .. Len(s) /\ Len(r) = Len(s) + 1
            /\ \A k \in 1 .. Len(s) : k < i => r[k] = s[k]
            /\ \A k \in 1 .. Len(s) : k > i => r[k + 1] = s[k]
        BY <1>4, <3>3, <3>4
      <4> HIDE DEF s
      <4>3. QED
        BY <1>1, <4>1, <4>2, SplitLayout, SMTT(20)
    <3>6. DOMAIN r = 1 .. Len(s) + 1
      BY <3>3, ListProperties
    <3>7. ASSUME NEW k \in 1 .. Len(s) + 1
          PROVE  \/ k < i /\ k \in 1 .. Len(s) /\ r[k] = s[k]
                 \/ k = i /\ r[k] = u
                 \/ k = i + 1 /\ r[k] = p
                 \/ k > i + 1 /\ k - 1 \in 1 .. Len(s) /\ r[k] = s[k - 1]
      <4>1. CASE k < i
        <5>1. k \in 1 .. Len(s)
          BY <1>4, <4>1
        <5>2. QED
          BY <3>4, <4>1, <5>1
      <4>2. CASE k = i \/ k = i + 1
        BY <3>3, <3>4, <4>2
      <4>3. CASE k > i + 1
        <5>1. k - 1 \in 1 .. Len(s) /\ k - 1 > i /\ (k - 1) + 1 = k
          BY <1>1, <1>4, <4>3
        <5>2. r[k] = s[k - 1]
          BY <3>4, <5>1
        <5>3. QED
          BY <4>3, <5>1, <5>2
      <4>4. QED
        BY <1>4, <4>1, <4>2, <4>3
    <3>8. \A k \in Occupied(r) : r[k] = u \/ \E l \in Occupied(s) : r[k] = s[l]
      <4>1. SUFFICES ASSUME NEW k \in Occupied(r), r[k] # u
                     PROVE  \E l \in Occupied(s) : r[k] = s[l]
        OBVIOUS
      <4>2. k \in 1 .. Len(s) + 1 /\ ~r[k].free
        BY <3>6 DEF Occupied
      <4>3. \E l \in 1 .. Len(s) : r[k] = s[l]
        BY <3>1, <3>7, <4>1, <4>2
      <4>4. QED
        BY <1>1, <4>2, <4>3 DEF Occupied
    <3>9. \A k \in Free(r) : k + 1 \notin Free(r)
      <4>1. SUFFICES ASSUME NEW k \in Free(r), k + 1 \in Free(r) PROVE FALSE
        OBVIOUS
      <4>2. /\ k \in 1 .. Len(s) + 1 /\ k + 1 \in 1 .. Len(s) + 1
            /\ r[k].free /\ r[k + 1].free
        BY <3>6, <4>1 DEF Free
      <4>3. k # i /\ k + 1 # i
        BY <1>7, <3>4, <4>2
      <4>4. CASE k < i
        <5>1. k + 1 < i /\ k \in 1 .. Len(s) /\ k + 1 \in 1 .. Len(s)
          BY <1>4, <4>2, <4>3, <4>4
        <5>2. r[k] = s[k] /\ r[k + 1] = s[k + 1]
          BY <3>4, <4>4, <5>1
        <5>3. k \in Free(s) /\ k + 1 \in Free(s)
          BY <1>1, <4>2, <5>1, <5>2 DEF Free
        <5>4. QED
          BY <1>1, <5>3
      <4>5. CASE k > i
        <5>1. k \in 1 .. Len(s) /\ r[k + 1] = s[k]
          BY <1>4, <3>4, <4>2, <4>5
        <5>2. k \in Free(s)
          BY <1>1, <4>2, <5>1 DEF Free
        <5>3. CASE k = i + 1
          BY <1>1, <1>4, <5>2, <5>3
        <5>4. CASE k # i + 1
          <6>1. k > i + 1 /\ k - 1 \in 1 .. Len(s) /\ k - 1 > i /\ (k - 1) + 1 = k
            BY <1>4, <4>2, <4>5, <5>1, <5>4, SMTT(20)
          <6>2. r[k] = s[k - 1]
            BY <3>4, <6>1
          <6>3. k - 1 \in Free(s)
            BY <1>1, <4>2, <6>1, <6>2 DEF Free
          <6>4. QED
            BY <1>1, <5>2, <6>1, <6>3
        <5>5. QED
          BY <5>3, <5>4
      <4>6. QED
        BY <1>4, <4>2, <4>3, <4>4, <4>5
    <3>10. QED
      BY <3>5, <3>8, <3>9
  <2>3. QED
    BY <2>1, <2>2
<1>10. Content(partitions', cache')
  <2>1. \A k \in Occupied(r) :
           \/ /\ r[k].position = s[i].position /\ r[k].data_size = request
              /\ r[k].creation_time = now
           \/ \E l \in Occupied(s) : r[k] = s[l]
    BY <1>7, <1>9
  <2>2. request \in Nat /\ request <= s[i].size
    BY <1>3, <1>4
  <2> HIDE DEF r, now
  <2>3. Content(r, Written(cache, s[i].position, request, now))
    BY <1>1, <1>4, <2>1, <2>2, SavedContent
  <2>4. QED
    BY <1>6, <2>3 DEF r, Written
<1>11. TypeOK'
  <2>1. cache' \in [Bytes -> Nat]
    BY <1>1, <1>3, <1>6
  <2>2. partitions' \in Seq(Partition)
    BY <1>9 DEF Layout
  <2>3. /\ TIME' \in Nat /\ step' = "idle" /\ request' = 0 /\ kills' = 0
        /\ config' = config /\ frecuencia' = frecuencia
    BY <1>3 DEF Save
  <2>4. frecuencia \in Int /\ frecuencia \in Frecuencias /\ config \in Configuration
    BY DynamicAssumption DEF DynamicInv, TypeOK
  <2>5. kills' \in 0 .. (IF frecuencia' > 0 THEN frecuencia' ELSE 1)
    BY <2>3, <2>4
  <2>6. QED
    BY <2>1, <2>2, <2>3, <2>4, <2>5 DEF TypeOK
<1>12. step' = "idle"
  BY DEF Save
<1>13. Layout(partitions') /\ NoFreeNeighbours'
  BY <1>9 DEF NoFreeNeighbours
<1>14. QED
  BY <1>10, <1>11, <1>12, <1>13 DEF DynamicInv, Gathered, Layout, Content, Tiles, Sizes, Fit, Partition, Occupied

\* A victim is freed and merged with the free ones beside it.
LEMMA EvictedProperties ==
    ASSUME DynamicInv, NEW evicted \in Evictions
    PROVE  /\ Layout(evicted)
           /\ \A k \in Free(evicted) : k + 1 \notin Free(evicted)
           /\ Content(evicted, cache)
<1> DEFINE s == partitions
<1>1. /\ s \in Seq(Partition) /\ Layout(s)
      /\ DOMAIN s = 1 .. Len(s) /\ Len(s) \in Nat
      /\ \A j \in 1 .. Len(s) : s[j] \in Partition
      /\ \A j \in Free(s) : j + 1 \notin Free(s)
      /\ Content(s, cache)
  BY PartitionsProperties
<1>2. PICK v \in victims(s, config.reemplazo) :
         evicted = _consolidate([s EXCEPT ![v] = Released(@)])
  BY DEF Evictions
<1>3. v \in Occupied(s) /\ v \in 1 .. Len(s)
  BY <1>1, <1>2 DEF victims, Occupied
<1> DEFINE u == Released(s[v])
           r == [s EXCEPT ![v] = u]
<1>4. u \in Partition /\ u.position = s[v].position /\ u.size = s[v].size /\ u.free
  <2>1. s[v] \in Partition
    BY <1>1, <1>3
  <2>2. QED
    BY <2>1 DEF Released, Partition
<1> HIDE DEF u
<1>5. /\ r \in Seq(Partition) /\ Len(r) = Len(s)
      /\ \A k \in 1 .. Len(s) : r[k] = IF k = v THEN u ELSE s[k]
  BY <1>1, <1>3, <1>4
<1>6. evicted = _consolidate(r)
  BY <1>2 DEF u
<1> HIDE DEF r
<1>7. DOMAIN r = 1 .. Len(s)
  BY <1>5, ListProperties
<1>8. Layout(r)
  <2>1. ASSUME NEW k \in DOMAIN s
        PROVE  /\ r[k].position = s[k].position /\ r[k].size = s[k].size
               /\ \/ r[k].free
                  \/ ~s[k].free /\ r[k].data_size = s[k].data_size
                  \/ s[k].size > 0 /\ r[k].data_size <= s[k].size
    <3>1. CASE k = v
      BY <1>1, <1>4, <1>5, <3>1
    <3>2. CASE k # v
      BY <1>1, <1>5, <3>2
    <3>3. QED
      BY <3>1, <3>2
  <2>2. QED
    BY <1>1, <1>5, <2>1, SameLayout
<1>9. v \in Free(r) /\ \A k \in Free(r) : k = v \/ k \in Free(s)
  <2>1. \A k \in 1 .. Len(s) : k # v /\ r[k].free => s[k].free
    BY <1>5
  <2>2. r[v].free
    BY <1>3, <1>4, <1>5
  <2>3. QED
    BY <1>1, <1>3, <1>7, <2>1, <2>2 DEF Free
<1>10. FreeApart(r, v)
  BY <1>1, <1>9 DEF FreeApart
<1>11. /\ Layout(evicted) /\ Comes(evicted, r)
       /\ \A k \in Free(evicted) : k + 1 \notin Free(evicted)
  BY <1>6, <1>8, <1>9, <1>10, ConsolidateProperties
<1>12. \A k \in Occupied(evicted) : \E l \in Occupied(s) : evicted[k] = s[l]
  <2>1. SUFFICES ASSUME NEW k \in Occupied(evicted)
                 PROVE  \E l \in Occupied(s) : evicted[k] = s[l]
    OBVIOUS
  <2>2. ~evicted[k].free /\ k \in DOMAIN evicted
    BY DEF Occupied
  <2>3. PICK l \in DOMAIN r : evicted[k] = r[l]
    BY <1>11, <2>2 DEF Comes
  <2>4. l # v /\ l \in 1 .. Len(s)
    BY <1>4, <1>5, <1>7, <2>2, <2>3
  <2>5. r[l] = s[l]
    BY <1>5, <2>4
  <2>6. QED
    BY <1>1, <2>2, <2>3, <2>4, <2>5 DEF Occupied
<1>13. Content(evicted, cache)
  BY <1>1, <1>12 DEF Content
<1>14. QED
  BY <1>11, <1>13

\* What a compaction leaves of the list and of the messages in the cache.
LEMMA CompactedProperties ==
    ASSUME DynamicInv, NEW s, Layout(s), Content(s, cache), Occupied(s) # {}
    PROVE  /\ Layout(_compact(s))
           /\ \A k \in Free(_compact(s)) : k + 1 \notin Free(_compact(s))
           /\ Free(_compact(s)) = {Len(_compact(s))}
           /\ Content(_compact(s), CompactedCache(s))
           /\ CompactedCache(s) \in [Bytes -> Nat]
           /\ Cardinality(Occupied(_compact(s))) = Cardinality(Occupied(s))
<1> DEFINE r == _compact(s)
<1>1. cache \in [Bytes -> Nat]
  BY PartitionsProperties
<1>2. PICK e, n : Gathers(r, s, e, n)
  BY CompactProperties
<1> HIDE DEF r
<1>3. Layout(r) /\ n \in Nat /\ Len(r) = n + 1 /\ Free(r) = {n + 1}
  BY <1>2 DEF Gathers
<1>4. \A k \in Free(r) : k + 1 \notin Free(r)
  BY <1>3
<1>5. QED
  BY <1>1, <1>3, <1>4, CompactedContent DEF r

\* The constants' types, where the invariant holds.
LEMMA Types ==
    ASSUME DynamicInv
    PROVE  /\ config \in Configuration
           /\ frecuencia \in Frecuencias /\ frecuencia \in Int
           /\ cache \in [Bytes -> Nat]
           /\ TIME \in Nat /\ request \in Nat
           /\ kills \in 0 .. (IF frecuencia > 0 THEN frecuencia ELSE 1)
  BY DynamicAssumption DEF DynamicInv, TypeOK

LEMMA EvictKeeps ==
    ASSUME DynamicInv, Evict
    PROVE  DynamicInv'
<1>1. /\ config \in Configuration
      /\ frecuencia \in Frecuencias /\ frecuencia \in Int
      /\ cache \in [Bytes -> Nat]
      /\ TIME \in Nat /\ request \in Nat
      /\ kills \in 0 .. (IF frecuencia > 0 THEN frecuencia ELSE 1)
  BY Types
<1>2. /\ UNCHANGED <<config, frecuencia, TIME, step, request>>
      /\ step = "find" /\ request \in DataSizes
  BY DEF Evict, EvictNegative, EvictZero, EvictPositive, DynamicInv
<1>3. /\ Layout(partitions')
      /\ \A k \in Free(partitions') : k + 1 \notin Free(partitions')
      /\ Content(partitions', cache')
      /\ cache' \in [Bytes -> Nat]
  <2>1. CASE EvictNegative \/ EvictPositive
    <3>1. partitions' \in Evictions /\ cache' = cache
      BY <2>1 DEF EvictNegative, EvictPositive
    <3>2. QED
      BY <1>1, <3>1, EvictedProperties
  <2>2. CASE EvictZero
    <3>1. PICK evicted \in Evictions :
             /\ Occupied(evicted) # {}
             /\ partitions' = _compact(evicted)
             /\ cache' = CompactedCache(evicted)
      BY <2>2 DEF EvictZero
    <3>2. Layout(evicted) /\ Content(evicted, cache)
      BY EvictedProperties
    <3>3. QED
      BY <3>1, <3>2, CompactedProperties
  <2>3. QED
    BY <2>1, <2>2 DEF Evict
<1>4. /\ kills' \in 0 .. (IF frecuencia > 0 THEN frecuencia ELSE 1)
      /\ ~(frecuencia = 0 /\ kills' = 1)
  BY <1>1 DEF Evict, EvictNegative, EvictZero, EvictPositive
<1>5. TypeOK'
  BY <1>1, <1>2, <1>3, <1>4 DEF TypeOK, Layout
<1>6. Gathered'
  BY <1>2, <1>4 DEF Gathered
<1>7. Layout(partitions)' /\ NoFreeNeighbours' /\ Content(partitions, cache)'
  BY <1>3 DEF NoFreeNeighbours
<1>8. QED
  BY <1>2, <1>5, <1>6, <1>7 DEF DynamicInv

LEMMA CompactKeeps ==
    ASSUME DynamicInv, Compact
    PROVE  DynamicInv'
<1>1. /\ config \in Configuration
      /\ frecuencia \in Frecuencias /\ frecuencia \in Int
      /\ cache \in [Bytes -> Nat]
      /\ TIME \in Nat /\ request \in Nat
      /\ kills \in 0 .. (IF frecuencia > 0 THEN frecuencia ELSE 1)
  BY Types
<1>2. /\ UNCHANGED <<config, frecuencia, TIME, step, request>>
      /\ step = "find" /\ request \in DataSizes
      /\ Occupied(partitions) # {}
      /\ partitions' = _compact(partitions)
      /\ cache' = CompactedCache(partitions)
  BY DEF Compact, CompactZero, CompactPositive, DynamicInv
<1>3. /\ Layout(partitions')
      /\ \A k \in Free(partitions') : k + 1 \notin Free(partitions')
      /\ Free(partitions') = {Len(partitions')}
      /\ Content(partitions', cache')
      /\ cache' \in [Bytes -> Nat]
  BY <1>2, PartitionsProperties, CompactedProperties
<1>4. kills' \in 0 .. (IF frecuencia > 0 THEN frecuencia ELSE 1)
  BY <1>1 DEF Compact, CompactZero, CompactPositive
<1>5. TypeOK'
  BY <1>1, <1>2, <1>3, <1>4 DEF TypeOK, Layout
<1>6. Gathered'
  BY <1>3 DEF Gathered
<1>7. Layout(partitions)' /\ NoFreeNeighbours' /\ Content(partitions, cache)'
  BY <1>3 DEF NoFreeNeighbours
<1>8. QED
  BY <1>2, <1>5, <1>6, <1>7 DEF DynamicInv

LEMMA ReplayKeeps ==
    ASSUME DynamicInv, NEW replayed \in SUBSET Occupied(partitions), Replay(replayed)
    PROVE  DynamicInv'
<1> DEFINE s == partitions
           r == partitions'
<1>1. /\ s \in Seq(Partition) /\ Layout(s)
      /\ DOMAIN s = 1 .. Len(s) /\ Len(s) \in Nat
      /\ \A j \in 1 .. Len(s) : s[j] \in Partition
      /\ \A j \in Free(s) : j + 1 \notin Free(s)
      /\ Content(s, cache)
  BY PartitionsProperties
<1>2. /\ r = Accessed(s, replayed, TIME + 1)
      /\ TIME' = TIME + 1 /\ step' = "idle" /\ TIME \in Nat
      /\ UNCHANGED <<config, frecuencia, cache, step, request, kills>>
  BY Types DEF Replay
<1>3. ASSUME NEW k \in 1 .. Len(s)
      PROVE  /\ r[k] \in Partition
             /\ r[k].position = s[k].position /\ r[k].size = s[k].size
             /\ r[k].free = s[k].free /\ r[k].data_size = s[k].data_size
             /\ r[k].creation_time = s[k].creation_time
  <2>1. s[k] \in Partition /\ TIME + 1 \in Nat
    BY <1>1, <1>2
  <2>2. r[k] = IF k \in replayed THEN [s[k] EXCEPT !.access_time = TIME + 1] ELSE s[k]
    BY <1>1, <1>2 DEF Accessed
  <2> HIDE DEF r
  <2>3. QED
    BY <2>1, <2>2 DEF Partition
<1>4. r \in Seq(Partition) /\ Len(r) = Len(s)
  <2>1. r = [k \in 1 .. Len(s) |-> r[k]]
    BY <1>1, <1>2 DEF Accessed
  <2> HIDE DEF r
  <2>2. r \in [1 .. Len(s) -> Partition]
    BY <1>3, <2>1
  <2>3. QED
    BY <1>1, <2>2, ListFromFunction
<1>5. Layout(r)
  BY <1>1, <1>3, <1>4, SameLayout
<1>6. Free(r) = Free(s) /\ Occupied(r) = Occupied(s)
  <2>1. DOMAIN r = DOMAIN s
    BY <1>1, <1>4, ListProperties
  <2>2. QED
    BY <1>1, <1>3, <2>1 DEF Free, Occupied
<1>7. Content(r, cache)
  <2>1. Occupied(s) \subseteq 1 .. Len(s)
    BY <1>1 DEF Occupied
  <2>2. QED
    BY <1>1, <1>3, <1>6, <2>1 DEF Content
<1>8. TypeOK'
  BY <1>2, <1>4 DEF DynamicInv, TypeOK
<1>9. NoFreeNeighbours'
  BY <1>1, <1>6 DEF NoFreeNeighbours
<1>10. Layout(partitions)' /\ Content(partitions, cache)'
  BY <1>2, <1>5, <1>7
<1>11. QED
  BY <1>2, <1>8, <1>9, <1>10 DEF DynamicInv, Gathered

LEMMA NextDynamicInv ==
    ASSUME NoneIsSmaller
    PROVE  DynamicInv /\ [Next]_vars => DynamicInv'
<1> SUFFICES ASSUME DynamicInv, [Next]_vars PROVE DynamicInv'
  OBVIOUS
<1>1. ASSUME NEW data_size \in DataSizes, SaveMessage(data_size)
      PROVE  DynamicInv'
  <2>1. /\ request' = data_size /\ data_size \in Nat /\ step' = "find" /\ kills' = 0
        /\ UNCHANGED <<config, frecuencia, partitions, cache, TIME>>
    BY <1>1, DynamicAssumption DEF SaveMessage
  <2>2. kills' \in 0 .. (IF frecuencia > 0 THEN frecuencia ELSE 1)
    BY <2>1, Types
  <2>3. TypeOK'
    BY <2>1, <2>2 DEF DynamicInv, TypeOK
  <2>4. Layout(partitions)' /\ NoFreeNeighbours' /\ Content(partitions, cache)'
    BY <2>1 DEF DynamicInv, NoFreeNeighbours
  <2>5. QED
    BY <2>1, <2>3, <2>4 DEF DynamicInv, Gathered
<1>2. CASE Save
  BY <1>2, SaveKeeps
<1>3. CASE Evict
  BY <1>3, EvictKeeps
<1>4. CASE Compact
  BY <1>4, CompactKeeps
<1>5. CASE Crash
  <2>1. step' = "crashed" /\ UNCHANGED <<config, frecuencia, partitions, cache, TIME, request, kills>>
    BY <1>5 DEF Crash
  <2>2. TypeOK' /\ Layout(partitions)' /\ NoFreeNeighbours' /\ Content(partitions, cache)'
    BY <2>1 DEF DynamicInv, TypeOK, NoFreeNeighbours
  <2>3. QED
    BY <2>1, <2>2 DEF DynamicInv, Gathered
<1>6. ASSUME NEW replayed \in SUBSET Occupied(partitions), Replay(replayed)
      PROVE  DynamicInv'
  BY <1>6, ReplayKeeps
<1>7. CASE UNCHANGED vars
  BY <1>7 DEF vars, DynamicInv, TypeOK, NoFreeNeighbours, Gathered
<1>8. QED
  BY <1>1, <1>2, <1>3, <1>4, <1>5, <1>6, <1>7 DEF Next, SaveStep, Stopped

LEMMA AlwaysDynamicInv ==
    ASSUME NoneIsSmaller
    PROVE  Spec => []DynamicInv
<1>1. Init => DynamicInv
  BY InitDynamicInv
<1>2. DynamicInv /\ [Next]_vars => DynamicInv'
  BY NextDynamicInv
<1>3. QED
  BY <1>1, <1>2, PTL DEF Spec

(***************************************************************************)
(* Cut, consolidated and compacted, the partitions still cover the cache   *)
(* without gaps or overlaps, and no two free ones are neighbours           *)
(* (dynamic.c:120-315), if no message is smaller than the least partition. *)
(***************************************************************************)
THEOREM CacheIsDivided ==
    ASSUME NoneIsSmaller
    PROVE  Spec => []Gapless
<1>1. Spec => []DynamicInv
  BY AlwaysDynamicInv
<1>2. DynamicInv => Gapless
  BY DEF DynamicInv, Gapless, Layout, Tiling
<1>3. QED
  BY <1>1, <1>2, PTL

(***************************************************************************)
(* No save and no compaction writes over a message that is in the cache    *)
(* (dynamic.c:29 and 136-158), if no message is smaller than the     *)
(* least partition.                                                        *)
(***************************************************************************)
THEOREM NothingOverwritten ==
    ASSUME NoneIsSmaller
    PROVE  Spec => []ContentIntact
<1>1. Spec => []DynamicInv
  BY AlwaysDynamicInv
<1>2. DynamicInv => ContentIntact
  BY DEF DynamicInv, Content, ContentIntact
<1>3. QED
  BY <1>1, <1>2, PTL

\* A state in which nothing fits and all that is free is one partition.
LEMMA GatheredIsShort ==
    ASSUME DynamicInv, step = "find", frecuencia = 0, kills = 1, NoPartitionFits
    PROVE  SumOfSizes(partitions, Free(partitions)) < request
<1> DEFINE n == Len(partitions)
<1>1. /\ partitions \in Seq(Partition) /\ Free(partitions) = {n}
      /\ n \in 1 .. n /\ request \in Nat
      /\ partitions[n].size \in Nat
  <2>1. Free(partitions) = {n}
    BY DEF DynamicInv, Gathered
  <2>2. n \in DOMAIN partitions
    BY <2>1 DEF Free
  <2>3. QED
    BY <2>1, <2>2, PartitionsProperties, Types DEF Partition
<1>2. partitions[n].size < request
  <2>1. SUFFICES ASSUME partitions[n].size >= request PROVE FALSE
    BY <1>1
  <2>2. greater_equals_and_free(partitions, request) = {n}
    BY <1>1, <2>1 DEF greater_equals_and_free
  <2>3. n \in find_partition(partitions, request, config.libre)
    BY <1>1, <2>2 DEF find_partition
  <2>4. QED
    BY <2>3 DEF NoPartitionFits
<1>3. SumOfSizes(partitions, {n}) = partitions[n].size
  <2>1. {n} \in SUBSET (1 .. Len(partitions)) /\ {} \in SUBSET (1 .. Len(partitions))
    BY <1>1
  <2>2. SumOfSizes(partitions, {n}) = partitions[n].size + SumOfSizes(partitions, {n} \ {n})
    BY <1>1, <2>1, SizesAddUp
  <2>3. {n} \ {n} = {}
    OBVIOUS
  <2>4. SumOfSizes(partitions, {}) = 0
    BY <1>1, <2>1, SizesAddUp
  <2>5. SumOfSizes(partitions, {n} \ {n}) = 0
    BY <2>3, <2>4
  <2> HIDE DEF n
  <2>6. QED
    BY ONLY <1>1, <2>2, <2>5
<1>4. SumOfSizes(partitions, Free(partitions)) = partitions[n].size
  <2> HIDE DEF n
  <2>1. QED
    BY ONLY <1>1, <1>3
<1>5. QED
  BY ONLY <1>2, <1>4, Zenon

(***************************************************************************)
(* With frequency 0 a message is evicted only after what was free has been *)
(* gathered into one partition and that one was too small                  *)
(* (dynamic.c:61-88).                                                      *)
(***************************************************************************)
THEOREM EvictsForWantOfBytes ==
    ASSUME NoneIsSmaller
    PROVE  Spec => EvictsOnlyIfShort
<1> DEFINE Fewer == Cardinality(Occupied(partitions')) < Cardinality(Occupied(partitions))
           Short == SumOfSizes(partitions, Free(partitions)) < request
           A == frecuencia = 0 /\ TIME' = TIME /\ Fewer => Short
<1>1. ASSUME DynamicInv, [Next]_vars PROVE [A]_vars
  <2> SUFFICES ASSUME Next, frecuencia = 0, TIME' = TIME, Fewer PROVE Short
    BY <1>1
  <2>1. Occupied(partitions') # Occupied(partitions)
    <3>1. Cardinality(Occupied(partitions)) \in Nat
      BY <1>1, PartitionsProperties, FS_CardinalityType
    <3>2. QED
      BY <3>1
  <2>2. ~ (TIME' = TIME + 1)
    BY <1>1, Types
  <2>3. CASE EvictZero
    BY <1>1, <2>3, GatheredIsShort DEF EvictZero
  <2>4. CASE Compact
    <3>1. /\ Occupied(partitions) # {} /\ partitions' = _compact(partitions)
      BY <2>4 DEF Compact, CompactZero, CompactPositive
    <3>2. Cardinality(Occupied(partitions')) = Cardinality(Occupied(partitions))
      BY <1>1, <3>1, PartitionsProperties, CompactedProperties
    <3>3. Cardinality(Occupied(partitions)) \in Nat
      BY <1>1, PartitionsProperties, FS_CardinalityType
    <3>4. QED
      BY <3>2, <3>3
  <2>5. CASE EvictNegative \/ EvictPositive
    BY <1>1, <2>5, Types DEF EvictNegative, EvictPositive
  <2>6. CASE Save
    BY <2>2, <2>6 DEF Save
  <2>7. ASSUME NEW replayed \in SUBSET Occupied(partitions), Replay(replayed) PROVE FALSE
    BY <2>2, <2>7 DEF Replay
  <2>8. CASE Crash \/ Stopped \/ \E data_size \in DataSizes : SaveMessage(data_size)
    BY <2>1, <2>8 DEF Crash, Stopped, vars, SaveMessage
  <2>9. QED
    BY <2>3, <2>4, <2>5, <2>6, <2>7, <2>8 DEF Next, SaveStep, Evict
<1>2. Spec => []DynamicInv
  BY AlwaysDynamicInv
<1>3. DynamicInv /\ [Next]_vars => [A]_vars
  BY <1>1
<1>4. Spec => [][A]_vars
  BY <1>2, <1>3, PTL DEF Spec
<1>5. QED
  BY <1>4 DEF EvictsOnlyIfShort

=============================================================================
