---------------------------- MODULE BuddyProofs ----------------------------
(***************************************************************************)
(* The buddy system never loses or shares a byte of the cache, whatever    *)
(* its size, the sizes of the messages and the algorithms configured.      *)
(*                                                                         *)
(* Tiling alone is not inductive. A merge keeps it because the buddy is    *)
(* the partition's neighbour in the list, which follows from its position  *)
(* only if positions grow along the list (Ordered); a halving keeps it     *)
(* because the size is even, as powers of two bigger than another one are  *)
(* (Sizes, Progress).                                                      *)
(***************************************************************************)
EXTENDS BuddyMemory, CollectionProofs

Ordered(s) ==
    \A i, j \in DOMAIN s : i < j => s[i].position + s[i].size <= s[j].position

Sizes(s) == \A i \in DOMAIN s : s[i].size \in PowersOfTwo

\* Every partition of r that is not new comes from s, and none of them is one
\* of those that are gone.
OthersCome(r, s, new, gone) ==
    \A k \in DOMAIN r \ new : \E j \in DOMAIN s \ gone : r[k] = s[j]

\* What each turn of a save may rely on.
Progress ==
    /\ step \in {"find", "break", "consolidate"} => request.desired \in PowersOfTwo
    /\ step = "break" => /\ at \in DOMAIN partitions
                         /\ partitions[at].free
                         /\ partitions[at].size >= request.desired
    /\ step = "consolidate" => at \in DOMAIN partitions /\ partitions[at].free

BuddyInv ==
    /\ TypeOK
    /\ Tiling
    /\ Ordered(partitions)
    /\ Sizes(partitions)
    /\ Progress

\* A message of data_size bytes is in the smallest partition that holds it.
Fits(data_size, size) ==
    /\ data_size <= size
    /\ size = TAMANO_MINIMO_PARTICION \/ size \div 2 < data_size

Aligned(p) == p.position % p.size = 0

\* What must be true of a partition when it is now, and the last victim had
\* the stamp last.
Placed(p, now, last, reemplazo) ==
    /\ Aligned(p)
    /\ ~p.free => /\ Fits(p.data_size, p.size)
                  /\ last <= Stamp(p, reemplazo)
                  /\ p.creation_time <= now
                  /\ p.access_time <= now

AllPlaced(s, now, last, reemplazo) ==
    \A i \in DOMAIN s : Placed(s[i], now, last, reemplazo)

\* No two free partitions are buddies, the one at but left aside.
Apart(s, but) ==
    \A i, j \in Free(s) \ {but} :
        ~(s[j].position = _buddy_position(s[i]) /\ s[j].size = s[i].size)

\* What a save knows of its request, and the clock of the last victim.
RequestInv ==
    /\ step \in {"idle", "find", "crashed"} => at = 0
    /\ step \in {"find", "break", "consolidate"} =>
          Fits(request.data_size, request.desired)
    /\ lastVictim <= TIME

FullInv ==
    /\ BuddyInv
    /\ RequestInv
    /\ Apart(partitions, at)
    /\ AllPlaced(partitions, TIME, lastVictim, config.reemplazo)

-----------------------------------------------------------------------------

\* The list is searched from its head: the first partition that starts there.
LEMMA FindIndexProperties ==
    ASSUME NEW s, NEW i \in DOMAIN s, DOMAIN s = 1 .. Len(s), Len(s) \in Nat,
           \A j \in DOMAIN s : s[j].position = s[i].position => i <= j
    PROVE  _list_find_index(s, s[i].position) = i
<1>1. SelectInSeq(s, LAMBDA p : p.position = s[i].position) = i
  BY FirstAtPosition
<1>2. QED
  BY <1>1 DEF _list_find_index

LEMMA PowersArePositive == \A p \in PowersOfTwo : p \in Nat /\ p > 0
  BY BuddyAssumption

\* What a list of partitions is made of.
LEMMA ListProperties ==
    ASSUME NEW s \in Seq(Partition)
    PROVE  /\ DOMAIN s = 1 .. Len(s)
           /\ Len(s) \in Nat
           /\ \A j \in 1 .. Len(s) : s[j] \in Partition
           /\ \A j \in 1 .. Len(s) : s[j].position \in Nat /\ s[j].size \in Nat
<1>1. DOMAIN s = 1 .. Len(s) /\ Len(s) \in Nat
  BY LenProperties
<1>2. ASSUME NEW j \in 1 .. Len(s) PROVE s[j] \in Partition
  BY <1>1, ElementOfSeq
<1>3. ASSUME NEW j \in 1 .. Len(s)
      PROVE  s[j].position \in Nat /\ s[j].size \in Nat
  BY <1>2 DEF Partition
<1>4. QED
  BY <1>1, <1>2, <1>3

\* A new partition has the size it is created with.
LEMMA CreateProperties ==
    ASSUME NEW position \in Nat, NEW size \in PowersOfTwo
    PROVE  /\ create_partition(position, size) \in Partition
           /\ create_partition(position, size).position = position
           /\ create_partition(position, size).size = size
           /\ create_partition(position, size).free
<1>1. size \in Nat /\ size < UnsignedModulus /\ UnsignedModulus \in Nat \ {0}
  BY BuddyAssumption, UnsignedModulusAssumption
<1>2. size % UnsignedModulus = size
  BY <1>1
<1>3. QED
  BY <1>1, <1>2 DEF create_partition, Partition

\* Halving a partition that is not the least power of two loses nothing.
LEMMA HalfProperties ==
    ASSUME NEW p \in PowersOfTwo, NEW q \in PowersOfTwo, q <= p, p # q
    PROVE  /\ p \div 2 \in PowersOfTwo
           /\ (p \div 2) + (p \div 2) = p
           /\ q <= p \div 2
<1>1. p \in Nat /\ q \in Nat /\ q > 0 /\ q < p
  BY PowersArePositive
<1>2. p % 2 = 0 /\ p \div 2 \in PowersOfTwo /\ q <= p \div 2
  BY <1>1, BuddyAssumption
<1>3. QED
  BY <1>1, <1>2

\* A partition ends inside the memory.
LEMMA EndsInside ==
    ASSUME NEW s \in Seq(Partition), Tiles(s, TAMANO_MEMORIA), Ordered(s),
           NEW i \in DOMAIN s
    PROVE  s[i].position + s[i].size <= TAMANO_MEMORIA
<1>1. /\ DOMAIN s = 1 .. Len(s)
      /\ Len(s) \in Nat
      /\ \A j \in 1 .. Len(s) : s[j].position \in Nat /\ s[j].size \in Nat
  BY ListProperties
<1>2. TAMANO_MEMORIA \in Nat
  BY BuddyAssumption
<1>3. CASE i = Len(s)
  BY <1>1, <1>3 DEF Tiles
<1>4. CASE i # Len(s)
  <2>1. Len(s) \in DOMAIN s /\ i < Len(s)
    BY <1>1, <1>4
  <2>2. s[i].position + s[i].size <= s[Len(s)].position
    BY <2>1 DEF Ordered
  <2>3. QED
    BY <1>1, <1>2, <2>1, <2>2 DEF Tiles
<1>5. QED
  BY <1>3, <1>4

(***************************************************************************)
(* A list that differs from a good one only in flags and times is good.    *)
(***************************************************************************)
LEMMA SameLayout ==
    ASSUME NEW s \in Seq(Partition), NEW r \in Seq(Partition),
           Len(r) = Len(s), Tiles(s, TAMANO_MEMORIA), Ordered(s), Sizes(s),
           \A i \in DOMAIN s : r[i].position = s[i].position /\ r[i].size = s[i].size
    PROVE  Tiles(r, TAMANO_MEMORIA) /\ Ordered(r) /\ Sizes(r)
<1>1. DOMAIN s = 1 .. Len(s) /\ DOMAIN r = 1 .. Len(s) /\ Len(s) \in Nat
  BY ListProperties
<1>2. Tiles(r, TAMANO_MEMORIA)
  <2>1. Len(s) > 0 /\ r[1].position = 0
    BY <1>1 DEF Tiles
  <2>2. r[Len(r)].position + r[Len(r)].size = TAMANO_MEMORIA
    BY <1>1, <2>1 DEF Tiles
  <2>3. ASSUME NEW k \in 1 .. Len(s) - 1
        PROVE  r[k + 1].position = r[k].position + r[k].size
    <3>1. k \in DOMAIN s /\ k + 1 \in DOMAIN s
      BY <1>1
    <3>2. s[k + 1].position = s[k].position + s[k].size
      BY DEF Tiles
    <3>3. QED
      BY <3>1, <3>2
  <2>4. QED
    BY <2>1, <2>2, <2>3 DEF Tiles
<1>3. Ordered(r) /\ Sizes(r)
  BY <1>1 DEF Ordered, Sizes
<1>4. QED
  BY <1>2, <1>3

(***************************************************************************)
(* Neighbours i and i + 1 become one partition.                            *)
(***************************************************************************)
LEMMA MergedLayout ==
    ASSUME NEW s \in Seq(Partition), NEW r \in Seq(Partition),
           Tiles(s, TAMANO_MEMORIA), Ordered(s), Sizes(s),
           NEW i \in 1 .. Len(s) - 1, s[i].size = s[i + 1].size,
           Len(r) = Len(s) - 1,
           r[i].position = s[i].position, r[i].size = 2 * s[i].size,
           \A k \in 1 .. Len(s) - 1 : k < i => r[k] = s[k],
           \A k \in 1 .. Len(s) - 1 : k > i => r[k] = s[k + 1]
    PROVE  Tiles(r, TAMANO_MEMORIA) /\ Ordered(r) /\ Sizes(r)
<1>1. /\ DOMAIN s = 1 .. Len(s) /\ DOMAIN r = 1 .. Len(s) - 1 /\ Len(s) \in Nat
      /\ \A j \in 1 .. Len(s) : s[j].position \in Nat /\ s[j].size \in Nat
  <2>1. DOMAIN r = 1 .. Len(r)
    BY ListProperties
  <2>2. QED
    BY <2>1, ListProperties
<1>2. s[i + 1].position = s[i].position + s[i].size
  BY <1>1 DEF Tiles
<1>3. Tiles(r, TAMANO_MEMORIA)
  <2>1. r[1].position = 0
    BY <1>1 DEF Tiles
  <2>2. ASSUME NEW k \in 1 .. Len(r) - 1
        PROVE  r[k + 1].position = r[k].position + r[k].size
    <3>1. CASE k + 1 < i
      <4>1. /\ r[k] = s[k] /\ r[k + 1] = s[k + 1] /\ k \in 1 .. Len(s) - 1
        BY <1>1, <3>1
      <4>2. QED
        BY <4>1 DEF Tiles
    <3>2. CASE k + 1 = i
      BY <1>1, <3>2 DEF Tiles
    <3>3. CASE k = i
      <4>1. r[k + 1] = s[i + 2] /\ s[i + 2].position = s[i + 1].position + s[i + 1].size
        BY <1>1, <3>3 DEF Tiles
      <4>2. s[i].position \in Nat /\ s[i].size \in Nat
        BY <1>1
      <4>3. QED
        BY <1>2, <3>3, <4>1, <4>2
    <3>4. CASE k > i
      <4>0. k \in 1 .. Len(s) - 1 /\ k + 1 \in 1 .. Len(s) - 1 /\ k + 1 > i
        BY <1>1, <3>4
      <4>1. r[k] = s[k + 1] /\ r[k + 1] = s[(k + 1) + 1]
        BY <3>4, <4>0
      <4>2. s[(k + 1) + 1].position = s[k + 1].position + s[k + 1].size
        BY <4>0 DEF Tiles
      <4>3. QED
        BY <4>0, <4>1, <4>2
    <3>5. QED
      BY <1>1, <3>1, <3>2, <3>3, <3>4
  <2>3. r[Len(r)].position + r[Len(r)].size = TAMANO_MEMORIA
    <3>1. CASE i = Len(s) - 1
      <4>1. s[i + 1].position + s[i + 1].size = TAMANO_MEMORIA
        BY <1>1, <3>1 DEF Tiles
      <4>2. s[i].position \in Nat /\ s[i].size \in Nat
        BY <1>1
      <4>3. QED
        BY <1>1, <1>2, <3>1, <4>1, <4>2
    <3>2. CASE i < Len(s) - 1
      BY <1>1, <3>2 DEF Tiles
    <3>3. QED
      BY <1>1, <3>1, <3>2
  <2>4. QED
    BY <1>1, <2>1, <2>2, <2>3 DEF Tiles
<1>4. Ordered(r)
  <2> SUFFICES ASSUME NEW j \in 1 .. Len(s) - 1, NEW k \in 1 .. Len(s) - 1, j < k
               PROVE  r[j].position + r[j].size <= r[k].position
    BY <1>1 DEF Ordered
  <2>1. CASE k < i
    <3>1. r[j] = s[j] /\ r[k] = s[k] /\ j \in DOMAIN s /\ k \in DOMAIN s
      BY <1>1, <2>1
    <3>2. QED
      BY <3>1 DEF Ordered
  <2>2. CASE k = i
    <3>1. r[j] = s[j] /\ j \in DOMAIN s /\ i \in DOMAIN s /\ j < i
      BY <1>1, <2>2
    <3>2. s[j].position + s[j].size <= s[i].position
      BY <3>1 DEF Ordered
    <3>3. QED
      BY <2>2, <3>1, <3>2
  <2>3. CASE j = i
    <3>1. r[k] = s[k + 1] /\ i + 1 < k + 1 /\ k + 1 \in DOMAIN s /\ i + 1 \in DOMAIN s
      BY <1>1, <2>3
    <3>2. s[i + 1].position + s[i + 1].size <= s[k + 1].position
      BY <3>1 DEF Ordered
    <3>3. s[i].position \in Nat /\ s[i].size \in Nat /\ s[k + 1].position \in Nat
      <4>1. i \in 1 .. Len(s) /\ k + 1 \in 1 .. Len(s)
        BY <1>1, <3>1
      <4>2. QED
        BY <1>1, <4>1
    <3>4. r[j].position = s[i].position /\ r[j].size = s[i].size + s[i].size
      BY <2>3, <3>3
    <3>5. s[i + 1].position + s[i + 1].size = s[i].position + (s[i].size + s[i].size)
      BY <1>2, <3>3
    <3>6. QED
      BY <3>1, <3>2, <3>4, <3>5
  <2>4. CASE j < i /\ k > i
    <3>1. r[k] = s[k + 1] /\ r[j] = s[j] /\ k + 1 \in DOMAIN s /\ j \in DOMAIN s /\ j < k + 1
      BY <1>1, <2>4
    <3>2. QED
      BY <3>1 DEF Ordered
  <2>5. CASE j > i
    <3>1. /\ r[k] = s[k + 1] /\ r[j] = s[j + 1] /\ j + 1 < k + 1
          /\ k + 1 \in DOMAIN s /\ j + 1 \in DOMAIN s
      BY <1>1, <2>5
    <3>2. QED
      BY <3>1 DEF Ordered
  <2>6. QED
    BY <1>1, <2>1, <2>2, <2>3, <2>4, <2>5
<1>5. Sizes(r)
  <2>1. s[i].size + s[i].size <= TAMANO_MEMORIA
    <3>1. i + 1 \in DOMAIN s /\ i \in DOMAIN s
      BY <1>1
    <3>2. s[i + 1].position + s[i + 1].size <= TAMANO_MEMORIA
      BY <3>1, EndsInside
    <3>3. s[i].position \in Nat /\ s[i].size \in Nat /\ TAMANO_MEMORIA \in Nat
      BY <1>1, BuddyAssumption
    <3>4. QED
      BY <1>2, <3>2, <3>3
  <2>2. s[i].size \in PowersOfTwo /\ TAMANO_MEMORIA \in PowersOfTwo
    <3>1. i \in DOMAIN s
      BY <1>1
    <3>2. QED
      BY <3>1, BuddyAssumption DEF Sizes
  <2>3. s[i].size < TAMANO_MEMORIA
    BY <2>1, <2>2, PowersArePositive
  <2>4. 2 * s[i].size \in PowersOfTwo
    BY <2>2, <2>3, BuddyAssumption
  <2>5. ASSUME NEW k \in 1 .. Len(s) - 1 PROVE r[k].size \in PowersOfTwo
    <3>1. CASE k = i
      BY <2>4, <3>1
    <3>2. CASE k < i
      <4>1. r[k] = s[k] /\ k \in DOMAIN s
        BY <1>1, <3>2
      <4>2. QED
        BY <4>1 DEF Sizes
    <3>3. CASE k > i
      <4>1. r[k] = s[k + 1] /\ k + 1 \in DOMAIN s
        BY <1>1, <3>3
      <4>2. QED
        BY <4>1 DEF Sizes
    <3>4. QED
      BY <1>1, <3>1, <3>2, <3>3
  <2>6. QED
    BY <1>1, <2>5 DEF Sizes
<1>6. QED
  BY <1>3, <1>4, <1>5

\* An end of a partition is a natural number.
LEMMA EndIsNat == \A p, q \in Nat : p + q \in Nat
  BY SMT

\* Where the two halves of a block at p end, when the next block is at q.
LEMMA HalvesEnd ==
    \A p, h, q \in Nat :
        p + (h + h) <= q => /\ p + h <= q
                            /\ (p + h) + h <= q
  BY SMT

\* An end e before p is before the middle of the block at p.
LEMMA EndBeforeMiddle ==
    \A e, p, h \in Nat : e <= p => e <= p + h
  BY SMT

(***************************************************************************)
(* Partition i becomes two halves, one after the other.                    *)
(***************************************************************************)
LEMMA SplitLayout ==
    ASSUME NEW s \in Seq(Partition), NEW r \in Seq(Partition),
           Tiles(s, TAMANO_MEMORIA), Ordered(s), Sizes(s),
           NEW i \in DOMAIN s, NEW half \in PowersOfTwo, s[i].size = half + half,
           Len(r) = Len(s) + 1,
           r[i].position = s[i].position, r[i].size = half,
           r[i + 1].position = s[i].position + half, r[i + 1].size = half,
           \A k \in 1 .. Len(s) + 1 : k < i => r[k] = s[k],
           \A k \in 1 .. Len(s) + 1 : k > i + 1 => r[k] = s[k - 1]
    PROVE  Tiles(r, TAMANO_MEMORIA) /\ Ordered(r) /\ Sizes(r)
<1>1. /\ DOMAIN s = 1 .. Len(s) /\ DOMAIN r = 1 .. Len(r) /\ Len(s) \in Nat
      /\ \A j \in 1 .. Len(s) : s[j].position \in Nat /\ s[j].size \in Nat
  BY ListProperties
<1>2. i \in 1 .. Len(s) /\ half \in Nat /\ s[i].position \in Nat
  BY <1>1, PowersArePositive
<1>3. s[i].size = half + half /\ Len(r) = Len(s) + 1
  OBVIOUS
<1>4. /\ r[i].position = s[i].position /\ r[i].size = half
      /\ r[i + 1].position = s[i].position + half /\ r[i + 1].size = half
  OBVIOUS
<1>5. \A k \in 1 .. Len(s) + 1 : k < i => r[k] = s[k]
  OBVIOUS
<1>6. \A k \in 1 .. Len(s) + 1 : k > i + 1 => r[k] = s[k - 1]
  OBVIOUS
<1>7. /\ Len(s) > 0 /\ s[1].position = 0
      /\ \A k \in 1 .. Len(s) - 1 : s[k + 1].position = s[k].position + s[k].size
      /\ s[Len(s)].position + s[Len(s)].size = TAMANO_MEMORIA
  BY DEF Tiles
<1>8. \A j, k \in 1 .. Len(s) : j < k => s[j].position + s[j].size <= s[k].position
  BY ONLY <1>1, Ordered(s) DEF Ordered
<1>9. \A k \in 1 .. Len(s) : s[k].size \in PowersOfTwo
  BY ONLY <1>1, Sizes(s) DEF Sizes
<1>10. half \in PowersOfTwo
  OBVIOUS
<1>11. Tiles(r, TAMANO_MEMORIA)
  <2>1. r[1].position = 0
    <3>1. CASE i = 1
      BY ONLY <1>4, <1>7, <3>1
    <3>2. CASE i # 1
      <4>1. r[1] = s[1]
        BY ONLY <1>1, <1>2, <1>5, <3>2
      <4>2. QED
        BY ONLY <1>7, <4>1
    <3>3. QED
      BY <3>1, <3>2
  <2>2. ASSUME NEW k \in 1 .. Len(r) - 1
        PROVE  r[k + 1].position = r[k].position + r[k].size
    <3>1. k \in 1 .. Len(s)
      BY ONLY <1>1, <1>3, k \in 1 .. Len(r) - 1
    <3>2. CASE k + 1 < i
      <4>1. /\ k \in 1 .. Len(s) - 1 /\ k < i
            /\ k \in 1 .. Len(s) + 1 /\ k + 1 \in 1 .. Len(s) + 1
        BY ONLY <1>1, <1>2, <3>1, <3>2
      <4>2. r[k] = s[k] /\ r[k + 1] = s[k + 1]
        BY ONLY <1>5, <3>2, <4>1
      <4>3. QED
        BY ONLY <1>7, <4>1, <4>2
    <3>3. CASE k + 1 = i
      <4>1. k \in 1 .. Len(s) - 1 /\ k < i /\ k \in 1 .. Len(s) + 1
        BY ONLY <1>1, <1>2, <3>1, <3>3
      <4>2. r[k] = s[k] /\ s[k + 1].position = s[k].position + s[k].size
        BY ONLY <1>5, <1>7, <4>1
      <4>3. r[k + 1].position = s[k + 1].position
        BY ONLY <1>4, <3>3
      <4>4. QED
        BY ONLY <4>2, <4>3
    <3>4. CASE k = i
      BY ONLY <1>4, <3>4
    <3>5. CASE k = i + 1
      <4>1. /\ i \in 1 .. Len(s) - 1 /\ k + 1 \in 1 .. Len(s) + 1
            /\ k + 1 > i + 1 /\ (k + 1) - 1 = i + 1
        BY ONLY <1>1, <1>2, <3>1, <3>5
      <4>2. r[k + 1] = s[i + 1]
        BY ONLY <1>6, <4>1
      <4>3. s[i + 1].position = s[i].position + (half + half)
        BY ONLY <1>3, <1>7, <4>1
      <4>4. r[k].position + r[k].size = (s[i].position + half) + half
        BY ONLY <1>4, <3>5
      <4>5. s[i].position + (half + half) = (s[i].position + half) + half
        BY ONLY <1>2
      <4>6. QED
        BY ONLY <4>2, <4>3, <4>4, <4>5
    <3>6. CASE k > i + 1
      <4>1. /\ k - 1 \in 1 .. Len(s) - 1 /\ k + 1 \in 1 .. Len(s) + 1
            /\ k \in 1 .. Len(s) + 1 /\ k + 1 > i + 1
            /\ (k + 1) - 1 = k /\ (k - 1) + 1 = k
        BY ONLY <1>1, <1>2, <3>1, <3>6
      <4>2. r[k + 1] = s[k] /\ r[k] = s[k - 1]
        BY ONLY <1>6, <3>6, <4>1
      <4>3. s[k].position = s[k - 1].position + s[k - 1].size
        BY ONLY <1>7, <4>1
      <4>4. QED
        BY ONLY <4>2, <4>3
    <3>7. k + 1 < i \/ k + 1 = i \/ k = i \/ k = i + 1 \/ k > i + 1
      BY ONLY <1>1, <1>2, <3>1
    <3>8. QED
      BY ONLY <3>2, <3>3, <3>4, <3>5, <3>6, <3>7
  <2>3. r[Len(r)].position + r[Len(r)].size = TAMANO_MEMORIA
    <3>1. CASE i = Len(s)
      <4>1. s[i].position + (half + half) = TAMANO_MEMORIA
        BY ONLY <1>3, <1>7, <3>1
      <4>2. s[i].position + (half + half) = (s[i].position + half) + half
        BY ONLY <1>2
      <4>3. QED
        BY ONLY <1>3, <1>4, <3>1, <4>1, <4>2
    <3>2. CASE i # Len(s)
      <4>1. Len(r) \in 1 .. Len(s) + 1 /\ Len(r) > i + 1 /\ Len(r) - 1 = Len(s)
        BY ONLY <1>1, <1>2, <1>3, <3>2
      <4>2. r[Len(r)] = s[Len(s)]
        BY ONLY <1>6, <4>1
      <4>3. QED
        BY ONLY <1>7, <4>2
    <3>3. QED
      BY <3>1, <3>2
  <2>4. Len(r) > 0
    BY ONLY <1>1, <1>3
  <2>5. QED
    BY ONLY <2>1, <2>2, <2>3, <2>4 DEF Tiles
<1>12. Ordered(r)
  <2>1. ASSUME NEW j \in 1 .. Len(s) + 1, NEW k \in 1 .. Len(s) + 1, j < k
        PROVE  r[j].position + r[j].size <= r[k].position
    <3>1. j \in 1 .. Len(s) + 1 /\ k \in 1 .. Len(s) + 1 /\ j < k
      BY <2>1
    \* Where a block on the left of block i ends.
    <3>2. ASSUME j < i
          PROVE  /\ j \in 1 .. Len(s) /\ r[j] = s[j]
                 /\ s[j].position + s[j].size \in Nat
                 /\ s[j].position + s[j].size <= s[i].position
      <4>1. j \in 1 .. Len(s)
        BY ONLY <1>1, <1>2, <3>1, <3>2
      <4>2. s[j].position \in Nat /\ s[j].size \in Nat /\ r[j] = s[j]
        BY ONLY <1>1, <1>5, <3>1, <3>2, <4>1
      <4>3. s[j].position + s[j].size <= s[i].position
        BY ONLY <1>2, <1>8, <3>2, <4>1
      <4>4. s[j].position + s[j].size \in Nat
        BY ONLY <4>2, EndIsNat
      <4>5. QED
        BY ONLY <4>1, <4>2, <4>3, <4>4
    \* Where a block on the right of block i begins.
    <3>3. ASSUME k > i + 1
          PROVE  /\ k - 1 \in 1 .. Len(s) /\ i < k - 1 /\ r[k] = s[k - 1]
                 /\ s[i].position + half <= s[k - 1].position
                 /\ (s[i].position + half) + half <= s[k - 1].position
      <4>1. k - 1 \in 1 .. Len(s) /\ i < k - 1
        BY ONLY <1>1, <1>2, <3>1, <3>3
      <4>2. r[k] = s[k - 1]
        BY ONLY <1>6, <3>1, <3>3
      <4>3. s[i].position + (half + half) <= s[k - 1].position
        BY ONLY <1>2, <1>3, <1>8, <4>1
      <4>4. s[k - 1].position \in Nat
        BY ONLY <1>1, <4>1
      <4>5. QED
        BY ONLY <1>2, <4>1, <4>2, <4>3, <4>4, HalvesEnd
    <3>4. CASE k < i
      <4>1. j < i /\ k \in 1 .. Len(s)
        BY ONLY <1>1, <1>2, <3>1, <3>4
      <4>2. r[k] = s[k] /\ r[j] = s[j] /\ j \in 1 .. Len(s)
        BY ONLY <1>5, <3>1, <3>2, <3>4, <4>1
      <4>3. s[j].position + s[j].size <= s[k].position
        BY ONLY <1>8, <3>1, <4>1, <4>2
      <4>4. QED
        BY ONLY <4>2, <4>3
    <3>5. CASE k = i
      <4>1. j < i
        BY ONLY <3>1, <3>5
      <4>2. r[k].position = s[i].position
        BY ONLY <1>4, <3>5
      <4>3. QED
        BY ONLY <3>2, <4>1, <4>2
    <3>6. CASE k = i + 1
      <4>1. r[k].position = s[i].position + half
        BY ONLY <1>4, <3>6
      <4>2. CASE j = i
        <5>1. r[j].position + r[j].size = s[i].position + half
          BY ONLY <1>4, <4>2
        <5>2. QED
          BY ONLY <1>2, <4>1, <5>1
      <4>3. CASE j < i
        <5>1. s[j].position + s[j].size <= s[i].position + half
          BY ONLY <1>2, <3>2, <4>3, EndBeforeMiddle
        <5>2. QED
          BY ONLY <3>2, <4>1, <4>3, <5>1
      <4>4. j = i \/ j < i
        BY ONLY <1>1, <1>2, <3>1, <3>6
      <4>5. QED
        BY ONLY <4>2, <4>3, <4>4
    <3>7. CASE k > i + 1
      <4>1. CASE j < i
        <5>1. j < k - 1
          BY ONLY <1>1, <1>2, <3>1, <3>7, <4>1
        <5>2. s[j].position + s[j].size <= s[k - 1].position
          BY ONLY <1>8, <3>2, <3>3, <3>7, <4>1, <5>1
        <5>3. QED
          BY ONLY <3>2, <3>3, <3>7, <4>1, <5>2
      <4>2. CASE j = i
        BY ONLY <1>4, <3>3, <3>7, <4>2
      <4>3. CASE j = i + 1
        BY ONLY <1>4, <3>3, <3>7, <4>3
      <4>4. CASE j > i + 1
        <5>1. j - 1 \in 1 .. Len(s) /\ j - 1 < k - 1
          BY ONLY <1>1, <1>2, <3>1, <4>4
        <5>2. r[j] = s[j - 1]
          BY ONLY <1>6, <3>1, <4>4
        <5>3. s[j - 1].position + s[j - 1].size <= s[k - 1].position
          BY ONLY <1>8, <3>3, <3>7, <5>1
        <5>4. QED
          BY ONLY <3>3, <3>7, <5>2, <5>3
      <4>5. j < i \/ j = i \/ j = i + 1 \/ j > i + 1
        BY ONLY <1>1, <1>2, <3>1
      <4>6. QED
        BY ONLY <4>1, <4>2, <4>3, <4>4, <4>5
    <3>8. k < i \/ k = i \/ k = i + 1 \/ k > i + 1
      BY ONLY <1>1, <1>2, <3>1
    <3>9. QED
      BY ONLY <3>4, <3>5, <3>6, <3>7, <3>8
  <2>2. QED
    BY ONLY <1>1, <1>3, <2>1 DEF Ordered
<1>13. Sizes(r)
  <2>1. ASSUME NEW k \in 1 .. Len(s) + 1 PROVE r[k].size \in PowersOfTwo
    <3>1. k \in 1 .. Len(s) + 1
      OBVIOUS
    <3>2. CASE k < i
      <4>1. k \in 1 .. Len(s) /\ r[k] = s[k]
        BY ONLY <1>1, <1>2, <1>5, <3>1, <3>2
      <4>2. QED
        BY ONLY <1>9, <4>1
    <3>3. CASE k = i \/ k = i + 1
      BY ONLY <1>4, <1>10, <3>3
    <3>4. CASE k > i + 1
      <4>1. k - 1 \in 1 .. Len(s) /\ r[k] = s[k - 1]
        BY ONLY <1>1, <1>2, <1>6, <3>1, <3>4
      <4>2. QED
        BY ONLY <1>9, <4>1
    <3>5. k < i \/ k = i \/ k = i + 1 \/ k > i + 1
      BY ONLY <1>1, <1>2, <3>1
    <3>6. QED
      BY ONLY <3>2, <3>3, <3>4, <3>5
  <2>2. QED
    BY ONLY <1>1, <1>3, <2>1 DEF Sizes
<1>14. QED
  BY <1>11, <1>12, <1>13

\* Two partitions of a good list do not start at one position.
LEMMA DistinctPositions ==
    ASSUME NEW s \in Seq(Partition), Ordered(s), Sizes(s),
           NEW i \in DOMAIN s, NEW j \in DOMAIN s, i < j
    PROVE  s[i].position < s[j].position
<1>1. s[i].position + s[i].size <= s[j].position
  BY DEF Ordered
<1>2. s[i].size \in PowersOfTwo
  BY DEF Sizes
<1>3. s[i].size > 0 /\ s[i].position \in Nat /\ s[i].size \in Nat /\ s[j].position \in Nat
  BY <1>2, ListProperties, PowersArePositive
<1>4. QED
  BY <1>1, <1>3

\* The partition that starts where another ends is the next of the list.
LEMMA NextInList ==
    ASSUME NEW s \in Seq(Partition),
           Tiles(s, TAMANO_MEMORIA), Ordered(s), Sizes(s),
           NEW i \in DOMAIN s, NEW j \in DOMAIN s,
           s[j].position = s[i].position + s[i].size
    PROVE  j = i + 1
<1>1. /\ DOMAIN s = 1 .. Len(s) /\ Len(s) \in Nat
      /\ \A k \in 1 .. Len(s) : s[k].position \in Nat /\ s[k].size \in Nat
  BY ListProperties
<1>2. s[j].size \in PowersOfTwo /\ s[i].size \in PowersOfTwo
  BY DEF Sizes
<1>3. s[j].size > 0 /\ s[i].size > 0
  BY <1>2, PowersArePositive
<1>4. i # Len(s)
  <2>1. s[j].position + s[j].size <= TAMANO_MEMORIA
    BY EndsInside
  <2>2. SUFFICES ASSUME i = Len(s) PROVE FALSE
    OBVIOUS
  <2>3. s[i].position + s[i].size = TAMANO_MEMORIA
    BY <2>2 DEF Tiles
  <2>4. s[j].position \in Nat /\ s[j].size \in Nat
    BY <1>1
  <2>5. QED
    BY <1>3, <2>1, <2>3, <2>4
<1>5. i + 1 \in DOMAIN s /\ i \in 1 .. Len(s) - 1
  BY <1>1, <1>4
<1>6. s[i + 1].position = s[j].position
  BY <1>5 DEF Tiles
<1>7. CASE j < i + 1
  <2>1. s[j].position < s[i + 1].position
    BY <1>5, <1>7, DistinctPositions
  <2>2. QED
    BY <1>1, <1>6, <2>1
<1>8. CASE i + 1 < j
  <2>1. s[i + 1].position < s[j].position
    BY <1>5, <1>8, DistinctPositions
  <2>2. QED
    BY <1>1, <1>6, <2>1
<1>9. QED
  BY <1>1, <1>5, <1>7, <1>8

(***************************************************************************)
(* The list after one of two neighbours has absorbed the other: merged is  *)
(* at a and remove_partition_at searches for the position b had.           *)
(***************************************************************************)
LEMMA AbsorbProperties ==
    ASSUME NEW s \in Seq(Partition),
           Tiles(s, TAMANO_MEMORIA), Ordered(s), Sizes(s),
           NEW i \in 1 .. Len(s) - 1, s[i].size = s[i + 1].size,
           NEW a \in {i, i + 1}, NEW b \in {i, i + 1}, a # b,
           NEW m \in Partition,
           m.position = s[i].position, m.size = 2 * s[i].size
    PROVE  LET r == remove_partition_at([s EXCEPT ![a] = m], s[b].position)
           IN  /\ r \in Seq(Partition)
               /\ Len(r) = Len(s) - 1
               /\ r[i] = m
               /\ Tiles(r, TAMANO_MEMORIA) /\ Ordered(r) /\ Sizes(r)
               /\ OthersCome(r, s, {i}, {i, i + 1})
<1> DEFINE t == [s EXCEPT ![a] = m]
           r == RemoveAt(t, b)
<1>1. /\ DOMAIN s = 1 .. Len(s) /\ Len(s) \in Nat
      /\ \A k \in 1 .. Len(s) : s[k].position \in Nat /\ s[k].size \in Nat
  BY ListProperties
<1>2. /\ i \in DOMAIN s /\ i + 1 \in DOMAIN s
      /\ a \in 1 .. Len(s) /\ b \in 1 .. Len(s)
  BY <1>1
<1>3. /\ t \in Seq(Partition) /\ Len(t) = Len(s)
      /\ \A k \in 1 .. Len(s) : t[k] = IF k = a THEN m ELSE s[k]
  BY <1>2, ExceptSeq
<1>4. DOMAIN t = 1 .. Len(t)
  BY <1>3, ListProperties
<1> HIDE DEF t
<1>5. t[b] = s[b]
  BY <1>2, <1>3
<1>6. ASSUME NEW k \in DOMAIN t, t[k].position = t[b].position PROVE b <= k
  <2>1. SUFFICES ASSUME k < b PROVE FALSE
    BY <1>1, <1>2, <1>3, <1>4
  <2>2. k \in DOMAIN s /\ b \in DOMAIN s
    BY <1>1, <1>2, <1>3, <1>4
  <2>3. s[k].position < s[b].position
    BY <2>1, <2>2, DistinctPositions
  <2>4. t[k].position = s[k].position
    <3>1. CASE k = a
      <4>1. a = i
        BY <1>1, <2>1, <3>1
      <4>2. QED
        BY <1>1, <1>3, <2>2, <3>1, <4>1
    <3>2. CASE k # a
      BY <1>1, <1>3, <2>2, <3>2
    <3>3. QED
      BY <3>1, <3>2
  <2>5. QED
    BY <1>1, <1>5, <1>6, <2>2, <2>3, <2>4
<1>7. remove_partition_at(t, s[b].position) = r
  <2>1. b \in DOMAIN t /\ Len(t) \in Nat
    BY <1>1, <1>2, <1>3, <1>4
  <2>2. _list_find_index(t, t[b].position) = b
    BY <1>4, <1>6, <2>1, FindIndexProperties
  <2>3. QED
    BY <1>5, <2>1, <2>2 DEF remove_partition_at
<1>8. /\ r \in Seq(Partition)
      /\ Len(r) = Len(s) - 1
      /\ \A k \in 1 .. Len(s) - 1 : r[k] = IF k < b THEN t[k] ELSE t[k + 1]
  <2>1. b \in 1 .. Len(t)
    BY <1>2, <1>3
  <2>2. /\ r \in Seq(Partition)
        /\ Len(r) = Len(t) - 1
        /\ \A k \in 1 .. Len(t) - 1 : r[k] = IF k < b THEN t[k] ELSE t[k + 1]
    BY <1>3, <2>1, RemoveAtProperties
  <2> HIDE DEF r
  <2>3. QED
    BY <1>3, <2>2
<1> HIDE DEF r
<1>9. r[i] = m
  <2>1. CASE a = i
    BY <1>1, <1>2, <1>3, <1>8, <2>1
  <2>2. CASE a = i + 1
    <3>1. b = i
      BY <2>2
    <3>2. r[i] = t[i + 1]
      <4>1. ~(i < b)
        BY <1>1, <3>1
      <4>2. QED
        BY <1>8, <4>1
    <3>3. QED
      BY <1>1, <1>2, <1>3, <2>2, <3>2
  <2>3. QED
    BY <2>1, <2>2
<1>10. ASSUME NEW k \in 1 .. Len(s) - 1, k < i PROVE r[k] = s[k]
  <2>1. k < b /\ k # a /\ k \in 1 .. Len(s)
    BY <1>1, <1>10
  <2>2. QED
    BY <1>3, <1>8, <2>1
<1>11. ASSUME NEW k \in 1 .. Len(s) - 1, k > i PROVE r[k] = s[k + 1]
  <2>1. ~(k < b) /\ k + 1 # a /\ k + 1 \in 1 .. Len(s)
    BY <1>1, <1>11
  <2>2. QED
    BY <1>3, <1>8, <2>1
<1>12. Tiles(r, TAMANO_MEMORIA) /\ Ordered(r) /\ Sizes(r)
  BY <1>8, <1>9, <1>10, <1>11, MergedLayout
<1>13. DOMAIN r = 1 .. Len(s) - 1
  BY <1>8, ListProperties
<1>14. ASSUME NEW k \in DOMAIN r, k # i
       PROVE  \E j \in DOMAIN s : j # i /\ j # i + 1 /\ r[k] = s[j]
  <2>1. CASE k < i
    <3>1. k \in DOMAIN s /\ k # i + 1 /\ r[k] = s[k]
      BY <1>1, <1>10, <1>13, <2>1
    <3>2. QED
      BY <1>14, <3>1
  <2>2. CASE k > i
    <3>1. k + 1 \in DOMAIN s /\ k + 1 # i /\ k + 1 # i + 1 /\ r[k] = s[k + 1]
      BY <1>1, <1>11, <1>13, <2>2
    <3>2. QED
      BY <3>1
  <2>3. QED
    BY <1>1, <1>13, <1>14, <2>1, <2>2
<1>15. OthersCome(r, s, {i}, {i, i + 1})
  BY <1>14 DEF OthersCome
<1>16. QED
  BY <1>7, <1>8, <1>9, <1>12, <1>15 DEF t

(***************************************************************************)
(* The list after partition i was halved: e is what is left of it and the  *)
(* right half follows.                                                     *)
(***************************************************************************)
LEMMA HalveProperties ==
    ASSUME NEW s \in Seq(Partition),
           Tiles(s, TAMANO_MEMORIA), Ordered(s), Sizes(s),
           NEW i \in DOMAIN s, NEW half \in PowersOfTwo, s[i].size = half + half,
           NEW e \in Partition, e.position = s[i].position, e.size = half,
           NEW right \in Partition,
           right.position = s[i].position + half, right.size = half
    PROVE  LET r == add_partition_next_to([s EXCEPT ![i] = e], s[i].position, right)
           IN  /\ r \in Seq(Partition)
               /\ Len(r) = Len(s) + 1
               /\ r[i] = e /\ r[i + 1] = right
               /\ Tiles(r, TAMANO_MEMORIA) /\ Ordered(r) /\ Sizes(r)
               /\ OthersCome(r, s, {i, i + 1}, {i})
<1> DEFINE t == [s EXCEPT ![i] = e]
           r == InsertAt(t, i + 1, right)
<1>1. /\ DOMAIN s = 1 .. Len(s) /\ Len(s) \in Nat
      /\ \A k \in 1 .. Len(s) : s[k].position \in Nat /\ s[k].size \in Nat
  BY ListProperties
<1>2. /\ t \in Seq(Partition) /\ Len(t) = Len(s)
      /\ \A k \in 1 .. Len(s) : t[k] = IF k = i THEN e ELSE s[k]
  BY <1>1, ExceptSeq
<1>3. DOMAIN t = 1 .. Len(t)
  BY <1>2, ListProperties
<1> HIDE DEF t
<1>4. ASSUME NEW k \in DOMAIN t, t[k].position = t[i].position PROVE i <= k
  <2>1. SUFFICES ASSUME k < i PROVE FALSE
    BY <1>1, <1>2, <1>3
  <2>2. k \in DOMAIN s
    BY <1>1, <1>2, <1>3
  <2>3. s[k].position < s[i].position
    BY <2>1, <2>2, DistinctPositions
  <2>4. QED
    BY <1>1, <1>2, <1>4, <2>1, <2>2, <2>3
<1>5. add_partition_next_to(t, s[i].position, right) = r
  <2>1. i \in DOMAIN t /\ Len(t) \in Nat /\ t[i].position = s[i].position
    BY <1>1, <1>2, <1>3
  <2>2. _list_find_index(t, t[i].position) = i
    BY <1>3, <1>4, <2>1, FindIndexProperties
  <2>3. QED
    BY <2>1, <2>2 DEF add_partition_next_to
<1>6. /\ r \in Seq(Partition)
      /\ Len(r) = Len(s) + 1
      /\ r[i + 1] = right
      /\ \A k \in 1 .. Len(s) : k < i + 1 => r[k] = t[k]
      /\ \A k \in 1 .. Len(s) : k >= i + 1 => r[k + 1] = t[k]
  <2>1. i + 1 \in 1 .. Len(t) + 1
    BY <1>1, <1>2
  <2>2. t \in Seq(Partition)
    BY <1>2
  <2>3. r \in Seq(Partition) /\ Len(r) = Len(t) + 1
    BY ONLY <2>1, <2>2, InsertAtProperties
  <2>4. r[i + 1] = right
    BY ONLY <2>1, <2>2, InsertAtProperties
  <2>5. \A k \in 1 .. Len(t) : k < i + 1 => r[k] = t[k]
    BY ONLY <2>1, <2>2, InsertAtProperties
  <2>6. \A k \in 1 .. Len(t) : k >= i + 1 => r[k + 1] = t[k]
    BY ONLY <2>1, <2>2, InsertAtMoves
  <2> HIDE DEF r
  <2>7. QED
    BY <1>2, <2>3, <2>4, <2>5, <2>6
<1> HIDE DEF r
<1>7. r[i] = e /\ r[i + 1] = right
  <2>1. i \in 1 .. Len(s) /\ i < i + 1
    BY <1>1
  <2>2. r[i] = t[i] /\ t[i] = e
    BY ONLY <1>2, <1>6, <2>1
  <2>3. QED
    BY <1>6, <2>2
<1>8. ASSUME NEW k \in 1 .. Len(s) + 1, k < i PROVE r[k] = s[k]
  <2>1. k < i + 1 /\ k # i /\ k \in 1 .. Len(s)
    BY <1>1, <1>8
  <2>2. QED
    BY <1>2, <1>6, <2>1
<1>9. ASSUME NEW k \in 1 .. Len(s) + 1, k > i + 1 PROVE r[k] = s[k - 1]
  <2>1. k - 1 >= i + 1 /\ k - 1 # i /\ k - 1 \in 1 .. Len(s) /\ (k - 1) + 1 = k
    BY <1>1, <1>9
  <2>2. QED
    BY <1>2, <1>6, <2>1
<1>10. Tiles(r, TAMANO_MEMORIA) /\ Ordered(r) /\ Sizes(r)
  BY <1>6, <1>7, <1>8, <1>9, SplitLayout
<1>11. DOMAIN r = 1 .. Len(s) + 1
  BY <1>6, ListProperties
<1>12. ASSUME NEW k \in DOMAIN r, k # i, k # i + 1
       PROVE  \E j \in DOMAIN s : j # i /\ r[k] = s[j]
  <2>1. CASE k < i
    <3>1. k \in DOMAIN s /\ r[k] = s[k]
      BY <1>1, <1>8, <1>11, <2>1
    <3>2. QED
      BY <1>12, <3>1
  <2>2. CASE k > i + 1
    <3>1. k - 1 \in DOMAIN s /\ k - 1 # i /\ r[k] = s[k - 1]
      BY <1>1, <1>9, <1>11, <2>2
    <3>2. QED
      BY <3>1
  <2>3. QED
    BY <1>1, <1>11, <1>12, <2>1, <2>2
<1>13. OthersCome(r, s, {i, i + 1}, {i})
  BY <1>12 DEF OthersCome
<1>14. QED
  BY <1>5, <1>6, <1>7, <1>10, <1>13 DEF t

-----------------------------------------------------------------------------

LEMMA InitBuddyInv == Init => BuddyInv
<1> SUFFICES ASSUME Init PROVE BuddyInv
  OBVIOUS
<1> DEFINE p == create_partition(0, TAMANO_MEMORIA)
<1>1. TAMANO_MEMORIA \in PowersOfTwo /\ TAMANO_MEMORIA \in Nat
  BY BuddyAssumption
<1>2. p \in Partition /\ p.position = 0 /\ p.size = TAMANO_MEMORIA
  BY <1>1, CreateProperties
<1> HIDE DEF p
<1>3. partitions = <<p>>
  BY DEF Init, p
<1>4. partitions \in Seq(Partition) /\ Len(partitions) = 1 /\ partitions[1] = p
  BY <1>2, <1>3
<1>5. DOMAIN partitions = 1 .. 1
  BY <1>4, ListProperties
<1>6. Tiles(partitions, TAMANO_MEMORIA)
  BY <1>1, <1>2, <1>4 DEF Tiles
<1>7. Ordered(partitions) /\ Sizes(partitions)
  BY <1>1, <1>2, <1>4, <1>5 DEF Ordered, Sizes
<1>8. TypeOK
  BY <1>4 DEF Init, TypeOK, Steps, NoRequest
<1>9. Progress
  BY DEF Init, Progress
<1>10. QED
  BY <1>6, <1>7, <1>8, <1>9 DEF BuddyInv, Tiling

(***************************************************************************)
(* A partition that only changes what it holds leaves a good list good.    *)
(***************************************************************************)
LEMMA UpdateProperties ==
    ASSUME NEW s \in Seq(Partition),
           Tiles(s, TAMANO_MEMORIA), Ordered(s), Sizes(s),
           NEW i \in DOMAIN s, NEW e \in Partition,
           e.position = s[i].position, e.size = s[i].size
    PROVE  LET r == [s EXCEPT ![i] = e]
           IN  /\ r \in Seq(Partition) /\ Len(r) = Len(s) /\ r[i] = e
               /\ Tiles(r, TAMANO_MEMORIA) /\ Ordered(r) /\ Sizes(r)
<1> DEFINE r == [s EXCEPT ![i] = e]
<1>1. DOMAIN s = 1 .. Len(s)
  BY ListProperties
<1>2. /\ r \in Seq(Partition) /\ Len(r) = Len(s)
      /\ \A k \in 1 .. Len(s) : r[k] = IF k = i THEN e ELSE s[k]
  BY <1>1, ExceptSeq
<1> HIDE DEF r
<1>3. \A k \in DOMAIN s : r[k].position = s[k].position /\ r[k].size = s[k].size
  BY <1>1, <1>2
<1>4. Tiles(r, TAMANO_MEMORIA) /\ Ordered(r) /\ Sizes(r)
  BY <1>2, <1>3, SameLayout
<1>5. r[i] = e
  BY <1>1, <1>2
<1>6. QED
  BY <1>2, <1>4, <1>5 DEF r

LEMMA MessageSaved ==
    ASSUME BuddyInv, NEW data_size \in DataSizes, SaveMessage(data_size)
    PROVE  BuddyInv'
<1>1. data_size \in Nat /\ TAMANO_MINIMO_PARTICION \in PowersOfTwo
  BY BuddyAssumption
<1>2. PICK power \in next_power_of_2(data_size) :
        request' = [data_size |-> data_size,
                    desired   |-> IF power > TAMANO_MINIMO_PARTICION
                                  THEN power ELSE TAMANO_MINIMO_PARTICION]
  BY DEF SaveMessage
<1>3. power \in PowersOfTwo
  BY DEF next_power_of_2
<1>4. /\ request'.desired \in PowersOfTwo
      /\ request' \in [data_size : Nat, desired : Nat]
  BY <1>1, <1>2, <1>3, PowersArePositive
<1>5. TypeOK'
  BY <1>4 DEF BuddyInv, TypeOK, SaveMessage, Steps
<1>6. Progress'
  BY <1>4 DEF Progress, SaveMessage
<1>7. QED
  BY <1>5, <1>6 DEF BuddyInv, SaveMessage, Tiling

LEMMA PartitionFound == BuddyInv /\ FindPartition => BuddyInv'
<1> SUFFICES ASSUME BuddyInv, FindPartition PROVE BuddyInv'
  OBVIOUS
<1>1. /\ at' \in Free(partitions)
      /\ partitions[at'].size >= request.desired
  BY DEF FindPartition, find_partition, greater_equals_and_free
<1>2. at' \in DOMAIN partitions /\ partitions[at'].free
  BY <1>1 DEF Free
<1>3. DOMAIN partitions = 1 .. Len(partitions)
  BY ListProperties DEF BuddyInv, TypeOK
<1>4. TypeOK'
  BY <1>2, <1>3 DEF BuddyInv, TypeOK, FindPartition, Steps
<1>5. Progress'
  BY <1>1, <1>2 DEF BuddyInv, Progress, FindPartition
<1>6. QED
  BY <1>4, <1>5 DEF BuddyInv, FindPartition, Tiling

LEMMA VictimChosen == BuddyInv /\ ChooseVictim => BuddyInv'
<1> SUFFICES ASSUME BuddyInv, ChooseVictim PROVE BuddyInv'
  OBVIOUS
<1>1. PICK victim \in victims(partitions, config.reemplazo) :
        /\ partitions' = [partitions EXCEPT ![victim] = Released(@)]
        /\ lastVictim' = Stamp(partitions[victim], config.reemplazo)
        /\ at' = victim
  BY DEF ChooseVictim
<1> DEFINE e == Released(partitions[victim])
<1>2. partitions \in Seq(Partition) /\ DOMAIN partitions = 1 .. Len(partitions)
  BY ListProperties DEF BuddyInv, TypeOK
<1>3. victim \in DOMAIN partitions
  BY DEF victims, Occupied
<1>4. partitions[victim] \in Partition
  BY <1>2, <1>3, ListProperties
<1>5. /\ e \in Partition /\ e.free
      /\ e.position = partitions[victim].position
      /\ e.size = partitions[victim].size
  BY <1>4 DEF Released, Partition
<1>6. partitions' = [partitions EXCEPT ![victim] = e]
  BY <1>1
<1> HIDE DEF e
<1>7. /\ partitions' \in Seq(Partition) /\ Len(partitions') = Len(partitions)
      /\ partitions'[victim] = e
      /\ Tiles(partitions', TAMANO_MEMORIA)
      /\ Ordered(partitions') /\ Sizes(partitions')
  BY <1>2, <1>3, <1>5, <1>6, UpdateProperties DEF BuddyInv, Tiling
<1>8. DOMAIN partitions' = 1 .. Len(partitions')
  BY <1>7, ListProperties
<1>9. lastVictim' \in Nat
  BY <1>1, <1>4 DEF Stamp, Partition
<1>10. TypeOK'
  BY <1>1, <1>2, <1>3, <1>7, <1>9 DEF BuddyInv, TypeOK, ChooseVictim, Steps
<1>11. Progress'
  BY <1>1, <1>2, <1>3, <1>5, <1>7, <1>8 DEF BuddyInv, Progress, ChooseVictim
<1>12. QED
  BY <1>7, <1>10, <1>11 DEF BuddyInv, Tiling

LEMMA BuddyAbsorbed ==
    ASSUME BuddyInv, Consolidate
    PROVE  /\ BuddyInv'
           /\ at' \in DOMAIN partitions' /\ partitions'[at'].free
           /\ OthersCome(partitions', partitions, {at'}, {at})
           /\ \E b \in MergeableBuddies(at) :
                 /\ partitions'[at'].size = 2 * partitions[at].size
                 /\ partitions'[at'].position =
                       IF partitions[b].position < partitions[at].position
                       THEN partitions[b].position ELSE partitions[at].position
<1>1. /\ partitions \in Seq(Partition)
      /\ Tiles(partitions, TAMANO_MEMORIA) /\ Ordered(partitions) /\ Sizes(partitions)
      /\ DOMAIN partitions = 1 .. Len(partitions) /\ Len(partitions) \in Nat
      /\ at \in DOMAIN partitions /\ partitions[at].free /\ step = "consolidate"
      /\ partitions[at] \in Partition
  <2>1. partitions \in Seq(Partition) /\ at \in DOMAIN partitions
    BY DEF BuddyInv, TypeOK, Consolidate, Progress
  <2>2. DOMAIN partitions = 1 .. Len(partitions) /\ Len(partitions) \in Nat
    BY <2>1, ListProperties
  <2>3. partitions[at] \in Partition
    BY <2>1, <2>2, ListProperties
  <2>4. QED
    BY <2>1, <2>2, <2>3 DEF BuddyInv, Tiling, Consolidate, Progress
<1> DEFINE m(b) == [partitions[at] EXCEPT
                       !.position = IF partitions[b].position < partitions[at].position
                                    THEN partitions[b].position ELSE @,
                       !.size = 2 * @]
<1>2. PICK b \in MergeableBuddies(at) :
        /\ partitions' = remove_partition_at([partitions EXCEPT ![at] = m(b)],
                                             partitions[b].position)
        /\ at' = IF b < at THEN at - 1 ELSE at
  BY DEF Consolidate
<1>3. /\ b \in DOMAIN partitions
      /\ partitions[b].size = partitions[at].size
      /\ \/ partitions[b].position = partitions[at].position + partitions[at].size
         \/ partitions[b].position = partitions[at].position - partitions[at].size
  BY DEF MergeableBuddies, Free, _buddy_position
<1>4. /\ partitions[at].position \in Nat /\ partitions[at].size \in Nat
      /\ partitions[b].position \in Nat /\ partitions[b].size \in Nat
      /\ partitions[at].size > 0
  <2>1. partitions[at].size \in PowersOfTwo
    BY <1>1 DEF Sizes
  <2>2. QED
    BY <1>1, <1>3, <2>1, ListProperties, PowersArePositive
<1> DEFINE i == IF partitions[b].position < partitions[at].position THEN b ELSE at
<1>5. /\ i \in 1 .. Len(partitions) - 1
      /\ at \in {i, i + 1} /\ b \in {i, i + 1} /\ at # b
      /\ partitions[i].size = partitions[i + 1].size
      /\ m(b).position = partitions[i].position
      /\ m(b).size = 2 * partitions[i].size
      /\ m(b).size = 2 * partitions[at].size
      /\ m(b).position = IF partitions[b].position < partitions[at].position
                         THEN partitions[b].position ELSE partitions[at].position
      /\ m(b) \in Partition /\ m(b).free
      /\ at' = i
  <2>1. m(b) \in Partition /\ m(b).free /\ m(b).size = 2 * partitions[at].size
    <3> DEFINE position == IF partitions[b].position < partitions[at].position
                           THEN partitions[b].position ELSE partitions[at].position
               size     == 2 * partitions[at].size
    <3>1. position \in Nat /\ size \in Nat
      BY <1>4
    <3>2. m(b) = [partitions[at] EXCEPT !.position = position, !.size = size]
      OBVIOUS
    <3> HIDE DEF position, size, m
    <3>3. m(b) \in Partition /\ m(b).free /\ m(b).size = size
      BY <1>1, <3>1, <3>2 DEF Partition
    <3>4. QED
      BY <3>3 DEF size
  <2>2. CASE partitions[b].position = partitions[at].position + partitions[at].size
    <3>1. b = at + 1
      BY <1>1, <1>3, <2>2, NextInList
    <3>2. ~(partitions[b].position < partitions[at].position)
      BY <1>4, <2>2
    <3>3. i = at /\ m(b).position = partitions[at].position
      BY <1>1, <3>2 DEF Partition
    <3>4. at' = at
      BY <1>1, <1>2, <3>1
    <3>5. QED
      BY <1>1, <1>3, <2>1, <3>1, <3>2, <3>3, <3>4
  <2>3. CASE partitions[b].position = partitions[at].position - partitions[at].size
    <3>1. partitions[at].position = partitions[b].position + partitions[b].size
      BY <1>3, <1>4, <2>3
    <3>2. at = b + 1
      BY <1>1, <1>3, <3>1, NextInList
    <3>3. partitions[b].position < partitions[at].position
      BY <1>4, <2>3
    <3>4. i = b /\ m(b).position = partitions[b].position
      BY <1>1, <3>3 DEF Partition
    <3>5. at' = b
      BY <1>1, <1>2, <1>3, <3>2
    <3>6. QED
      BY <1>1, <1>3, <2>1, <3>2, <3>3, <3>4, <3>5
  <2>4. QED
    BY <1>3, <2>2, <2>3
<1> HIDE DEF i, m
<1>6. /\ partitions' \in Seq(Partition)
      /\ Len(partitions') = Len(partitions) - 1
      /\ partitions'[i] = m(b)
      /\ Tiles(partitions', TAMANO_MEMORIA)
      /\ Ordered(partitions') /\ Sizes(partitions')
      /\ OthersCome(partitions', partitions, {i}, {i, i + 1})
  <2> DEFINE merged == m(b)
             r == remove_partition_at([partitions EXCEPT ![at] = merged],
                                      partitions[b].position)
  <2>1. /\ merged \in Partition /\ merged.position = partitions[i].position
        /\ merged.size = 2 * partitions[i].size
    BY <1>5
  <2>2. partitions' = r
    BY <1>2
  <2> HIDE DEF merged
  <2>3. /\ r \in Seq(Partition)
        /\ Len(r) = Len(partitions) - 1
        /\ r[i] = merged
        /\ Tiles(r, TAMANO_MEMORIA) /\ Ordered(r) /\ Sizes(r)
        /\ OthersCome(r, partitions, {i}, {i, i + 1})
    <3>1. /\ partitions \in Seq(Partition)
          /\ Tiles(partitions, TAMANO_MEMORIA)
          /\ Ordered(partitions) /\ Sizes(partitions)
      BY <1>1
    <3>2. /\ i \in 1 .. Len(partitions) - 1
          /\ partitions[i].size = partitions[i + 1].size
          /\ at \in {i, i + 1} /\ b \in {i, i + 1} /\ at # b
      BY <1>5
    <3>3. QED
      BY ONLY <2>1, <3>1, <3>2, AbsorbProperties, ZenonT(60)
  <2>4. r[i] = m(b)
    BY ONLY <2>3 DEF merged
  <2>5. QED
    BY ONLY <2>2, <2>3, <2>4
<1>7. at' \in DOMAIN partitions' /\ partitions'[at'].free /\ at' \in 1 .. Len(partitions')
  BY <1>1, <1>5, <1>6, ListProperties
<1>8. TypeOK'
  <2>1. at' \in 0 .. Len(partitions')
    BY <1>1, <1>6, <1>7
  <2>2. UNCHANGED <<config, TIME, step, request, lastVictim>>
    BY DEF Consolidate
  <2>3. QED
    BY <1>6, <2>1, <2>2 DEF BuddyInv, TypeOK
<1>9. Progress'
  BY <1>1, <1>7 DEF BuddyInv, Progress, Consolidate
<1>10. BuddyInv'
  BY <1>6, <1>8, <1>9 DEF BuddyInv, Tiling
<1>11. OthersCome(partitions', partitions, {at'}, {at})
  BY <1>5, <1>6 DEF OthersCome
<1>12. /\ partitions'[at'].size = 2 * partitions[at].size
       /\ partitions'[at'].position =
             IF partitions[b].position < partitions[at].position
             THEN partitions[b].position ELSE partitions[at].position
  BY <1>5, <1>6
<1>13. QED
  BY <1>2, <1>7, <1>10, <1>11, <1>12

LEMMA BuddyBroken ==
    ASSUME BuddyInv, BreakBuddys
    PROVE  /\ BuddyInv'
           /\ OthersCome(partitions', partitions, {at, at + 1}, {at})
           /\ \E half \in PowersOfTwo :
                 /\ partitions[at].size = half + half
                 /\ partitions'[at].free /\ partitions'[at].size = half
                 /\ partitions'[at].position = partitions[at].position
                 /\ at + 1 \in DOMAIN partitions'
                 /\ partitions'[at + 1].free /\ partitions'[at + 1].size = half
                 /\ partitions'[at + 1].position = partitions[at].position + half
<1>1. /\ partitions \in Seq(Partition)
      /\ Tiles(partitions, TAMANO_MEMORIA) /\ Ordered(partitions) /\ Sizes(partitions)
      /\ at \in DOMAIN partitions /\ partitions[at].free /\ step = "break"
      /\ partitions[at].size >= request.desired
      /\ partitions[at].size # request.desired
      /\ request.desired \in PowersOfTwo
  BY DEF BuddyInv, TypeOK, Tiling, BreakBuddys, Progress
<1>2. /\ DOMAIN partitions = 1 .. Len(partitions) /\ Len(partitions) \in Nat
      /\ partitions[at] \in Partition
      /\ partitions[at].position \in Nat
  BY <1>1, ListProperties
<1> DEFINE half  == partitions[at].size \div 2
           e     == [partitions[at] EXCEPT !.size = half]
           right == create_partition(partitions[at].position + half, half)
<1>3. /\ half \in PowersOfTwo /\ half \in Nat
      /\ partitions[at].size = half + half
      /\ request.desired <= half
  <2>1. partitions[at].size \in PowersOfTwo
    BY <1>1 DEF Sizes
  <2>2. request.desired <= partitions[at].size
    BY <1>1, <2>1, PowersArePositive
  <2>3. QED
    BY <1>1, <2>1, <2>2, HalfProperties, PowersArePositive
<1>4. partitions' = add_partition_next_to([partitions EXCEPT ![at] = e],
                                          partitions[at].position, right)
  BY DEF BreakBuddys
<1>5. /\ e \in Partition /\ e.free /\ e.size = half
      /\ e.position = partitions[at].position
  <2> HIDE DEF half
  <2>1. QED
    BY <1>1, <1>2, <1>3 DEF Partition
<1>6. /\ right \in Partition /\ right.size = half /\ right.free
      /\ right.position = partitions[at].position + half
  <2>1. partitions[at].position + half \in Nat
    BY <1>2, <1>3
  <2>2. QED
    BY <1>3, <2>1, CreateProperties
<1> HIDE DEF half, e, right
<1>7. /\ partitions' \in Seq(Partition)
      /\ Len(partitions') = Len(partitions) + 1
      /\ partitions'[at] = e /\ partitions'[at + 1] = right
      /\ Tiles(partitions', TAMANO_MEMORIA)
      /\ Ordered(partitions') /\ Sizes(partitions')
      /\ OthersCome(partitions', partitions, {at, at + 1}, {at})
  <2> DEFINE r == add_partition_next_to([partitions EXCEPT ![at] = e],
                                        partitions[at].position, right)
  <2>1. /\ r \in Seq(Partition)
        /\ Len(r) = Len(partitions) + 1
        /\ r[at] = e /\ r[at + 1] = right
        /\ Tiles(r, TAMANO_MEMORIA) /\ Ordered(r) /\ Sizes(r)
        /\ OthersCome(r, partitions, {at, at + 1}, {at})
    BY ONLY <1>1, <1>3, <1>5, <1>6, HalveProperties, ZenonT(60)
  <2>2. QED
    BY <1>4, <2>1
<1>8. at \in DOMAIN partitions' /\ at \in 0 .. Len(partitions')
  BY <1>1, <1>2, <1>7, ListProperties
<1>9. TypeOK'
  BY <1>7, <1>8 DEF BuddyInv, TypeOK, BreakBuddys
<1>10. half >= request.desired
  BY <1>1, <1>3, PowersArePositive
<1>11. Progress'
  BY <1>1, <1>5, <1>7, <1>8, <1>10 DEF BreakBuddys, Progress
<1>12. BuddyInv'
  BY <1>7, <1>9, <1>11 DEF BuddyInv, Tiling
<1>13. at + 1 \in DOMAIN partitions'
  BY <1>1, <1>2, <1>7, ListProperties
<1>14. QED
  BY <1>3, <1>5, <1>6, <1>7, <1>12, <1>13

LEMMA MessagePlaced == BuddyInv /\ Occupy => BuddyInv'
<1> SUFFICES ASSUME BuddyInv, Occupy PROVE BuddyInv'
  OBVIOUS
<1> DEFINE e == Filled(partitions[at], request.data_size, TIME + 1)
<1>1. /\ partitions \in Seq(Partition) /\ at \in DOMAIN partitions
      /\ request.data_size \in Nat /\ TIME + 1 \in Nat
  BY DEF BuddyInv, TypeOK, Occupy, Progress
<1>2. partitions[at] \in Partition
  BY <1>1, ListProperties
<1>3. /\ e \in Partition
      /\ e.position = partitions[at].position
      /\ e.size = partitions[at].size
  BY <1>1, <1>2 DEF Filled, Partition
<1>4. partitions' = [partitions EXCEPT ![at] = e]
  BY DEF Occupy
<1> HIDE DEF e
<1>5. /\ partitions' \in Seq(Partition) /\ Len(partitions') = Len(partitions)
      /\ Tiles(partitions', TAMANO_MEMORIA)
      /\ Ordered(partitions') /\ Sizes(partitions')
  <2>1. Tiles(partitions, TAMANO_MEMORIA) /\ Ordered(partitions) /\ Sizes(partitions)
    BY DEF BuddyInv, Tiling
  <2> DEFINE r == [partitions EXCEPT ![at] = e]
  <2>2. /\ r \in Seq(Partition) /\ Len(r) = Len(partitions)
        /\ Tiles(r, TAMANO_MEMORIA) /\ Ordered(r) /\ Sizes(r)
    BY ONLY <1>1, <1>3, <2>1, UpdateProperties
  <2>3. QED
    BY <1>4, <2>2
<1>6. Len(partitions') \in Nat
  BY <1>5, ListProperties
<1>7. TypeOK'
  BY <1>1, <1>5, <1>6 DEF BuddyInv, TypeOK, Occupy, Steps, NoRequest
<1>8. Progress'
  BY DEF Occupy, Progress
<1>9. QED
  BY <1>5, <1>7, <1>8 DEF BuddyInv, Tiling

LEMMA MessagesReplayed ==
    ASSUME BuddyInv, NEW replayed \in SUBSET Occupied(partitions), Replay(replayed)
    PROVE  BuddyInv'
<1>1. partitions \in Seq(Partition) /\ TIME + 1 \in Nat
  BY DEF BuddyInv, TypeOK
<1>2. /\ DOMAIN partitions = 1 .. Len(partitions) /\ Len(partitions) \in Nat
      /\ \A k \in 1 .. Len(partitions) : partitions[k] \in Partition
  BY <1>1, ListProperties
<1>3. partitions' = [k \in 1 .. Len(partitions) |->
                        IF k \in replayed
                        THEN [partitions[k] EXCEPT !.access_time = TIME + 1]
                        ELSE partitions[k]]
  BY <1>2 DEF Replay, Accessed
<1>4. ASSUME NEW k \in 1 .. Len(partitions)
      PROVE  /\ partitions'[k] \in Partition
             /\ partitions'[k].position = partitions[k].position
             /\ partitions'[k].size = partitions[k].size
  <2>1. partitions[k] \in Partition
    BY <1>2
  <2>2. CASE k \in replayed
    <3>1. partitions'[k] = [partitions[k] EXCEPT !.access_time = TIME + 1]
      BY <1>3, <2>2
    <3>2. QED
      BY <1>1, <2>1, <3>1 DEF Partition
  <2>3. CASE k \notin replayed
    BY <1>3, <2>1, <2>3
  <2>4. QED
    BY <2>2, <2>3
<1>5. partitions' \in Seq(Partition) /\ Len(partitions') = Len(partitions)
  <2>1. partitions' \in [1 .. Len(partitions) -> Partition]
    <3>1. /\ DOMAIN partitions' = 1 .. Len(partitions)
          /\ partitions' = [k \in 1 .. Len(partitions) |-> partitions'[k]]
      BY <1>3
    <3>2. QED
      BY <1>4, <3>1
  <2>2. partitions' \in Seq(Partition)
    BY <1>2, <2>1, IsASeq
  <2>3. QED
    BY <1>2, <2>1, <2>2, LenProperties
<1>6. /\ Tiles(partitions', TAMANO_MEMORIA)
      /\ Ordered(partitions') /\ Sizes(partitions')
  BY <1>1, <1>2, <1>4, <1>5, SameLayout DEF BuddyInv, Tiling
<1>7. TypeOK'
  BY <1>1, <1>5 DEF BuddyInv, TypeOK, Replay
<1>8. Progress'
  BY DEF Replay, Progress
<1>9. QED
  BY <1>6, <1>7, <1>8 DEF BuddyInv, Tiling

LEMMA StepBuddyInv == BuddyInv /\ [Next]_vars => BuddyInv'
<1> SUFFICES ASSUME BuddyInv, [Next]_vars PROVE BuddyInv'
  OBVIOUS
<1>1. CASE UNCHANGED vars
  BY <1>1 DEF vars, BuddyInv, TypeOK, Tiling, Progress
<1>2. CASE ChooseVictimOfNone
  <2>1. TypeOK' /\ Progress'
    BY <1>2 DEF BuddyInv, TypeOK, Progress, ChooseVictimOfNone, Steps
  <2>2. QED
    BY <1>2, <2>1 DEF BuddyInv, Tiling, ChooseVictimOfNone
<1>3. CASE Consolidated
  <2>1. at' \in 0 .. Len(partitions) /\ partitions' = partitions
    BY <1>3, ListProperties DEF BuddyInv, TypeOK, Consolidated
  <2>2. TypeOK' /\ Progress'
    BY <1>3, <2>1 DEF BuddyInv, TypeOK, Progress, Consolidated, Steps
  <2>3. QED
    BY <1>3, <2>2 DEF BuddyInv, Tiling, Consolidated
<1>4. CASE Stopped
  BY <1>1, <1>4 DEF Stopped
<1>5. QED
  BY <1>1, <1>2, <1>3, <1>4, MessageSaved, PartitionFound, VictimChosen,
     BuddyAbsorbed, BuddyBroken, MessagePlaced, MessagesReplayed DEF Next, SaveStep

LEMMA BuddyInvHolds == Spec => []BuddyInv
  BY InitBuddyInv, StepBuddyInv, PTL DEF Spec

(***************************************************************************)
(* Every partition keeps a position, a size and times its C types hold,    *)
(* and a save's partition is always one of the list (buddy.c:16-118).      *)
(***************************************************************************)
THEOREM TypeCorrect == Spec => []TypeOK
<1>1. BuddyInv => TypeOK
  BY DEF BuddyInv
<1>2. QED
  BY <1>1, BuddyInvHolds, PTL

(***************************************************************************)
(* At every turn of the loops of buddy.c, the partitions divide the whole  *)
(* cache among themselves: no byte is lost and none is in two of them.     *)
(***************************************************************************)
THEOREM MemoryIsTiled == Spec => []Tiling
<1>1. BuddyInv => Tiling
  BY DEF BuddyInv
<1>2. QED
  BY <1>1, BuddyInvHolds, PTL

-----------------------------------------------------------------------------
(***************************************************************************)
(* The partitions are the buddies they should be, and victims leave in the *)
(* order of their stamps. FullInv adds to BuddyInv where partitions start  *)
(* and what the occupied ones hold (AllPlaced), that the only free         *)
(* partition that may have a free buddy is the one the save works on       *)
(* (Apart), and what the save asked for (RequestInv).                      *)
(***************************************************************************)

\* What a division with rest gives.
LEMMA Divided ==
    ASSUME NEW x \in Nat, NEW s \in Nat, s > 0
    PROVE  /\ x \div s \in Nat /\ x % s \in Nat /\ x % s < s
           /\ x = (x \div s) * s + (x % s)
<1>1. x % s \in 0 .. s - 1
  BY SMT
<1>2. x = s * (x \div s) + (x % s)
  BY SMT
<1>3. x \div s \in Int
  BY SMT
<1>4. x \div s \in Nat
  BY SMT
<1>5. s * (x \div s) = (x \div s) * s
  BY <1>3
<1>6. QED
  BY <1>1, <1>2, <1>4, <1>5

\* A multiple of s divided by s.
LEMMA Multiple ==
    ASSUME NEW k \in Nat, NEW s \in Nat, s > 0
    PROVE  (k * s) \div s = k /\ (k * s) % s = 0
<1> DEFINE q == (k * s) \div s
           r == (k * s) % s
<1>1. k * s \in Nat
  OBVIOUS
<1>2. q \in Nat /\ r \in Nat /\ r < s /\ k * s = q * s + r
  BY <1>1, Divided
<1> HIDE DEF q, r
<1>3. (k - q) * s = r
  BY <1>2
<1>4. CASE k > q
  <2>1. PICK d \in Nat : d = k - q - 1
    BY <1>2, <1>4
  <2>2. (k - q) * s = d * s + s /\ d * s \in Nat
    BY <1>2, <2>1
  <2>3. QED
    BY <1>2, <1>3, <2>2
<1>5. CASE k < q
  <2>1. PICK d \in Nat : d = q - k - 1
    BY <1>2, <1>5
  <2>2. (q - k) * s = d * s + s /\ d * s \in Nat
    BY <1>2, <2>1
  <2>3. q * s = k * s + (q - k) * s
    BY <1>2
  <2>4. QED
    BY <1>1, <1>2, <2>2, <2>3
<1>6. k = q
  BY <1>2, <1>4, <1>5
<1>7. r = 0
  BY <1>2, <1>3, <1>6
<1>8. QED
  BY <1>6, <1>7 DEF q, r

LEMMA AlignedIsMultiple ==
    ASSUME NEW x \in Nat, NEW s \in Nat, s > 0, x % s = 0
    PROVE  \E k \in Nat : x = k * s
<1>1. x \div s \in Nat /\ x = (x \div s) * s + 0
  BY Divided
<1>2. (x \div s) * s \in Nat
  BY <1>1
<1>3. x = (x \div s) * s
  BY <1>1, <1>2
<1>4. QED
  BY <1>1, <1>3

\* The buddy of the k-th block of some size is the one beside it: the next
\* one if k is even, the one before it if k is odd.
LEMMA BuddyPosition ==
    ASSUME NEW p, NEW s \in Nat, s > 0, NEW k \in Nat,
           p.position = k * s, p.size = s
    PROVE  /\ k % 2 = 0 => _buddy_position(p) = (k + 1) * s
           /\ k % 2 = 1 => _buddy_position(p) = (k - 1) * s
<1>1. p.position \div p.size = k
  BY Multiple
<1>2. k * s \in Nat /\ (k + 1) * s = k * s + s /\ (k - 1) * s = k * s - s
  OBVIOUS
<1>3. QED
  BY <1>1, <1>2 DEF _buddy_position

\* Each of two buddies is the other's.
LEMMA BuddyOfBuddy ==
    ASSUME NEW p, NEW q, NEW s \in Nat, s > 0, p.position \in Nat,
           p.size = s, q.size = s, Aligned(p), q.position = _buddy_position(p)
    PROVE  p.position = _buddy_position(q)
<1>1. PICK k \in Nat : p.position = k * s
  BY AlignedIsMultiple DEF Aligned
<1>2. CASE k % 2 = 0
  <2>1. q.position = (k + 1) * s /\ k + 1 \in Nat /\ (k + 1) % 2 = 1
    BY <1>1, <1>2, BuddyPosition
  <2>2. _buddy_position(q) = ((k + 1) - 1) * s
    BY <2>1, BuddyPosition
  <2>3. (k + 1) - 1 = k
    OBVIOUS
  <2>4. QED
    BY <1>1, <2>2, <2>3
<1>3. CASE k % 2 = 1
  <2>1. q.position = (k - 1) * s /\ k - 1 \in Nat /\ (k - 1) % 2 = 0
    BY <1>1, <1>3, BuddyPosition
  <2>2. _buddy_position(q) = ((k - 1) + 1) * s
    BY <2>1, BuddyPosition
  <2>3. (k - 1) + 1 = k
    OBVIOUS
  <2>4. QED
    BY <1>1, <2>2, <2>3
<1>4. k % 2 = 0 \/ k % 2 = 1
  OBVIOUS
<1>5. QED
  BY <1>2, <1>3, <1>4

\* The lesser of two buddies is where a block of twice the size may start.
LEMMA MergedIsAligned ==
    ASSUME NEW p, NEW q, NEW s \in Nat, s > 0, p.position \in Nat,
           p.size = s, Aligned(p), q.position = _buddy_position(p)
    PROVE  (IF q.position < p.position THEN q.position ELSE p.position) % (2 * s) = 0
<1>1. PICK k \in Nat : p.position = k * s
  BY AlignedIsMultiple DEF Aligned
<1>2. CASE k % 2 = 0
  <2>1. PICK j \in Nat : k = 2 * j
    BY <1>2
  <2>2. q.position = (k + 1) * s
    BY <1>1, <1>2, BuddyPosition
  <2>3. (k + 1) * s = k * s + s /\ k * s \in Nat
    OBVIOUS
  <2>4. ~(q.position < p.position)
    BY <1>1, <2>2, <2>3
  <2>5. k * s = j * (2 * s) /\ 2 * s \in Nat /\ 2 * s > 0
    BY <2>1
  <2>6. QED
    BY <1>1, <2>4, <2>5, Multiple
<1>3. CASE k % 2 = 1
  <2>1. PICK j \in Nat : k = 2 * j + 1
    BY <1>3
  <2>2. q.position = (k - 1) * s
    BY <1>1, <1>3, BuddyPosition
  <2>3. (k - 1) * s = k * s - s /\ k * s \in Nat
    OBVIOUS
  <2>4. q.position < p.position
    BY <1>1, <2>2, <2>3
  <2>5. k - 1 = 2 * j
    BY <2>1
  <2>6. (k - 1) * s = j * (2 * s) /\ 2 * s \in Nat /\ 2 * s > 0
    BY <2>5
  <2>7. QED
    BY <2>2, <2>4, <2>6, Multiple
<1>4. k % 2 = 0 \/ k % 2 = 1
  OBVIOUS
<1>5. QED
  BY <1>2, <1>3, <1>4

\* The halves of a block may start where they do, and are buddies.
LEMMA HalvesAreBuddies ==
    ASSUME NEW p, NEW right, NEW half \in Nat, half > 0, p.position \in Nat,
           p.size = half + half, Aligned(p),
           right.position = p.position + half, right.size = half
    PROVE  /\ p.position % half = 0
           /\ Aligned(right)
           /\ _buddy_position(right) = p.position
<1>1. PICK k \in Nat : p.position = k * (half + half)
  BY AlignedIsMultiple DEF Aligned
<1>2. p.position = (2 * k) * half /\ 2 * k \in Nat
  BY <1>1
<1>3. p.position % half = 0
  BY <1>2, Multiple, ZenonT(40)
<1>4. right.position = (2 * k + 1) * half
  <2>1. (2 * k + 1) * half = (2 * k) * half + half
    OBVIOUS
  <2>2. QED
    BY <1>2, <2>1
<1>5. 2 * k + 1 \in Nat /\ (2 * k + 1) % 2 = 1
  OBVIOUS
<1>6. Aligned(right)
  BY <1>4, <1>5, Multiple DEF Aligned
<1>7. _buddy_position(right) = ((2 * k + 1) - 1) * half
  BY <1>4, <1>5, BuddyPosition
<1>8. (2 * k + 1) - 1 = 2 * k
  OBVIOUS
<1>9. QED
  BY <1>2, <1>3, <1>6, <1>7, <1>8

\* A step that lets two free partitions be only if they were there before.
LEMMA StillApart ==
    ASSUME NEW r, NEW s, NEW a, NEW b, OthersCome(r, s, {b}, {a}), Apart(s, a)
    PROVE  Apart(r, b)
<1> SUFFICES ASSUME NEW i \in Free(r) \ {b}, NEW j \in Free(r) \ {b},
                    r[j].position = _buddy_position(r[i]), r[j].size = r[i].size
             PROVE  FALSE
  BY DEF Apart
<1>1. i \in DOMAIN r \ {b} /\ j \in DOMAIN r \ {b} /\ r[i].free /\ r[j].free
  BY DEF Free
<1>2. PICK k \in DOMAIN s \ {a} : r[i] = s[k]
  BY <1>1 DEF OthersCome
<1>3. PICK l \in DOMAIN s \ {a} : r[j] = s[l]
  BY <1>1 DEF OthersCome
<1>4. k \in Free(s) \ {a} /\ l \in Free(s) \ {a}
  BY <1>1, <1>2, <1>3 DEF Free
<1>5. QED
  BY <1>2, <1>3, <1>4 DEF Apart

\* One more partition may be left aside.
LEMMA ApartFromMore ==
    ASSUME NEW s, NEW a, Apart(s, 0), DOMAIN s \subseteq Nat \ {0}
    PROVE  Apart(s, a)
  BY DEF Apart, Free

\* A partition that is occupied need not be left aside.
LEMMA ApartFromNone ==
    ASSUME NEW s, NEW a, Apart(s, a), a \notin Free(s)
    PROVE  Apart(s, 0)
  BY DEF Apart, Free

\* What a step leaves where it was stays well placed.
LEMMA StillPlaced ==
    ASSUME NEW r, NEW s, NEW new, NEW gone, OthersCome(r, s, new, gone),
           NEW now, NEW last, NEW reemplazo,
           AllPlaced(s, now, last, reemplazo),
           \A k \in new : k \in DOMAIN r => Placed(r[k], now, last, reemplazo)
    PROVE  AllPlaced(r, now, last, reemplazo)
<1> SUFFICES ASSUME NEW k \in DOMAIN r, k \notin new
             PROVE  Placed(r[k], now, last, reemplazo)
  BY DEF AllPlaced
<1>1. PICK j \in DOMAIN s : r[k] = s[j]
  BY DEF OthersCome
<1>2. QED
  BY <1>1 DEF AllPlaced

\* Only partition i changes.
LEMMA OneChanges ==
    ASSUME NEW s, NEW i, NEW e
    PROVE  /\ OthersCome([s EXCEPT ![i] = e], s, {i}, {i})
           /\ i \in DOMAIN s => [s EXCEPT ![i] = e][i] = e
  BY DEF OthersCome

LEMMA StampIsNat ==
    ASSUME NEW p \in Partition, NEW reemplazo
    PROVE  /\ Stamp(p, reemplazo) \in Nat
           /\ p.creation_time \in Nat /\ p.access_time \in Nat
  BY DEF Partition, Stamp

\* Time passes.
LEMMA PlacedLater ==
    ASSUME NEW s \in Seq(Partition), NEW now \in Nat, NEW last, NEW reemplazo,
           AllPlaced(s, now, last, reemplazo)
    PROVE  AllPlaced(s, now + 1, last, reemplazo)
<1> SUFFICES ASSUME NEW i \in DOMAIN s PROVE Placed(s[i], now + 1, last, reemplazo)
  BY DEF AllPlaced
<1>1. s[i] \in Partition
  BY ListProperties
<1>2. s[i].creation_time \in Nat /\ s[i].access_time \in Nat
  BY <1>1, StampIsNat
<1>3. Placed(s[i], now, last, reemplazo)
  BY DEF AllPlaced
<1>4. QED
  BY <1>2, <1>3 DEF Placed

\* What is true of the partitions whenever FullInv is.
LEMMA FullFacts ==
    ASSUME FullInv
    PROVE  /\ partitions \in Seq(Partition)
           /\ DOMAIN partitions = 1 .. Len(partitions) /\ Len(partitions) \in Nat
           /\ DOMAIN partitions \subseteq Nat \ {0}
           /\ Ordered(partitions) /\ Sizes(partitions)
           /\ TIME \in Nat /\ lastVictim \in Nat
           /\ \A i \in DOMAIN partitions :
                 /\ partitions[i] \in Partition
                 /\ partitions[i].position \in Nat
                 /\ partitions[i].size \in Nat /\ partitions[i].size > 0
                 /\ Aligned(partitions[i])
<1>1. partitions \in Seq(Partition) /\ Ordered(partitions) /\ Sizes(partitions)
  BY DEF FullInv, BuddyInv, TypeOK
<1>2. DOMAIN partitions = 1 .. Len(partitions) /\ Len(partitions) \in Nat
  BY <1>1, ListProperties
<1>3. ASSUME NEW i \in DOMAIN partitions
      PROVE  /\ partitions[i] \in Partition
             /\ partitions[i].position \in Nat
             /\ partitions[i].size \in Nat /\ partitions[i].size > 0
             /\ Aligned(partitions[i])
  <2>1. partitions[i].size \in PowersOfTwo
    BY <1>1 DEF Sizes
  <2>2. partitions[i].size > 0
    BY <2>1, PowersArePositive
  <2>3. Aligned(partitions[i])
    BY DEF FullInv, AllPlaced, Placed
  <2>4. QED
    BY <1>1, <1>2, <2>2, <2>3, ListProperties
<1>4. DOMAIN partitions \subseteq Nat \ {0}
  BY <1>2
<1>5. TIME \in Nat /\ lastVictim \in Nat
  BY DEF FullInv, BuddyInv, TypeOK
<1>6. QED
  BY <1>1, <1>2, <1>3, <1>4, <1>5

LEMMA InitFullInv == Init => FullInv
<1> SUFFICES ASSUME Init PROVE FullInv
  OBVIOUS
<1> DEFINE p == create_partition(0, TAMANO_MEMORIA)
<1>1. BuddyInv
  BY InitBuddyInv
<1>2. /\ TAMANO_MEMORIA \in PowersOfTwo
      /\ TAMANO_MEMORIA \in Nat /\ TAMANO_MEMORIA > 0
  BY BuddyAssumption, PowersArePositive
<1>3. p.position = 0 /\ p.size = TAMANO_MEMORIA /\ p.free
  BY <1>2, CreateProperties
<1> HIDE DEF p
<1>4. partitions = <<p>>
  BY DEF Init, p
<1>5. DOMAIN partitions = {1} /\ partitions[1] = p
  BY <1>4
<1>6. 0 * TAMANO_MEMORIA = 0
  BY <1>2
<1>7. Aligned(p)
  BY <1>2, <1>3, <1>6, Multiple DEF Aligned
<1>8. AllPlaced(partitions, TIME, lastVictim, config.reemplazo)
  BY <1>3, <1>5, <1>7 DEF AllPlaced, Placed
<1>9. 0 \div TAMANO_MEMORIA = 0
  BY <1>2, <1>6, Multiple
<1>10. _buddy_position(p) = TAMANO_MEMORIA
  BY <1>2, <1>3, <1>9 DEF _buddy_position
<1>11. Apart(partitions, at)
  BY <1>2, <1>3, <1>5, <1>10 DEF Apart, Free
<1>12. RequestInv
  BY DEF Init, RequestInv
<1>13. QED
  BY <1>1, <1>8, <1>11, <1>12 DEF FullInv

LEMMA FullSaved ==
    ASSUME FullInv, NEW data_size \in DataSizes, SaveMessage(data_size), BuddyInv'
    PROVE  FullInv'
<1>1. PICK power \in next_power_of_2(data_size) :
        request' = [data_size |-> data_size,
                    desired   |-> IF power > TAMANO_MINIMO_PARTICION
                                  THEN power ELSE TAMANO_MINIMO_PARTICION]
  BY DEF SaveMessage
<1>2. /\ power \in PowersOfTwo /\ power >= data_size /\ data_size \in Nat
      /\ \A q \in PowersOfTwo : q >= data_size => power <= q
  BY BuddyAssumption DEF next_power_of_2
<1>3. /\ power \in Nat /\ power > 0
      /\ TAMANO_MINIMO_PARTICION \in Nat /\ TAMANO_MINIMO_PARTICION > 0
  BY <1>2, BuddyAssumption, PowersArePositive
<1>4. Fits(request'.data_size, request'.desired)
  <2>1. CASE power > TAMANO_MINIMO_PARTICION
    <3>1. power # 1
      BY <1>3, <2>1
    <3>2. power \div 2 \in PowersOfTwo
      BY <1>2, <3>1, BuddyAssumption
    <3>3. power \div 2 \in Nat /\ power \div 2 < power
      BY <1>3, <3>2, PowersArePositive
    <3>4. ~(power \div 2 >= data_size)
      BY <1>2, <1>3, <3>2, <3>3
    <3>5. power \div 2 < data_size
      BY <1>2, <3>3, <3>4
    <3>6. request'.data_size = data_size /\ request'.desired = power
      BY <1>1, <2>1
    <3>7. QED
      BY <1>2, <1>3, <3>5, <3>6 DEF Fits
  <2>2. CASE ~(power > TAMANO_MINIMO_PARTICION)
    BY <1>1, <1>2, <1>3, <2>2 DEF Fits
  <2>3. QED
    BY <2>1, <2>2
<1>5. RequestInv'
  BY <1>4 DEF FullInv, RequestInv, SaveMessage
<1>6. Apart(partitions, at)' /\ AllPlaced(partitions, TIME, lastVictim, config.reemplazo)'
  BY DEF FullInv, SaveMessage, AllPlaced, Apart
<1>7. QED
  BY <1>5, <1>6 DEF FullInv

LEMMA FullFound == ASSUME FullInv, FindPartition, BuddyInv' PROVE FullInv'
<1>1. Apart(partitions, at')
  BY FullFacts, ApartFromMore DEF FullInv, RequestInv, FindPartition
<1>2. Apart(partitions, at)'
  BY <1>1 DEF FindPartition
<1>3. AllPlaced(partitions, TIME, lastVictim, config.reemplazo)'
  BY DEF FullInv, FindPartition
<1>4. RequestInv'
  BY DEF FullInv, RequestInv, FindPartition
<1>5. QED
  BY <1>2, <1>3, <1>4 DEF FullInv

LEMMA FullVictim == ASSUME FullInv, ChooseVictim, BuddyInv' PROVE FullInv'
<1>1. PICK victim \in victims(partitions, config.reemplazo) :
        /\ partitions' = [partitions EXCEPT ![victim] = Released(@)]
        /\ lastVictim' = Stamp(partitions[victim], config.reemplazo)
        /\ at' = victim
  BY DEF ChooseVictim
<1> DEFINE e == Released(partitions[victim])
<1>2. /\ victim \in DOMAIN partitions /\ ~partitions[victim].free
      /\ \A j \in Occupied(partitions) :
            lastVictim' <= Stamp(partitions[j], config.reemplazo)
  BY <1>1 DEF victims, Occupied
<1>3. partitions[victim] \in Partition /\ Aligned(partitions[victim])
  BY <1>2, FullFacts
<1>4. e.free /\ Aligned(e)
  BY <1>3 DEF Released, Aligned, Partition
<1>5. partitions' = [partitions EXCEPT ![victim] = e]
  BY <1>1
<1> HIDE DEF e
<1>6. /\ OthersCome(partitions', partitions, {victim}, {victim})
      /\ partitions'[victim] = e
  BY <1>2, <1>5, OneChanges
<1>7. UNCHANGED <<config, TIME, request>> /\ step = "find" /\ step' = "consolidate"
  BY DEF ChooseVictim
<1>8. Apart(partitions, 0)
  BY <1>7 DEF FullInv, RequestInv
<1>9. Apart(partitions, victim)
  BY <1>8, FullFacts, ApartFromMore
<1>10. Apart(partitions, at)'
  BY <1>1, <1>6, <1>9, StillApart
<1>11. AllPlaced(partitions, TIME, lastVictim', config.reemplazo)
  BY <1>2 DEF FullInv, AllPlaced, Placed, Occupied
<1>12. Placed(e, TIME, lastVictim', config.reemplazo)
  BY <1>4 DEF Placed
<1>13. AllPlaced(partitions', TIME, lastVictim', config.reemplazo)
  <2>1. \A k \in {victim} : k \in DOMAIN partitions' =>
           Placed(partitions'[k], TIME, lastVictim', config.reemplazo)
    BY <1>6, <1>12
  <2>2. QED
    BY <1>6, <1>11, <2>1, StillPlaced
<1>14. lastVictim' <= TIME
  <2>1. Placed(partitions[victim], TIME, lastVictim, config.reemplazo)
    BY <1>2 DEF FullInv, AllPlaced
  <2>2. QED
    BY <1>1, <1>2, <2>1 DEF Placed, Stamp
<1>15. RequestInv'
  BY <1>7, <1>14 DEF FullInv, RequestInv
<1>16. AllPlaced(partitions, TIME, lastVictim, config.reemplazo)'
  BY <1>7, <1>13
<1>17. QED
  BY <1>10, <1>15, <1>16 DEF FullInv

LEMMA FullAbsorbed == ASSUME FullInv, Consolidate PROVE FullInv'
<1>1. BuddyInv
  BY DEF FullInv
<1>2. PICK b \in MergeableBuddies(at) :
        /\ BuddyInv'
        /\ at' \in DOMAIN partitions' /\ partitions'[at'].free
        /\ OthersCome(partitions', partitions, {at'}, {at})
        /\ partitions'[at'].size = 2 * partitions[at].size
        /\ partitions'[at'].position =
              IF partitions[b].position < partitions[at].position
              THEN partitions[b].position ELSE partitions[at].position
  BY <1>1, BuddyAbsorbed
<1>3. UNCHANGED <<config, TIME, step, request, lastVictim>> /\ step = "consolidate"
  BY DEF Consolidate
<1>4. at \in DOMAIN partitions
  BY <1>1, <1>3 DEF BuddyInv, Progress
<1>5. partitions[b].position = _buddy_position(partitions[at])
  BY DEF MergeableBuddies
<1>6. Aligned(partitions'[at'])
  <2>1. /\ partitions[at].size \in Nat /\ partitions[at].size > 0
        /\ partitions[at].position \in Nat /\ Aligned(partitions[at])
    BY <1>4, FullFacts
  <2>2. (IF partitions[b].position < partitions[at].position
         THEN partitions[b].position ELSE partitions[at].position)
            % (2 * partitions[at].size) = 0
    BY ONLY <1>5, <2>1, MergedIsAligned
  <2>3. QED
    BY <1>2, <2>2 DEF Aligned
<1>7. Placed(partitions'[at'], TIME, lastVictim, config.reemplazo)
  BY <1>2, <1>6 DEF Placed
<1>8. AllPlaced(partitions', TIME, lastVictim, config.reemplazo)
  <2>1. \A k \in {at'} : k \in DOMAIN partitions' =>
           Placed(partitions'[k], TIME, lastVictim, config.reemplazo)
    BY <1>7
  <2>2. AllPlaced(partitions, TIME, lastVictim, config.reemplazo)
    BY DEF FullInv
  <2>3. QED
    BY <1>2, <2>1, <2>2, StillPlaced
<1>9. AllPlaced(partitions, TIME, lastVictim, config.reemplazo)'
  BY <1>3, <1>8
<1>10. Apart(partitions, at)'
  BY <1>2, StillApart DEF FullInv
<1>11. RequestInv'
  BY <1>3 DEF FullInv, RequestInv
<1>12. QED
  BY <1>2, <1>9, <1>10, <1>11 DEF FullInv

LEMMA FullConsolidated == ASSUME FullInv, Consolidated, BuddyInv' PROVE FullInv'
<1>1. /\ UNCHANGED <<config, partitions, TIME, request, lastVictim>>
      /\ step = "consolidate" /\ step' = "find" /\ at' = 0
      /\ MergeableBuddies(at) = {}
  BY DEF Consolidated
<1>2. at \in DOMAIN partitions /\ partitions[at].free
  BY <1>1 DEF FullInv, BuddyInv, Progress
<1>3. ASSUME NEW i \in Free(partitions), NEW j \in Free(partitions),
             partitions[j].position = _buddy_position(partitions[i]),
             partitions[j].size = partitions[i].size
      PROVE  FALSE
  <2>1. i \in DOMAIN partitions /\ j \in DOMAIN partitions
    BY DEF Free
  <2>2. i # at
    BY <1>1, <1>3 DEF MergeableBuddies
  <2>3. CASE j = at
    <3>1. /\ partitions[i].size \in Nat /\ partitions[i].size > 0
          /\ partitions[i].position \in Nat /\ Aligned(partitions[i])
      BY <2>1, FullFacts
    <3>2. partitions[i].position = _buddy_position(partitions[j])
      BY ONLY <1>3, <3>1, BuddyOfBuddy
    <3>3. i \in MergeableBuddies(at)
      BY <1>3, <2>3, <3>2 DEF MergeableBuddies
    <3>4. QED
      BY <1>1, <3>3
  <2>4. CASE j # at
    BY <1>3, <2>2, <2>4 DEF FullInv, Apart
  <2>5. QED
    BY <2>3, <2>4
<1>4. Apart(partitions, 0)
  BY <1>3 DEF Apart
<1>5. Apart(partitions, at)'
  BY <1>1, <1>4 DEF Apart
<1>6. RequestInv' /\ AllPlaced(partitions, TIME, lastVictim, config.reemplazo)'
  BY <1>1 DEF FullInv, RequestInv
<1>7. QED
  BY <1>5, <1>6 DEF FullInv

LEMMA FullBroken == ASSUME FullInv, BreakBuddys PROVE FullInv'
<1>1. BuddyInv
  BY DEF FullInv
<1>2. PICK half \in PowersOfTwo :
        /\ BuddyInv'
        /\ OthersCome(partitions', partitions, {at, at + 1}, {at})
        /\ partitions[at].size = half + half
        /\ partitions'[at].free /\ partitions'[at].size = half
        /\ partitions'[at].position = partitions[at].position
        /\ at + 1 \in DOMAIN partitions'
        /\ partitions'[at + 1].free /\ partitions'[at + 1].size = half
        /\ partitions'[at + 1].position = partitions[at].position + half
  BY <1>1, BuddyBroken
<1>3. UNCHANGED <<config, TIME, step, request, at, lastVictim>> /\ step = "break"
  BY DEF BreakBuddys
<1>4. at \in DOMAIN partitions /\ half \in Nat /\ half > 0
  BY <1>1, <1>3, PowersArePositive DEF BuddyInv, Progress
<1>5. partitions[at].position \in Nat /\ Aligned(partitions[at]) /\ at \in Nat
  BY <1>4, FullFacts
<1>6. /\ Aligned(partitions'[at]) /\ Aligned(partitions'[at + 1])
      /\ _buddy_position(partitions'[at + 1]) = partitions'[at].position
  <2>1. /\ partitions[at].position % half = 0
        /\ Aligned(partitions'[at + 1])
        /\ _buddy_position(partitions'[at + 1]) = partitions[at].position
    BY ONLY <1>2, <1>4, <1>5, HalvesAreBuddies
  <2>2. QED
    BY <1>2, <2>1 DEF Aligned
<1>7. AllPlaced(partitions', TIME, lastVictim, config.reemplazo)
  <2>1. \A k \in {at, at + 1} : k \in DOMAIN partitions' =>
           Placed(partitions'[k], TIME, lastVictim, config.reemplazo)
    BY <1>2, <1>6 DEF Placed
  <2>2. AllPlaced(partitions, TIME, lastVictim, config.reemplazo)
    BY DEF FullInv
  <2>3. QED
    BY <1>2, <2>1, <2>2, StillPlaced
<1>8. AllPlaced(partitions, TIME, lastVictim, config.reemplazo)'
  BY <1>3, <1>7
<1>9. RequestInv'
  BY <1>3 DEF FullInv, RequestInv
\* Wherever the right half's buddy is wanted, there is the left half.
<1>10. /\ partitions' \in Seq(Partition) /\ Ordered(partitions') /\ Sizes(partitions')
       /\ DOMAIN partitions' = 1 .. Len(partitions') /\ Len(partitions') \in Nat
  <2>1. partitions' \in Seq(Partition) /\ Ordered(partitions') /\ Sizes(partitions')
    BY <1>2 DEF BuddyInv, TypeOK
  <2>2. QED
    BY <2>1, ListProperties
<1>11. ASSUME NEW k \in DOMAIN partitions',
              partitions'[k].position = partitions'[at].position
       PROVE  k = at
  <2>1. /\ at \in DOMAIN partitions' /\ at \in Nat /\ k \in Nat
        /\ partitions'[k].position \in Nat /\ partitions'[at].position \in Nat
    BY <1>2, <1>4, <1>5, <1>10, ListProperties
  <2>2. ~(k < at) /\ ~(at < k)
    BY <1>10, <1>11, <2>1, DistinctPositions
  <2>3. QED
    BY <2>1, <2>2
<1>12. ASSUME NEW i \in Free(partitions') \ {at}, NEW j \in Free(partitions') \ {at},
              partitions'[j].position = _buddy_position(partitions'[i]),
              partitions'[j].size = partitions'[i].size
       PROVE  FALSE
  <2>1. /\ i \in DOMAIN partitions' /\ j \in DOMAIN partitions' /\ i # at /\ j # at
        /\ partitions'[i].free /\ partitions'[j].free
    BY DEF Free
  <2>2. i # at + 1
    BY <1>6, <1>11, <1>12, <2>1
  <2>3. CASE j = at + 1
    <3>1. /\ partitions'[i].size \in Nat /\ partitions'[i].size > 0
          /\ partitions'[i].position \in Nat /\ Aligned(partitions'[i])
      <4>1. partitions'[i].size \in PowersOfTwo
        BY <1>10, <2>1 DEF Sizes
      <4>2. Aligned(partitions'[i])
        BY <1>7, <2>1 DEF AllPlaced, Placed
      <4>3. partitions'[i].position \in Nat
        BY <1>10, <2>1, ListProperties
      <4>4. QED
        BY <4>1, <4>2, <4>3, PowersArePositive
    <3>2. partitions'[i].position = _buddy_position(partitions'[j])
      BY ONLY <1>12, <3>1, BuddyOfBuddy
    <3>3. QED
      BY <1>6, <1>11, <2>1, <2>3, <3>2
  <2>4. CASE j # at + 1
    <3>1. PICK k \in DOMAIN partitions \ {at} : partitions'[i] = partitions[k]
      BY <1>2, <2>1, <2>2 DEF OthersCome
    <3>2. PICK l \in DOMAIN partitions \ {at} : partitions'[j] = partitions[l]
      BY <1>2, <2>1, <2>4 DEF OthersCome
    <3>3. k \in Free(partitions) \ {at} /\ l \in Free(partitions) \ {at}
      BY <2>1, <3>1, <3>2 DEF Free
    <3>4. QED
      BY <1>12, <3>1, <3>2, <3>3 DEF FullInv, Apart
  <2>5. QED
    BY <2>3, <2>4
<1>13. Apart(partitions', at)
  BY <1>12 DEF Apart
<1>14. Apart(partitions, at)'
  BY <1>3, <1>13
<1>15. QED
  BY <1>2, <1>8, <1>9, <1>14 DEF FullInv

LEMMA FullOccupied == ASSUME FullInv, Occupy, BuddyInv' PROVE FullInv'
<1> DEFINE e == Filled(partitions[at], request.data_size, TIME + 1)
<1>1. /\ at \in DOMAIN partitions /\ partitions[at].size = request.desired
      /\ Fits(request.data_size, request.desired)
      /\ partitions' = [partitions EXCEPT ![at] = e]
      /\ TIME' = TIME + 1 /\ step' = "idle" /\ at' = 0
      /\ UNCHANGED <<config, lastVictim>>
  BY DEF FullInv, BuddyInv, Progress, RequestInv, Occupy
<1>2. /\ partitions[at] \in Partition /\ Aligned(partitions[at])
      /\ TIME \in Nat /\ lastVictim \in Nat /\ lastVictim <= TIME
  BY <1>1, FullFacts DEF FullInv, RequestInv
<1>3. /\ ~e.free /\ e.data_size = request.data_size /\ e.size = partitions[at].size
      /\ e.position = partitions[at].position
      /\ e.creation_time = TIME + 1 /\ e.access_time = TIME + 1
  BY <1>2 DEF Filled, Partition
<1> HIDE DEF e
<1>4. Placed(e, TIME + 1, lastVictim, config.reemplazo)
  BY <1>1, <1>2, <1>3 DEF Placed, Aligned, Stamp
<1>5. /\ OthersCome(partitions', partitions, {at}, {at})
      /\ partitions'[at] = e
  BY <1>1, OneChanges
<1>6. AllPlaced(partitions, TIME + 1, lastVictim, config.reemplazo)
  BY FullFacts, PlacedLater DEF FullInv
<1>7. AllPlaced(partitions', TIME + 1, lastVictim, config.reemplazo)
  <2>1. \A k \in {at} : k \in DOMAIN partitions' =>
           Placed(partitions'[k], TIME + 1, lastVictim, config.reemplazo)
    BY <1>4, <1>5
  <2>2. QED
    BY <1>5, <1>6, <2>1, StillPlaced
<1>8. AllPlaced(partitions, TIME, lastVictim, config.reemplazo)'
  BY <1>1, <1>7
<1>9. Apart(partitions', at)
  BY <1>5, StillApart DEF FullInv
<1>10. at \notin Free(partitions')
  BY <1>3, <1>5 DEF Free
<1>11. Apart(partitions', 0)
  BY <1>9, <1>10, ApartFromNone
<1>12. Apart(partitions, at)'
  BY <1>1, <1>11
<1>13. RequestInv'
  BY <1>1, <1>2 DEF RequestInv
<1>14. QED
  BY <1>8, <1>12, <1>13 DEF FullInv

LEMMA FullReplayed ==
    ASSUME FullInv, NEW replayed \in SUBSET Occupied(partitions), Replay(replayed),
           BuddyInv'
    PROVE  FullInv'
<1>1. /\ partitions' = Accessed(partitions, replayed, TIME + 1)
      /\ TIME' = TIME + 1 /\ step = "idle"
      /\ UNCHANGED <<config, step, request, at, lastVictim>>
  BY DEF Replay
<1>2. DOMAIN partitions' = DOMAIN partitions
  BY <1>1 DEF Accessed
<1>3. TIME \in Nat /\ lastVictim \in Nat /\ lastVictim <= TIME
  BY FullFacts DEF FullInv, RequestInv
<1>4. ASSUME NEW k \in DOMAIN partitions
      PROVE  /\ partitions'[k].position = partitions[k].position
             /\ partitions'[k].size = partitions[k].size
             /\ partitions'[k].free = partitions[k].free
             /\ Placed(partitions'[k], TIME + 1, lastVictim, config.reemplazo)
  <2>1. partitions[k] \in Partition
    BY FullFacts
  <2>2. Placed(partitions[k], TIME + 1, lastVictim, config.reemplazo)
    BY FullFacts, PlacedLater DEF FullInv, AllPlaced
  <2>3. CASE k \in replayed
    <3>1. partitions'[k] = [partitions[k] EXCEPT !.access_time = TIME + 1]
      BY <1>1, <2>3 DEF Accessed
    <3>2. /\ partitions'[k].position = partitions[k].position
          /\ partitions'[k].size = partitions[k].size
          /\ partitions'[k].free = partitions[k].free
          /\ partitions'[k].data_size = partitions[k].data_size
          /\ partitions'[k].creation_time = partitions[k].creation_time
          /\ partitions'[k].access_time = TIME + 1
      BY <2>1, <3>1 DEF Partition
    <3>3. Stamp(partitions[k], config.reemplazo) \in Nat
      BY <2>1, StampIsNat
    <3>4. QED
      BY <1>3, <2>2, <3>2, <3>3 DEF Placed, Stamp, Aligned
  <2>4. CASE k \notin replayed
    <3>1. partitions'[k] = partitions[k]
      BY <1>1, <2>4 DEF Accessed
    <3>2. QED
      BY <2>2, <3>1
  <2>5. QED
    BY <2>3, <2>4
<1>5. AllPlaced(partitions', TIME + 1, lastVictim, config.reemplazo)
  BY <1>2, <1>4 DEF AllPlaced
<1>6. AllPlaced(partitions, TIME, lastVictim, config.reemplazo)'
  BY <1>1, <1>5
<1>7. Apart(partitions', at)
  <2> SUFFICES ASSUME NEW i \in Free(partitions') \ {at},
                      NEW j \in Free(partitions') \ {at},
                      partitions'[j].position = _buddy_position(partitions'[i]),
                      partitions'[j].size = partitions'[i].size
               PROVE  FALSE
    BY DEF Apart
  <2>1. /\ i \in Free(partitions) \ {at} /\ j \in Free(partitions) \ {at}
        /\ i \in DOMAIN partitions /\ j \in DOMAIN partitions
    BY <1>2, <1>4 DEF Free
  <2>2. _buddy_position(partitions'[i]) = _buddy_position(partitions[i])
    BY <1>4, <2>1 DEF _buddy_position
  <2>3. QED
    BY <1>4, <2>1, <2>2 DEF FullInv, Apart
<1>8. Apart(partitions, at)'
  BY <1>1, <1>7
<1>9. RequestInv'
  BY <1>1, <1>3 DEF FullInv, RequestInv
<1>10. QED
  BY <1>6, <1>8, <1>9 DEF FullInv

LEMMA StepFullInv == FullInv /\ [Next]_vars => FullInv'
<1> SUFFICES ASSUME FullInv, [Next]_vars PROVE FullInv'
  OBVIOUS
<1>1. BuddyInv'
  BY StepBuddyInv DEF FullInv
<1>2. CASE UNCHANGED vars
  <2>1. /\ Apart(partitions, at)' /\ RequestInv'
        /\ AllPlaced(partitions, TIME, lastVictim, config.reemplazo)'
    BY <1>2 DEF vars, FullInv, RequestInv, Apart, AllPlaced
  <2>2. QED
    BY <1>1, <2>1 DEF FullInv
<1>3. CASE ChooseVictimOfNone
  <2>1. /\ Apart(partitions, at)' /\ RequestInv'
        /\ AllPlaced(partitions, TIME, lastVictim, config.reemplazo)'
    BY <1>3 DEF ChooseVictimOfNone, FullInv, RequestInv, Apart, AllPlaced
  <2>2. QED
    BY <1>1, <2>1 DEF FullInv
<1>4. CASE Stopped
  BY <1>2, <1>4 DEF Stopped
<1>5. QED
  BY <1>1, <1>2, <1>3, <1>4, FullSaved, FullFound, FullVictim, FullAbsorbed,
     FullConsolidated, FullBroken, FullOccupied, FullReplayed DEF Next, SaveStep

LEMMA FullInvHolds == Spec => []FullInv
  BY InitFullInv, StepFullInv, PTL DEF Spec

(***************************************************************************)
(* No two free buddies stay apart between saves, every partition starts at *)
(* a multiple of its size, and a message sits in the smallest buddy that   *)
(* holds it: eviction and halving never leave the cache worse divided than *)
(* it has to be (buddy.c:23-118).                                          *)
(***************************************************************************)
THEOREM BuddiesAreMerged == Spec => []Buddies
<1>1. FullInv => Buddies
  <2> SUFFICES ASSUME FullInv PROVE Buddies
    OBVIOUS
  <2>1. ASSUME step \in {"idle", "find"}, NEW i \in Free(partitions)
        PROVE  MergeableBuddies(i) = {}
    <3>1. Apart(partitions, 0)
      BY <2>1 DEF FullInv, RequestInv
    <3>2. 0 \notin DOMAIN partitions
      BY FullFacts
    <3>3. QED
      BY <3>1, <3>2 DEF Apart, MergeableBuddies, Free
  <2>2. SmallestAlignedBuddy
    BY DEF FullInv, AllPlaced, Placed, Aligned, Fits, SmallestAlignedBuddy
  <2>3. QED
    BY <2>1, <2>2 DEF Buddies, Coalesced
<1>2. QED
  BY <1>1, FullInvHolds, PTL

(***************************************************************************)
(* Messages leave the cache in the order of the replacement algorithm:     *)
(* nothing cached is older than a message that was evicted (mem_utils.c:   *)
(* 141-155).                                                               *)
(***************************************************************************)
THEOREM VictimsLeaveInOrder == Spec => []VictimsInOrder
<1>1. FullInv => VictimsInOrder
  BY DEF FullInv, AllPlaced, Placed, VictimsInOrder, Occupied
<1>2. QED
  BY <1>1, FullInvHolds, PTL

=============================================================================
