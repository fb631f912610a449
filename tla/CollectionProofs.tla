-------------------------- MODULE CollectionProofs --------------------------
(***************************************************************************)
(* Lemmas about lists and finite sets that the proofs of several           *)
(* components rest on: what is where in a list after an insertion or a     *)
(* removal, what a search finds, which number Min chooses, and what a sum  *)
(* over a finite set is.                                                   *)
(***************************************************************************)
EXTENDS Integers, SequencesExt, SequenceTheorems, FiniteSetTheorems,
        WellFoundedInduction, TLAPS

\* A function on 1 .. n is a list.
LEMMA ListFromFunction ==
    ASSUME NEW S, NEW n \in Nat, NEW f \in [1 .. n -> S]
    PROVE  f \in Seq(S) /\ Len(f) = n
<1>1. f \in Seq(S)
  BY SeqDef
<1>2. DOMAIN f = 1 .. Len(f) /\ DOMAIN f = 1 .. n /\ Len(f) \in Nat
  BY <1>1, LenProperties
<1>3. QED
  BY <1>1, <1>2

\* RemoveAt closes the gap.
LEMMA RemoveAtProperties ==
    ASSUME NEW S, NEW s \in Seq(S), NEW i \in 1 .. Len(s)
    PROVE  /\ RemoveAt(s, i) \in Seq(S)
           /\ Len(RemoveAt(s, i)) = Len(s) - 1
           /\ \A k \in 1 .. Len(s) - 1 :
                 RemoveAt(s, i)[k] = IF k < i THEN s[k] ELSE s[k + 1]
<1> DEFINE left == SubSeq(s, 1, i - 1)
           right == SubSeq(s, i + 1, Len(s))
<1>1. Len(s) \in Nat /\ \A k \in 1 .. Len(s) : s[k] \in S
  BY LenProperties, ElementOfSeq
<1>2. /\ left \in Seq(S)
      /\ Len(left) = i - 1
      /\ \A k \in 1 .. i - 1 : left[k] = s[k]
  <2>1. \A k \in 1 .. i - 1 : s[k] \in S
    BY <1>1
  <2>2. /\ left \in Seq(S)
        /\ Len(left) = IF 1 <= i - 1 THEN i - 1 - 1 + 1 ELSE 0
        /\ \A k \in 1 .. i - 1 - 1 + 1 : left[k] = s[1 + k - 1]
    BY <1>1, <2>1, SubSeqProperties
  <2> HIDE DEF left
  <2>3. QED
    BY <1>1, <2>2
<1>3. /\ right \in Seq(S)
      /\ Len(right) = Len(s) - i
      /\ \A k \in 1 .. Len(s) - i : right[k] = s[i + k]
  <2>1. \A k \in i + 1 .. Len(s) : s[k] \in S
    BY <1>1
  <2>2. /\ right \in Seq(S)
        /\ Len(right) = IF i + 1 <= Len(s) THEN Len(s) - (i + 1) + 1 ELSE 0
        /\ \A k \in 1 .. Len(s) - (i + 1) + 1 : right[k] = s[i + 1 + k - 1]
    BY <1>1, <2>1, SubSeqProperties
  <2> HIDE DEF right
  <2>3. QED
    BY <1>1, <2>2
<1>4. RemoveAt(s, i) = left \o right
  BY DEF RemoveAt
<1> HIDE DEF left, right
<1>5. /\ left \o right \in Seq(S)
      /\ Len(left \o right) = Len(left) + Len(right)
      /\ \A k \in 1 .. Len(left) + Len(right) : (left \o right)[k] =
            IF k <= Len(left) THEN left[k] ELSE right[k - Len(left)]
  BY <1>2, <1>3, ConcatProperties
<1>6. ASSUME NEW k \in 1 .. Len(s) - 1
      PROVE  (left \o right)[k] = IF k < i THEN s[k] ELSE s[k + 1]
  <2>1. CASE k < i
    BY <1>1, <1>2, <1>3, <1>5, <2>1
  <2>2. CASE ~(k < i)
    <3>1. (left \o right)[k] = right[k - (i - 1)]
      BY <1>1, <1>2, <1>3, <1>5, <2>2
    <3>2. k - (i - 1) \in 1 .. Len(s) - i
      BY <1>1, <2>2
    <3>3. right[k - (i - 1)] = s[i + (k - (i - 1))]
      BY <1>3, <3>2
    <3>4. i + (k - (i - 1)) = k + 1
      BY <1>1
    <3>5. QED
      BY <2>2, <3>1, <3>3, <3>4
  <2>3. QED
    BY <2>1, <2>2
<1>7. QED
  BY <1>1, <1>2, <1>3, <1>4, <1>5, <1>6

\* InsertAt makes room for the new element.
LEMMA InsertAtProperties ==
    ASSUME NEW S, NEW s \in Seq(S), NEW i \in 1 .. Len(s) + 1, NEW e \in S
    PROVE  /\ InsertAt(s, i, e) \in Seq(S)
           /\ Len(InsertAt(s, i, e)) = Len(s) + 1
           /\ InsertAt(s, i, e)[i] = e
           /\ \A k \in 1 .. Len(s) : k < i => InsertAt(s, i, e)[k] = s[k]
           /\ \A k \in 1 .. Len(s) : k >= i => InsertAt(s, i, e)[k + 1] = s[k]
<1> DEFINE left == SubSeq(s, 1, i - 1)
           right == SubSeq(s, i, Len(s))
           begin == left \o <<e>>
<1>1. Len(s) \in Nat /\ \A k \in 1 .. Len(s) : s[k] \in S
  BY LenProperties, ElementOfSeq
<1>2. /\ left \in Seq(S)
      /\ Len(left) = i - 1
      /\ \A k \in 1 .. i - 1 : left[k] = s[k]
  <2>1. \A k \in 1 .. i - 1 : s[k] \in S
    BY <1>1
  <2>2. /\ left \in Seq(S)
        /\ Len(left) = IF 1 <= i - 1 THEN i - 1 - 1 + 1 ELSE 0
        /\ \A k \in 1 .. i - 1 - 1 + 1 : left[k] = s[1 + k - 1]
    BY <1>1, <2>1, SubSeqProperties
  <2> HIDE DEF left
  <2>3. QED
    BY <1>1, <2>2
<1>3. /\ right \in Seq(S)
      /\ Len(right) = Len(s) - i + 1
      /\ \A k \in 1 .. Len(s) - i + 1 : right[k] = s[i + k - 1]
  <2>1. \A k \in i .. Len(s) : s[k] \in S
    BY <1>1
  <2>2. /\ right \in Seq(S)
        /\ Len(right) = IF i <= Len(s) THEN Len(s) - i + 1 ELSE 0
        /\ \A k \in 1 .. Len(s) - i + 1 : right[k] = s[i + k - 1]
    BY <1>1, <2>1, SubSeqProperties
  <2> HIDE DEF right
  <2>3. QED
    BY <1>1, <2>2
<1>4. InsertAt(s, i, e) = begin \o right
  BY DEF InsertAt
<1> HIDE DEF left, right
<1>5. /\ begin \in Seq(S)
      /\ Len(begin) = i
      /\ \A k \in 1 .. i : begin[k] = IF k < i THEN s[k] ELSE e
  <2>1. <<e>> \in Seq(S) /\ Len(<<e>>) = 1 /\ <<e>>[1] = e
    OBVIOUS
  <2>2. /\ begin \in Seq(S)
        /\ Len(begin) = Len(left) + Len(<<e>>)
        /\ \A k \in 1 .. Len(left) + Len(<<e>>) : begin[k] =
              IF k <= Len(left) THEN left[k] ELSE <<e>>[k - Len(left)]
    BY <1>2, <2>1, ConcatProperties
  <2> HIDE DEF begin
  <2>3. Len(begin) = i
    BY <1>1, <1>2, <2>1, <2>2
  <2>4. ASSUME NEW k \in 1 .. i PROVE begin[k] = IF k < i THEN s[k] ELSE e
    <3>1. CASE k < i
      BY <1>1, <1>2, <2>1, <2>2, <3>1
    <3>2. CASE k = i
      <4>1. k - Len(left) = 1
        BY <1>1, <1>2, <3>2
      <4>2. begin[k] = <<e>>[1]
        BY <1>1, <1>2, <2>1, <2>2, <3>2, <4>1
      <4>3. QED
        BY <2>1, <3>2, <4>2
    <3>3. QED
      BY <3>1, <3>2
  <2>5. QED
    BY <2>2, <2>3, <2>4
<1> HIDE DEF begin
<1>6. /\ begin \o right \in Seq(S)
      /\ Len(begin \o right) = Len(begin) + Len(right)
      /\ \A k \in 1 .. Len(begin) + Len(right) : (begin \o right)[k] =
            IF k <= Len(begin) THEN begin[k] ELSE right[k - Len(begin)]
  BY <1>3, <1>5, ConcatProperties
<1>7. (begin \o right)[i] = e
  BY <1>1, <1>3, <1>5, <1>6
<1>8. ASSUME NEW k \in 1 .. Len(s), k < i PROVE (begin \o right)[k] = s[k]
  <2>1. (begin \o right)[k] = begin[k]
    BY <1>1, <1>3, <1>5, <1>6, <1>8
  <2>2. QED
    BY <1>1, <1>5, <1>8, <2>1
<1>9. ASSUME NEW k \in 1 .. Len(s), k >= i PROVE (begin \o right)[k + 1] = s[k]
  <2>1. (begin \o right)[k + 1] = right[k + 1 - i]
    <3>1. k + 1 \in 1 .. Len(begin) + Len(right) /\ ~(k + 1 <= Len(begin))
      BY <1>1, <1>3, <1>5, <1>9
    <3>2. QED
      BY <1>5, <1>6, <3>1
  <2>2. k + 1 - i \in 1 .. Len(s) - i + 1
    BY <1>1, <1>9
  <2>3. right[k + 1 - i] = s[i + (k + 1 - i) - 1]
    BY <1>3, <2>2
  <2>4. i + (k + 1 - i) - 1 = k
    BY <1>1
  <2>5. QED
    BY <2>1, <2>3, <2>4
<1>10. QED
  <2>1. Len(begin \o right) = Len(s) + 1
    BY <1>1, <1>3, <1>5, <1>6
  <2>2. QED
    BY <1>4, <1>6, <1>7, <1>8, <1>9, <2>1

\* What was behind the new element is one place further.
LEMMA InsertAtMoves ==
    ASSUME NEW S, NEW s \in Seq(S), NEW i \in 1 .. Len(s) + 1, NEW e \in S,
           NEW k \in 1 .. Len(s), k >= i
    PROVE  InsertAt(s, i, e)[k + 1] = s[k]
  BY InsertAtProperties

\* A set of natural numbers that is not empty has a least member.
LEMMA MinProperties ==
    ASSUME NEW I \in SUBSET Nat, I # {}
    PROVE  Min(I) \in I /\ \A i \in I : Min(I) <= i
<1>1. \E x \in I : \A y \in I : ~ (<<y, x>> \in OpToRel(<, Nat))
  BY WFMin, NatLessThanWellFounded
<1>2. PICK x \in I : \A y \in I : ~ (<<y, x>> \in OpToRel(<, Nat))
  BY <1>1
<1>3. \A y \in I : x <= y
  <2>1. SUFFICES ASSUME NEW y \in I PROVE x <= y
    OBVIOUS
  <2>2. y \in Nat /\ x \in Nat /\ ~(y < x)
    BY <1>2 DEF OpToRel
  <2>3. QED
    BY <2>2
<1>4. QED
  BY <1>3 DEF Min

\* Of the numbers from a to b that have a property there is a first.
LEMMA LeastOf ==
    ASSUME NEW a \in Nat, NEW b \in Nat, NEW T \in SUBSET (a .. b), T # {}
    PROVE  \E x \in T : \A y \in T : x <= y
<1>1. T \in SUBSET Nat
  OBVIOUS
<1>2. QED
  BY <1>1, MinProperties

\* Of the elements that are at a position the search finds the first.
LEMMA FirstAtPosition ==
    ASSUME NEW s, NEW i \in DOMAIN s, DOMAIN s = 1 .. Len(s), Len(s) \in Nat,
           \A j \in DOMAIN s : s[j].position = s[i].position => i <= j
    PROVE  SelectInSeq(s, LAMBDA p : p.position = s[i].position) = i
<1> DEFINE found == {j \in 1 .. Len(s) : s[j].position = s[i].position}
<1>1. i \in found /\ \A j \in found : i <= j
  OBVIOUS
<1>2. Min(found) = i
  <2>1. \A x \in found : (\A y \in found : x =< y) => x = i
    BY <1>1
  <2> HIDE DEF found
  <2>2. QED
    BY <1>1, <2>1 DEF Min
<1>3. QED
  BY <1>1, <1>2 DEF SelectInSeq

-----------------------------------------------------------------------------
(* Sums                                                                    *)

\* What MapThenFoldSet computes when it adds up f, for every subset of S.
First(s) == CHOOSE x \in s : TRUE
IsTotal(g, f, S) ==
    g = [s \in SUBSET S |-> IF s = {} THEN 0 ELSE f[First(s)] + g[s \ {First(s)}]]

\* Among some subsets of a finite set there is one that contains no other.
LEMMA LeastSubset ==
    ASSUME NEW S, IsFiniteSet(S), NEW T, T \subseteq SUBSET S, T # {}
    PROVE  \E s \in T : \A t \in T : t \subseteq s => t = s
<1>1. T \subseteq FiniteSubsetsOf(S)
  BY FS_Subset DEF FiniteSubsetsOf
<1>2. PICK s \in T : \A t \in T : ~ (<<t, s>> \in StrictSubsetOrdering(S))
  BY <1>1, FS_StrictSubsetOrderingWellFounded, WFMin
<1>3. QED
  BY <1>2 DEF StrictSubsetOrdering

\* Two ways to add up agree where both are defined.
LEMMA TotalsAgree ==
    ASSUME NEW S, IsFiniteSet(S), NEW R, R \subseteq S, NEW f, NEW g, NEW h,
           IsTotal(g, f, S), IsTotal(h, f, R)
    PROVE  \A s \in SUBSET R : g[s] = h[s]
<1> DEFINE T == {s \in SUBSET R : g[s] # h[s]}
<1>1. SUFFICES ASSUME T # {} PROVE FALSE
  OBVIOUS
<1>2. T \subseteq SUBSET S
  OBVIOUS
<1> HIDE DEF T
<1>3. PICK s \in T : \A t \in T : t \subseteq s => t = s
  BY <1>1, <1>2, LeastSubset
<1>4. s \in SUBSET R /\ s \in SUBSET S /\ g[s] # h[s]
  BY DEF T
<1>5. s # {}
  BY <1>4 DEF IsTotal
<1>6. First(s) \in s
  BY <1>5 DEF First
<1>7. /\ g[s] = f[First(s)] + g[s \ {First(s)}]
      /\ h[s] = f[First(s)] + h[s \ {First(s)}]
  BY <1>4, <1>5 DEF IsTotal
<1>8. s \ {First(s)} \notin T
  BY <1>3, <1>6
<1>9. s \ {First(s)} \in SUBSET R
  BY <1>4
<1>10. QED
  BY <1>4, <1>7, <1>8, <1>9 DEF T

LEMMA TotalExists ==
    ASSUME NEW f, NEW S, IsFiniteSet(S)
    PROVE  \E g : IsTotal(g, f, S)
<1> DEFINE T == {s \in SUBSET S : ~ \E g : IsTotal(g, f, s)}
<1>1. SUFFICES ASSUME T # {} PROVE FALSE
  OBVIOUS
<1>2. T \subseteq SUBSET S
  OBVIOUS
<1> HIDE DEF T
<1>3. PICK s \in T : \A t \in T : t \subseteq s => t = s
  BY <1>1, <1>2, LeastSubset
<1> DEFINE rest(t) == t \ {First(t)}
           below(t) == CHOOSE g : IsTotal(g, f, t)
           all == [t \in SUBSET s |-> IF t = {} THEN 0 ELSE f[First(t)] + below(rest(t))[rest(t)]]
<1>4. s \in SUBSET S /\ IsFiniteSet(s) /\ ~ \E g : IsTotal(g, f, s)
  BY FS_Subset DEF T
<1>5. ASSUME NEW t \in SUBSET s, t # s PROVE IsTotal(below(t), f, t)
  <2>1. t \notin T
    BY <1>3, <1>5
  <2>2. \E g : IsTotal(g, f, t)
    BY <1>4, <2>1 DEF T
  <2>3. QED
    BY <2>2
<1>6. \A t \in SUBSET s : t # {} => First(t) \in t
  BY DEF First
<1> HIDE DEF below
<1>7. ASSUME NEW t \in SUBSET s, t # {}
      PROVE  below(rest(t))[rest(t)] = all[rest(t)]
  <2>1. rest(t) \in SUBSET s /\ rest(t) # s
    BY <1>6, <1>7
  <2>2. IsTotal(below(rest(t)), f, rest(t))
    BY <1>5, <2>1
  <2>3. CASE rest(t) = {}
    <3>1. below({})[{}] = 0
      BY <2>2, <2>3 DEF IsTotal
    <3>2. all[{}] = 0
      OBVIOUS
    <3>3. QED
      BY <2>3, <3>1, <3>2
  <2>4. CASE rest(t) # {}
    <3> DEFINE u == rest(t)
    <3>1. u \in SUBSET s /\ u # {} /\ u # s /\ IsTotal(below(u), f, u) /\ First(u) \in u
      BY <1>6, <2>1, <2>2, <2>4
    <3> HIDE DEF u
    <3>2. rest(u) \in SUBSET u /\ rest(u) \in SUBSET s /\ rest(u) # s
      BY <3>1
    <3>3. below(u)[u] = f[First(u)] + below(u)[rest(u)]
      BY <3>1 DEF IsTotal
    <3>4. all[u] = f[First(u)] + below(rest(u))[rest(u)]
      BY <3>1
    <3>5. IsTotal(below(rest(u)), f, rest(u))
      BY <1>5, <3>2
    <3>6. IsFiniteSet(u)
      BY <1>4, <3>1, FS_Subset
    <3>7. below(u)[rest(u)] = below(rest(u))[rest(u)]
      <4> HIDE DEF rest
      <4>1. \A v \in SUBSET rest(u) : below(u)[v] = below(rest(u))[v]
        BY <3>1, <3>2, <3>5, <3>6, TotalsAgree
      <4>2. QED
        BY <4>1
    <3>8. QED
      BY <3>3, <3>4, <3>7 DEF u
  <2>5. QED
    BY <2>3, <2>4
<1>8. all = [t \in SUBSET s |-> IF t = {} THEN 0 ELSE f[First(t)] + all[t \ {First(t)}]]
  BY <1>7
<1>9. QED
  BY <1>4, <1>8 DEF IsTotal

LEMMA SumIsTotal ==
    ASSUME NEW f, NEW S, NEW g, IsFiniteSet(S), IsTotal(g, f, S)
    PROVE  SumFunctionOnSet(f, S) = g[S]
<1> DEFINE iter == CHOOSE h : IsTotal(h, f, S)
<1>1. SumFunctionOnSet(f, S) = iter[S]
  BY DEF SumFunctionOnSet, FoldFunctionOnSet, MapThenFoldSet, IsTotal, First
<1>2. IsTotal(iter, f, S)
  OBVIOUS
<1> HIDE DEF iter
<1>3. \A s \in SUBSET S : g[s] = iter[s]
  BY <1>2, TotalsAgree
<1>4. QED
  BY <1>1, <1>3

LEMMA SumFirst ==
    ASSUME NEW f, NEW S, IsFiniteSet(S)
    PROVE  SumFunctionOnSet(f, S) =
              IF S = {} THEN 0
              ELSE f[First(S)] + SumFunctionOnSet(f, S \ {First(S)})
<1>1. PICK g : IsTotal(g, f, S)
  BY TotalExists
<1>2. SumFunctionOnSet(f, S) = g[S]
  BY <1>1, SumIsTotal
<1>3. CASE S = {}
  BY <1>1, <1>2, <1>3 DEF IsTotal
<1>4. CASE S # {}
  <2> DEFINE R == S \ {First(S)}
  <2>1. IsFiniteSet(R) /\ R \in SUBSET S
    BY FS_Subset
  <2> HIDE DEF R
  <2>2. PICK h : IsTotal(h, f, R)
    BY <2>1, TotalExists
  <2>3. SumFunctionOnSet(f, R) = h[R]
    BY <2>1, <2>2, SumIsTotal
  <2>4. g[R] = h[R]
    <3>1. \A s \in SUBSET R : g[s] = h[s]
      <4>1. R \in SUBSET S /\ IsTotal(g, f, S) /\ IsTotal(h, f, R)
        BY <1>1, <2>1, <2>2
      <4>2. IsFiniteSet(S) /\ R \subseteq S
        BY <4>1
      <4>3. QED
        BY <4>1, <4>2, TotalsAgree
    <3>2. QED
      BY <3>1
  <2>5. g[S] = f[First(S)] + g[R]
    BY <1>1, <1>4 DEF IsTotal, R
  <2>6. QED
    BY <1>2, <1>4, <2>3, <2>4, <2>5 DEF R
<1>5. QED
  BY <1>3, <1>4

\* The order of a sum does not matter: any member of S may come first.
LEMMA SumProperties ==
    ASSUME NEW S, IsFiniteSet(S), NEW f, \A x \in S : f[x] \in Nat
    PROVE  /\ SumFunctionOnSet(f, S) \in Nat
           /\ \A x \in S : SumFunctionOnSet(f, S) = f[x] + SumFunctionOnSet(f, S \ {x})
<1> DEFINE Sum(s) == SumFunctionOnSet(f, s)
           Good(s) == Sum(s) \in Nat /\ \A x \in s : Sum(s) = f[x] + Sum(s \ {x})
           T == {s \in SUBSET S : ~ Good(s)}
<1>1. SUFFICES ASSUME T # {} PROVE FALSE
  BY DEF Good
<1>2. T \subseteq SUBSET S
  OBVIOUS
<1> HIDE DEF T
<1>3. PICK s \in T : \A t \in T : t \subseteq s => t = s
  BY <1>1, <1>2, LeastSubset
<1> HIDE DEF Good
<1>4. s \in SUBSET S /\ ~ Good(s) /\ IsFiniteSet(s)
  BY FS_Subset DEF T
<1>5. ASSUME NEW t \in SUBSET s, t # s PROVE Good(t)
  BY <1>3, <1>4, <1>5 DEF T
<1>6. s # {}
  <2>1. Sum({}) = 0
    BY SumFirst, FS_EmptySet
  <2>2. QED
    BY <1>4, <2>1 DEF Good
<1> DEFINE y == First(s)
<1>7. y \in s
  BY <1>6 DEF First
<1>8. Sum(s) = f[y] + Sum(s \ {y})
  BY <1>4, <1>6, SumFirst
<1> HIDE DEF Sum, y
<1>9. Good(s \ {y})
  BY <1>5, <1>7
<1>10. Sum(s) \in Nat
  BY <1>4, <1>7, <1>8, <1>9 DEF Good
<1>11. ASSUME NEW x \in s, x # y PROVE Sum(s) = f[x] + Sum(s \ {x})
  <2> DEFINE r == (s \ {x}) \ {y}
  <2>1. r = (s \ {y}) \ {x} /\ x \in s \ {y} /\ y \in s \ {x}
    BY <1>7, <1>11
  <2>2. Good(s \ {x}) /\ Good(r)
    BY <1>5, <1>11
  <2>3. Sum(s \ {y}) = f[x] + Sum(r)
    BY <1>9, <2>1 DEF Good
  <2>4. Sum(s \ {x}) = f[y] + Sum(r)
    BY <2>1, <2>2 DEF Good
  <2>5. Sum(r) \in Nat /\ f[x] \in Nat /\ f[y] \in Nat
    BY <1>4, <1>7, <2>2 DEF Good
  <2> HIDE DEF r
  <2>6. QED
    BY <1>8, <2>3, <2>4, <2>5
<1>12. Good(s)
  BY <1>8, <1>10, <1>11 DEF Good
<1>13. QED
  BY <1>4, <1>12

\* A sum is not greater than another of terms none of which is greater.
LEMMA SumMonotone ==
    ASSUME NEW S, IsFiniteSet(S), NEW f, NEW g,
           \A x \in S : f[x] \in Nat /\ g[x] \in Nat /\ f[x] <= g[x]
    PROVE  SumFunctionOnSet(f, S) <= SumFunctionOnSet(g, S)
<1> DEFINE T == {s \in SUBSET S : ~ (SumFunctionOnSet(f, s) <= SumFunctionOnSet(g, s))}
<1>1. SUFFICES ASSUME T # {} PROVE FALSE
  OBVIOUS
<1>2. T \subseteq SUBSET S
  OBVIOUS
<1> HIDE DEF T
<1>3. PICK s \in T : \A t \in T : t \subseteq s => t = s
  BY <1>1, <1>2, LeastSubset
<1>4. /\ s \in SUBSET S /\ IsFiniteSet(s)
      /\ ~ (SumFunctionOnSet(f, s) <= SumFunctionOnSet(g, s))
  BY FS_Subset DEF T
<1>5. s # {}
  <2>1. SumFunctionOnSet(f, {}) = 0 /\ SumFunctionOnSet(g, {}) = 0
    BY SumFirst, FS_EmptySet
  <2>2. QED
    BY <1>4, <2>1
<1>6. PICK x \in s : TRUE
  BY <1>5
<1> DEFINE r == s \ {x}
<1>7. r \in SUBSET S /\ IsFiniteSet(r) /\ r \notin T
  BY <1>3, <1>4, <1>6, FS_Subset
<1>8. SumFunctionOnSet(f, r) <= SumFunctionOnSet(g, r)
  BY <1>7 DEF T
<1>9. /\ SumFunctionOnSet(f, r) \in Nat /\ SumFunctionOnSet(g, r) \in Nat
      /\ f[x] \in Nat /\ g[x] \in Nat /\ f[x] <= g[x]
  BY <1>4, <1>6, <1>7, SumProperties
<1>10. /\ SumFunctionOnSet(f, s) = f[x] + SumFunctionOnSet(f, r)
       /\ SumFunctionOnSet(g, s) = g[x] + SumFunctionOnSet(g, r)
  BY <1>4, <1>6, SumProperties
<1>11. QED
  BY <1>4, <1>8, <1>9, <1>10

\* One term grows by no more than k, and no other grows: so does the sum.
LEMMA SumGrows ==
    ASSUME NEW S, IsFiniteSet(S), NEW f, NEW g, NEW y \in S, NEW k \in Nat,
           \A x \in S : f[x] \in Nat /\ g[x] \in Nat,
           \A x \in S \ {y} : g[x] <= f[x],
           g[y] <= f[y] + k
    PROVE  SumFunctionOnSet(g, S) <= SumFunctionOnSet(f, S) + k
<1>1. IsFiniteSet(S \ {y})
  BY FS_Subset
<1>2. SumFunctionOnSet(g, S \ {y}) <= SumFunctionOnSet(f, S \ {y})
  BY <1>1, SumMonotone
<1>3. /\ SumFunctionOnSet(f, S) = f[y] + SumFunctionOnSet(f, S \ {y})
      /\ SumFunctionOnSet(g, S) = g[y] + SumFunctionOnSet(g, S \ {y})
  BY SumProperties
<1>4. SumFunctionOnSet(f, S \ {y}) \in Nat /\ SumFunctionOnSet(g, S \ {y}) \in Nat
  BY <1>1, SumProperties
<1>5. QED
  BY <1>2, <1>3, <1>4

\* One term grows by k or more, and no other shrinks: so does the sum.
LEMMA SumAdds ==
    ASSUME NEW S, IsFiniteSet(S), NEW f, NEW g, NEW y \in S, NEW k \in Nat,
           \A x \in S : f[x] \in Nat /\ g[x] \in Nat,
           \A x \in S \ {y} : f[x] <= g[x],
           f[y] + k <= g[y]
    PROVE  SumFunctionOnSet(f, S) + k <= SumFunctionOnSet(g, S)
<1>1. IsFiniteSet(S \ {y})
  BY FS_Subset
<1>2. SumFunctionOnSet(f, S \ {y}) <= SumFunctionOnSet(g, S \ {y})
  BY <1>1, SumMonotone
<1>3. /\ SumFunctionOnSet(f, S) = f[y] + SumFunctionOnSet(f, S \ {y})
      /\ SumFunctionOnSet(g, S) = g[y] + SumFunctionOnSet(g, S \ {y})
  BY SumProperties
<1>4. SumFunctionOnSet(f, S \ {y}) \in Nat /\ SumFunctionOnSet(g, S \ {y}) \in Nat
  BY <1>1, SumProperties
<1>5. QED
  BY <1>2, <1>3, <1>4

LEMMA SumOfZeros ==
    ASSUME NEW S, IsFiniteSet(S), NEW f, \A x \in S : f[x] = 0
    PROVE  SumFunctionOnSet(f, S) = 0
<1> DEFINE T == {s \in SUBSET S : SumFunctionOnSet(f, s) # 0}
<1>1. SUFFICES ASSUME T # {} PROVE FALSE
  OBVIOUS
<1>2. T \subseteq SUBSET S
  OBVIOUS
<1> HIDE DEF T
<1>3. PICK s \in T : \A t \in T : t \subseteq s => t = s
  BY <1>1, <1>2, LeastSubset
<1>4. s \in SUBSET S /\ IsFiniteSet(s) /\ SumFunctionOnSet(f, s) # 0
  BY FS_Subset DEF T
<1>5. s # {}
  BY <1>4, SumFirst
<1>6. First(s) \in s
  BY <1>5 DEF First
<1>7. s \ {First(s)} \notin T /\ s \ {First(s)} \in SUBSET S
  BY <1>3, <1>4, <1>6
<1>8. SumFunctionOnSet(f, s \ {First(s)}) = 0
  BY <1>7 DEF T
<1>9. SumFunctionOnSet(f, s) = f[First(s)] + SumFunctionOnSet(f, s \ {First(s)})
  BY <1>4, <1>5, SumFirst
<1>10. QED
  BY <1>4, <1>6, <1>8, <1>9

=============================================================================
