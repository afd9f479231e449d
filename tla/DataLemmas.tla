----------------------------- MODULE DataLemmas -----------------------------
(***************************************************************************)
(* Facts about numbers, sets and sequences that the proofs of several      *)
(* modules need.  What would be an induction elsewhere is an argument      *)
(* about a smallest counterexample here (LeastElement).                    *)
(***************************************************************************)
EXTENDS Enumeration, Sequences, FiniteSetTheorems, SequenceTheorems,
        WellFoundedInduction, NaturalsInduction, TLAPS

Less == {ss \in Nat \X Nat : ss[1] < ss[2]}

\* Any set of natural numbers but the empty one has a smallest element.
LEMMA LeastElement ==
  ASSUME NEW S \in SUBSET Nat, S # {}
  PROVE  \E n \in S : \A m \in S : n <= m
<1>1. IsWellFoundedOn(Less, Nat)
  BY NatLessThanWellFounded DEF OpToRel, Less
<1>2. PICK n \in S : \A m \in S : ~(<<m, n>> \in Less)
  BY <1>1, WFMin
<1>3. ASSUME NEW m \in S PROVE n <= m
  <2>1. m \in Nat /\ n \in Nat
    OBVIOUS
  <2>2. ~(m < n)
    BY <1>2, <2>1 DEF Less
  <2>. QED BY <2>1, <2>2
<1>. QED BY <1>3

\* A finite set of integers has a greatest element.
LEMMA GreatestElement ==
  ASSUME NEW S \in SUBSET Int, IsFiniteSet(S), S # {}
  PROVE  \E x \in S : \A y \in S : x >= y
<1>. DEFINE HasMax(X) == \E x \in X : \A y \in X : x >= y
            Bad == {n \in Nat : \E X \in SUBSET Int :
                      IsFiniteSet(X) /\ X # {} /\ Cardinality(X) = n /\ ~HasMax(X)}
<1>1. ASSUME Bad # {} PROVE FALSE
  <2>1. PICK n \in Bad : \A m \in Bad : n <= m
    <3>. HIDE DEF Bad
    <3>1. Bad \subseteq Nat
      BY DEF Bad
    <3>. QED BY <1>1, <3>1, LeastElement
  <2>2. PICK X \in SUBSET Int : IsFiniteSet(X) /\ X # {} /\ Cardinality(X) = n /\ ~HasMax(X)
    BY <2>1
  <2>3. PICK e \in X : TRUE
    BY <2>2
  <2>. DEFINE Y == X \ {e}
  <2>4. IsFiniteSet(Y) /\ Cardinality(Y) = n - 1 /\ n - 1 \in Nat
    <3>1. Cardinality(X) \in Nat /\ IsFiniteSet(Y) /\ Cardinality(Y) \in Nat
      BY <2>2, FS_RemoveElement, FS_CardinalityType
    <3>2. Cardinality(Y) = Cardinality(X) - 1
      BY <2>2, <2>3, FS_RemoveElement
    <3>. QED BY <2>2, <3>1, <3>2
  <2>5. Y # {}
    <3>. SUFFICES ASSUME Y = {} PROVE FALSE
      OBVIOUS
    <3>1. \A y \in X : e >= y
      BY <2>3
    <3>. QED BY <2>2, <2>3, <3>1
  <2>6. n - 1 \notin Bad
    BY <2>1, <2>4
  <2>7. HasMax(Y)
    BY <2>4, <2>5, <2>6
  <2>8. PICK m \in Y : \A y \in Y : m >= y
    BY <2>7
  <2>9. \A y \in X : (IF m >= e THEN m ELSE e) >= y
    BY <2>3, <2>8
  <2>. QED BY <2>2, <2>3, <2>8, <2>9
<1>. QED BY <1>1, FS_CardinalityType


LEMMA SeqMonotone ==
  ASSUME NEW S, NEW T, S \subseteq T, NEW s \in Seq(S)
  PROVE  s \in Seq(T)
<1>1. Len(s) \in Nat /\ 1 \in Int
  BY LenProperties
<1>2. \A k \in 1 .. Len(s) : s[k] \in T
  BY ElementOfSeq
<1>3. SubSeq(s, 1, Len(s)) \in Seq(T)
  BY <1>1, <1>2, SubSeqProperties
<1>4. SubSeq(s, 1, Len(s)) = s
  BY SubSeqFull
<1>. QED BY <1>3, <1>4

\* What a concatenation has in which place.
LEMMA Extended ==
  ASSUME NEW S, NEW a \in Seq(S), NEW b \in Seq(S)
  PROVE  /\ a \o b \in Seq(S) /\ Len(a) \in Nat /\ Len(b) \in Nat
         /\ Len(a \o b) = Len(a) + Len(b)
         /\ \A i \in 1 .. Len(a) : (a \o b)[i] = a[i]
         /\ \A k \in 1 .. Len(b) : (a \o b)[Len(a) + k] = b[k]
         /\ SubSeq(a \o b, Len(a) + 1, Len(a) + Len(b)) = b
<1>. DEFINE s == a \o b
            u == SubSeq(s, Len(a) + 1, Len(a) + Len(b))
<1>1. Len(a) \in Nat /\ Len(b) \in Nat
  BY LenProperties
<1>2. /\ s \in Seq(S) /\ Len(s) = Len(a) + Len(b)
      /\ \A i \in 1 .. Len(a) + Len(b) : s[i] = IF i <= Len(a) THEN a[i] ELSE b[i - Len(a)]
  BY ConcatProperties
<1>. HIDE DEF s
<1>3. \A i \in 1 .. Len(a) : s[i] = a[i]
  BY <1>1, <1>2
<1>4. \A k \in 1 .. Len(b) : s[Len(a) + k] = b[k]
  BY <1>1, <1>2
<1>5. \A i \in Len(a) + 1 .. Len(a) + Len(b) : s[i] \in S
  BY <1>1, <1>2, ElementOfSeq
<1>6. u \in Seq(S) /\ Len(u) = Len(b) /\ \A k \in 1 .. Len(b) : u[k] = s[Len(a) + k]
  BY <1>1, <1>5, SubSeqProperties
<1>7. u = b
  <2>. HIDE DEF u
  <2>. QED BY <1>4, <1>6, SeqEqual
<1>. QED BY <1>1, <1>2, <1>3, <1>4, <1>7 DEF s

\* A finite set of numbers has a first, a second, ... and a last.
LEMMA InOrderSelects ==
  ASSUME NEW S \in SUBSET Nat, IsFiniteSet(S), NEW k \in 1 .. Cardinality(S)
  PROVE  InOrder(S)[k] \in S
<1>. DEFINE Upto(j) == {i \in S : i < j}
            T == {j \in Nat : Cardinality(Upto(j)) >= k}
<1>1. PICK n \in Nat : \A i \in S : i \in Nat /\ i < n
  <2>1. S # {}
    BY FS_EmptySet
  <2>2. S \subseteq Int
    OBVIOUS
  <2>3. PICK m \in S : \A i \in S : m >= i
    BY <2>1, <2>2, GreatestElement
  <2>4. m + 1 \in Nat /\ \A i \in S : i \in Nat /\ i < m + 1
    <3>1. m \in Nat /\ \A i \in S : i \in Nat
      OBVIOUS
    <3>. QED BY <2>3, <3>1
  <2>. QED BY <2>4
<1>2. ASSUME NEW j \in Nat
      PROVE  IsFiniteSet(Upto(j)) /\ Cardinality(Upto(j)) \in Nat
  <2>1. Upto(j) \subseteq S
    OBVIOUS
  <2>. QED BY <2>1, FS_Subset, FS_CardinalityType
<1>3. k \in Nat /\ k >= 1 /\ k <= Cardinality(S)
  BY FS_CardinalityType
<1>4. n \in T
  <2>1. Upto(n) = S
    BY <1>1
  <2>. QED BY <1>3, <2>1
<1>5. PICK j \in T : \A m \in T : j <= m
  <2>. HIDE DEF T
  <2>1. T \subseteq Nat
    BY DEF T
  <2>. QED BY <1>4, <2>1, LeastElement
<1>6. j \in Nat /\ Cardinality(Upto(j)) >= k
  BY <1>5
<1>. DEFINE x == j - 1
<1>7. x \in Nat
  <2>1. Upto(0) = {}
    <3>. SUFFICES ASSUME NEW i \in Upto(0) PROVE FALSE
      OBVIOUS
    <3>. QED BY i \in Nat /\ i < 0
  <2>2. Cardinality(Upto(0)) = 0
    BY <2>1, FS_EmptySet
  <2>. QED BY <1>3, <1>6, <2>2
<1>8. Cardinality(Upto(x)) < k
  <2>. SUFFICES ASSUME ~(Cardinality(Upto(x)) < k) PROVE FALSE
    OBVIOUS
  <2>1. Cardinality(Upto(x)) >= k
    <3>1. Cardinality(Upto(x)) \in Nat
      BY <1>2, <1>7
    <3>. HIDE DEF Upto
    <3>. QED BY <1>3, <3>1
  <2>2. x \in T
    BY <1>7, <2>1
  <2>. HIDE DEF T
  <2>. QED BY <1>5, <1>6, <2>2
<1>9. x \in S
  <2>. SUFFICES ASSUME x \notin S PROVE FALSE
    OBVIOUS
  <2>1. \A i \in S : i < j <=> i < x
    BY <1>1, <1>6
  <2>2. Upto(j) = Upto(x)
    BY <2>1
  <2>. QED BY <1>2, <1>3, <1>6, <1>7, <1>8, <2>2
<1>10. Upto(j) = Upto(x) \cup {x} /\ x \notin Upto(x)
  <2>1. \A i \in S : i < j <=> i < x \/ i = x
    BY <1>1, <1>6
  <2>2. x \notin Upto(x)
    BY <1>6
  <2>. QED BY <1>9, <2>1, <2>2
<1>11. Cardinality(Upto(j)) = Cardinality(Upto(x)) + 1
  <2>. HIDE DEF Upto
  <2>. QED BY <1>2, <1>7, <1>10, FS_AddElement
<1>12. Cardinality(Upto(x)) = k - 1
  <2>. HIDE DEF Upto
  <2>. QED BY <1>2, <1>3, <1>6, <1>7, <1>8, <1>11
<1>13. InOrder(S)[k] = CHOOSE y \in S : Cardinality({i \in S : i < y}) = k - 1
  BY DEF InOrder
<1>. QED BY <1>9, <1>12, <1>13
=============================================================================
