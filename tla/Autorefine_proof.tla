-------------------------- MODULE Autorefine_proof --------------------------
(***************************************************************************)
(* Proofs about Autorefine for all loops, factors, results and scales.     *)
(***************************************************************************)
EXTENDS Autorefine, DataLemmas

-----------------------------------------------------------------------------
(* Numbers: multiples, and the middle of two of them. *)

Multiple(x, m) == \E p \in Int : x = m * p

LEMMA MultipleGap ==
  ASSUME NEW m \in Nat \ {0}, NEW x \in Int, NEW y \in Int,
         Multiple(x, m), Multiple(y, m), x < y
  PROVE  x + m <= y
<1>1. PICK p \in Int : x = m * p
  BY DEF Multiple
<1>2. PICK q \in Int : y = m * q
  BY DEF Multiple
<1>3. p + 1 <= q
  <2>. SUFFICES ASSUME q <= p PROVE FALSE
    OBVIOUS
  <2>1. m * q <= m * p
    OBVIOUS
  <2>. QED BY <1>1, <1>2, <2>1
<1>4. m * (p + 1) <= m * q
  BY <1>3
<1>5. m * (p + 1) = m * p + m
  OBVIOUS
<1>. QED BY <1>1, <1>2, <1>4, <1>5

LEMMA MultipleSum ==
  ASSUME NEW m \in Nat \ {0}, NEW x \in Int, NEW y \in Int,
         Multiple(x, m), Multiple(y, m)
  PROVE  Multiple(x + y, m)
<1>1. PICK p \in Int : x = m * p
  BY DEF Multiple
<1>2. PICK q \in Int : y = m * q
  BY DEF Multiple
<1>3. x + y = m * (p + q) /\ p + q \in Int
  BY <1>1, <1>2
<1>. QED BY <1>3 DEF Multiple

LEMMA MultipleMod ==
  ASSUME NEW m \in Nat \ {0}, NEW x \in Int, x % m = 0
  PROVE  Multiple(x, m)
<1>1. x = m * (x \div m) + (x % m) /\ x \div m \in Int
  OBVIOUS
<1>. QED BY <1>1 DEF Multiple

LEMMA ModMultiple ==
  ASSUME NEW m \in Nat \ {0}, NEW x \in Int, Multiple(x, m)
  PROVE  x % m = 0
<1>1. PICK p \in Int : x = m * p
  BY DEF Multiple
<1>2. PICK q \in Int : x = m * q + (x % m) /\ 0 <= x % m /\ x % m < m /\ x % m \in Int
  <2>1. x = m * (x \div m) + (x % m) /\ x \div m \in Int /\ x % m \in 0 .. m - 1
    OBVIOUS
  <2>2. 0 <= x % m /\ x % m < m /\ x % m \in Int
    BY <2>1
  <2>. QED BY <2>1, <2>2
<1>3. m * (p - q) = x % m
  <2>1. m * (p - q) = m * p - m * q /\ m * p \in Int /\ m * q \in Int
    OBVIOUS
  <2>. QED BY <1>1, <1>2, <2>1
<1>4. \A d \in Int : d >= 1 => m * d >= m
  OBVIOUS
<1>5. \A d \in Int : d <= -1 => m * d < 0
  OBVIOUS
<1>6. p - q \in Int /\ ~(p - q >= 1) /\ ~(p - q <= -1)
  BY <1>2, <1>3, <1>4, <1>5
<1>7. p - q = 0
  BY <1>6
<1>8. m * 0 = 0
  OBVIOUS
<1>. QED BY <1>3, <1>7, <1>8

\* Rounding gives the nearest multiple.
LEMMA Rounding ==
  ASSUME NEW m \in Nat \ {0}, NEW n \in Int
  PROVE  LET r == round_int_to_multipleof(n, m)
         IN r \in Int /\ Multiple(r, m) /\ 2 * (r - n) <= m /\ 2 * (n - r) <= m
<1>. DEFINE a == Abs(n)
            d == a \div m
            t == IF a - d * m <= (d + 1) * m - a THEN d ELSE d + 1
<1>1. a \in Nat /\ (n < 0 => n = -a) /\ (n >= 0 => n = a)
  BY DEF Abs
<1>2. d \in Nat
  <2>. HIDE DEF a
  <2>. QED BY <1>1
<1>3. d * m <= a /\ a < d * m + m
  <2>1. a = m * d + (a % m) /\ (a % m) \in 0 .. m - 1
    <3>. HIDE DEF a
    <3>. QED BY <1>1
  <2>2. m * d = d * m
    BY <1>2
  <2>3. d * m \in Int
    BY <1>2
  <2>. HIDE DEF a, d
  <2>. QED BY <1>1, <2>1, <2>2, <2>3
<1>4. (d + 1) * m = d * m + m
  BY <1>2
<1>5. t \in Nat /\ t * m \in Int /\ 2 * (t * m - a) <= m /\ 2 * (a - t * m) <= m
  <2>1. d * m \in Int
    BY <1>2
  <2>. HIDE DEF a, d
  <2>. QED BY <1>1, <1>2, <1>3, <1>4, <2>1
<1>6. round_int_to_multipleof(n, m) = IF n < 0 THEN -(t * m) ELSE t * m
  BY DEF round_int_to_multipleof
<1>7. Multiple(t * m, m) /\ Multiple(-(t * m), m)
  <2>. HIDE DEF t
  <2>1. t * m = m * t /\ -(t * m) = m * (-t) /\ -t \in Int /\ t \in Int
    BY <1>5
  <2>. QED BY <2>1 DEF Multiple
<1>. HIDE DEF t, a
<1>. QED BY <1>1, <1>5, <1>6, <1>7

LEMMA HalfWay ==
  ASSUME NEW n \in Int
  PROVE  Half(n) \in Int /\ 2 * Half(n) - n <= 1 /\ n - 2 * Half(n) <= 1
BY DEF Half

\* The rounded middle of two multiples lies between them, and is one of the
\* two only if no multiple is in between.
LEMMA MiddleBetween ==
  ASSUME NEW m \in Nat \ {0}, NEW a \in Int, NEW b \in Int,
         Multiple(a, m), Multiple(b, m), a < b
  PROVE  LET r == round_int_to_multipleof(Half(a + b), m)
         IN /\ r \in Int /\ Multiple(r, m) /\ a <= r /\ r <= b
            /\ r \in {a, b} => b - a <= m
<1>. DEFINE n == Half(a + b)
            r == round_int_to_multipleof(n, m)
<1>1. n \in Int /\ 2 * n - (a + b) <= 1 /\ (a + b) - 2 * n <= 1
  BY a + b \in Int, HalfWay
<1>2. r \in Int /\ Multiple(r, m) /\ 2 * (r - n) <= m /\ 2 * (n - r) <= m
  <2>. HIDE DEF n
  <2>. QED BY <1>1, Rounding
<1>. HIDE DEF n, r
<1>3. a + m <= b
  BY MultipleGap
<1>4. a <= r
  <2>. SUFFICES ASSUME r < a PROVE FALSE
    BY <1>2
  <2>1. r + m <= a
    BY <1>2, MultipleGap
  <2>. QED BY <1>1, <1>2, <1>3, <2>1
<1>5. r <= b
  <2>. SUFFICES ASSUME b < r PROVE FALSE
    BY <1>2
  <2>1. b + m <= r
    BY <1>2, MultipleGap
  <2>. QED BY <1>1, <1>2, <1>3, <2>1
<1>6. ASSUME r \in {a, b}, b - a > m PROVE FALSE
  <2>1. Multiple(m, m)
    BY m = m * 1, 1 \in Int DEF Multiple
  <2>2. Multiple(a + m, m) /\ a + m < b /\ a + m \in Int
    BY <1>6, <2>1, MultipleSum
  <2>3. a + m + m <= b
    BY <2>2, MultipleGap
  <2>. QED BY <1>1, <1>2, <1>6, <2>3
<1>. QED BY <1>2, <1>4, <1>5, <1>6 DEF n, r

-----------------------------------------------------------------------------
(* Sequences: an element put in, or taken out. *)

HasPutIn(u, s, k, e) ==
  /\ Len(u) = Len(s) + 1
  /\ u[k] = e
  /\ \A j \in 1 .. k - 1 : u[j] = s[j]
  /\ \A j \in k .. Len(s) : u[j + 1] = s[j]

LEMMA PutIn ==
  ASSUME NEW S, NEW s \in Seq(S), NEW e \in S, NEW k \in 1 .. Len(s) + 1
  PROVE  InsertAt(s, k, e) \in Seq(S) /\ HasPutIn(InsertAt(s, k, e), s, k, e)
<1>. DEFINE a == SubSeq(s, 1, k - 1)
            b == SubSeq(s, k, Len(s))
            c == a \o <<e>>
<1>1. Len(s) \in Nat /\ \A j \in 1 .. Len(s) : s[j] \in S
  BY LenProperties, ElementOfSeq
<1>2. a \in Seq(S) /\ Len(a) = k - 1 /\ \A j \in 1 .. k - 1 : a[j] = s[j]
  <2>1. \A j \in 1 .. k - 1 : s[j] \in S
    BY <1>1
  <2>2. k - 1 \in Int /\ 1 <= k
    BY <1>1
  <2>3. /\ a \in Seq(S)
        /\ Len(a) = IF 1 <= k - 1 THEN k - 1 ELSE 0
        /\ \A j \in 1 .. (k - 1) - 1 + 1 : a[j] = s[1 + j - 1]
    BY <1>1, <2>1, <2>2, SubSeqProperties
  <2>. HIDE DEF a
  <2>. QED BY <1>1, <2>3
<1>3. b \in Seq(S) /\ Len(b) = Len(s) + 1 - k /\ \A j \in 1 .. Len(s) + 1 - k : b[j] = s[k + j - 1]
  <2>1. \A j \in k .. Len(s) : s[j] \in S
    BY <1>1
  <2>2. k \in Int /\ Len(s) \in Int
    BY <1>1
  <2>3. /\ b \in Seq(S)
        /\ Len(b) = IF k <= Len(s) THEN Len(s) - k + 1 ELSE 0
        /\ \A j \in 1 .. Len(s) - k + 1 : b[j] = s[k + j - 1]
    BY <2>1, <2>2, SubSeqProperties
  <2>. HIDE DEF b
  <2>. QED BY <1>1, <2>3
<1>4. <<e>> \in Seq(S) /\ Len(<<e>>) = 1 /\ <<e>>[1] = e
  OBVIOUS
<1>. HIDE DEF a, b
<1>5. c \in Seq(S) /\ Len(c) = k /\ c[k] = e /\ \A j \in 1 .. k - 1 : c[j] = s[j]
  <2>1. /\ c \in Seq(S) /\ Len(c) = Len(a) + Len(<<e>>)
        /\ \A j \in 1 .. Len(a) + Len(<<e>>) : c[j] = IF j <= Len(a) THEN a[j] ELSE <<e>>[j - Len(a)]
    BY <1>2, <1>4, ConcatProperties
  <2>. HIDE DEF c
  <2>. QED BY <1>1, <1>2, <1>4, <2>1
<1>. HIDE DEF c
<1>. DEFINE w == c \o b
<1>6. /\ w \in Seq(S) /\ Len(w) = Len(c) + Len(b)
      /\ \A j \in 1 .. Len(c) + Len(b) : w[j] = IF j <= Len(c) THEN c[j] ELSE b[j - Len(c)]
  BY <1>3, <1>5, ConcatProperties
<1>7. InsertAt(s, k, e) = w
  BY DEF InsertAt, a, b, c
<1>. HIDE DEF w
<1>8. Len(w) = Len(s) + 1
  BY <1>1, <1>3, <1>5, <1>6
<1>9. ASSUME NEW j \in 1 .. Len(s) + 1 PROVE w[j] = IF j <= k THEN c[j] ELSE b[j - k]
  BY <1>1, <1>3, <1>5, <1>6
<1>10. w[k] = e
  BY <1>1, <1>5, <1>9
<1>11. ASSUME NEW j \in 1 .. k - 1 PROVE w[j] = s[j]
  BY <1>1, <1>5, <1>9
<1>12. ASSUME NEW j \in k .. Len(s) PROVE w[j + 1] = s[j]
  <2>1. (j + 1) - k \in 1 .. Len(s) + 1 - k /\ k + ((j + 1) - k) - 1 = j
    BY <1>1
  <2>2. w[j + 1] = b[(j + 1) - k]
    <3>1. j + 1 \in 1 .. Len(s) + 1 /\ ~(j + 1 <= k)
      BY <1>1
    <3>. QED BY <1>9, <3>1
  <2>. QED BY <1>1, <1>3, <2>1, <2>2
<1>13. HasPutIn(w, s, k, e)
  BY <1>8, <1>10, <1>11, <1>12 DEF HasPutIn
<1>. QED BY <1>6, <1>7, <1>13

LEMMA TakeOut ==
  ASSUME NEW S, NEW s \in Seq(S), NEW k \in 1 .. Len(s)
  PROVE  /\ RemoveAt(s, k) \in Seq(S)
         /\ Len(RemoveAt(s, k)) = Len(s) - 1
         /\ \A j \in 1 .. Len(s) - 1 : RemoveAt(s, k)[j] = IF j < k THEN s[j] ELSE s[j + 1]
<1>. DEFINE a == SubSeq(s, 1, k - 1)
            b == SubSeq(s, k + 1, Len(s))
<1>1. Len(s) \in Nat /\ \A j \in 1 .. Len(s) : s[j] \in S
  BY LenProperties, ElementOfSeq
<1>2. a \in Seq(S) /\ Len(a) = k - 1 /\ \A j \in 1 .. k - 1 : a[j] = s[j]
  <2>1. \A j \in 1 .. k - 1 : s[j] \in S
    BY <1>1
  <2>2. k - 1 \in Int /\ 1 <= k
    BY <1>1
  <2>3. /\ a \in Seq(S)
        /\ Len(a) = IF 1 <= k - 1 THEN k - 1 ELSE 0
        /\ \A j \in 1 .. (k - 1) - 1 + 1 : a[j] = s[1 + j - 1]
    BY <1>1, <2>1, <2>2, SubSeqProperties
  <2>. HIDE DEF a
  <2>. QED BY <1>1, <2>3
<1>3. b \in Seq(S) /\ Len(b) = Len(s) - k /\ \A j \in 1 .. Len(s) - k : b[j] = s[k + j]
  <2>1. \A j \in k + 1 .. Len(s) : s[j] \in S
    BY <1>1
  <2>2. k + 1 \in Int /\ Len(s) \in Int
    BY <1>1
  <2>3. /\ b \in Seq(S)
        /\ Len(b) = IF k + 1 <= Len(s) THEN Len(s) - (k + 1) + 1 ELSE 0
        /\ \A j \in 1 .. Len(s) - (k + 1) + 1 : b[j] = s[(k + 1) + j - 1]
    BY <2>1, <2>2, SubSeqProperties
  <2>. HIDE DEF b
  <2>. QED BY <1>1, <2>3
<1>. HIDE DEF a, b
<1>4. /\ a \o b \in Seq(S) /\ Len(a \o b) = Len(a) + Len(b)
      /\ \A j \in 1 .. Len(a) + Len(b) : (a \o b)[j] = IF j <= Len(a) THEN a[j] ELSE b[j - Len(a)]
  BY <1>2, <1>3, ConcatProperties
<1>5. RemoveAt(s, k) = a \o b
  BY DEF RemoveAt, a, b
<1>6. Len(a \o b) = Len(s) - 1
  BY <1>1, <1>2, <1>3, <1>4
<1>7. ASSUME NEW j \in 1 .. Len(s) - 1
      PROVE  (a \o b)[j] = IF j < k THEN s[j] ELSE s[j + 1]
  <2>1. (a \o b)[j] = IF j <= k - 1 THEN a[j] ELSE b[j - (k - 1)]
    BY <1>1, <1>2, <1>3, <1>4
  <2>2. ~(j < k) => j - (k - 1) \in 1 .. Len(s) - k /\ k + (j - (k - 1)) = j + 1
    BY <1>1
  <2>. QED BY <1>1, <1>2, <1>3, <2>1, <2>2
<1>. QED BY <1>4, <1>5, <1>6, <1>7

\* A new element in a sequence without repetitions.
LEMMA PutInNew ==
  ASSUME NEW S, NEW s \in Seq(S), NEW e \in S, NEW k \in 1 .. Len(s) + 1,
         IsInjective(s), e \notin ToSet(s)
  PROVE  IsInjective(InsertAt(s, k, e)) /\ ToSet(InsertAt(s, k, e)) = ToSet(s) \cup {e}
<1>. DEFINE u == InsertAt(s, k, e)
<1>1. /\ u \in Seq(S) /\ Len(u) = Len(s) + 1 /\ u[k] = e
      /\ \A j \in 1 .. k - 1 : u[j] = s[j]
      /\ \A j \in k .. Len(s) : u[j + 1] = s[j]
  <2>1. u \in Seq(S) /\ HasPutIn(u, s, k, e)
    BY PutIn
  <2>. HIDE DEF u
  <2>. QED BY <2>1 DEF HasPutIn
<1>. HIDE DEF u
<1>2. Len(s) \in Nat /\ DOMAIN s = 1 .. Len(s) /\ DOMAIN u = 1 .. Len(s) + 1
  BY <1>1, LenProperties
<1>3. \A j \in 1 .. Len(s) : s[j] # e
  BY <1>2 DEF ToSet
<1>4. \A i, j \in 1 .. Len(s) : s[i] = s[j] => i = j
  BY <1>2 DEF IsInjective
<1>4a. ASSUME NEW h \in 1 .. Len(s) + 1
      PROVE  /\ h < k => h \in 1 .. Len(s) /\ u[h] = s[h]
             /\ h = k => u[h] = e
             /\ h > k => h - 1 \in 1 .. Len(s) /\ u[h] = s[h - 1]
  <2>1. h > k => h - 1 \in k .. Len(s) /\ (h - 1) + 1 = h
    BY <1>2
  <2>. QED BY <1>1, <1>2, <2>1
<1>5. ASSUME NEW i \in 1 .. Len(s) + 1, NEW j \in 1 .. Len(s) + 1, u[i] = u[j]
      PROVE  i = j
  <2>1. ASSUME NEW h \in 1 .. Len(s) + 1
        PROVE  /\ h < k => h \in 1 .. Len(s) /\ u[h] = s[h]
               /\ h = k => u[h] = e
               /\ h > k => h - 1 \in 1 .. Len(s) /\ u[h] = s[h - 1]
    BY <1>4a
  <2>. QED BY <1>2, <1>3, <1>4, <1>5, <2>1
<1>6. ASSUME NEW j \in 1 .. Len(s) + 1 PROVE u[j] \in ToSet(s) \cup {e}
  <2>1. j < k => j \in 1 .. Len(s) /\ u[j] = s[j]
    BY <1>4a
  <2>2. j > k => j - 1 \in 1 .. Len(s) /\ u[j] = s[j - 1]
    BY <1>4a
  <2>3. j = k => u[j] = e
    BY <1>1
  <2>. QED BY <1>2, <2>1, <2>2, <2>3 DEF ToSet
<1>7. ASSUME NEW j \in 1 .. Len(s) PROVE \E i \in 1 .. Len(s) + 1 : u[i] = s[j]
  <2>1. CASE j < k
    BY <1>1, <1>2, <2>1
  <2>2. CASE j >= k
    <3>1. j + 1 \in 1 .. Len(s) + 1 /\ ~(j + 1 < k) /\ j + 1 # k /\ (j + 1) - 1 = j
      BY <1>2, <2>2
    <3>. QED BY <1>1, <3>1
  <2>. QED BY <1>2, <2>1, <2>2
<1>8. k \in 1 .. Len(s) + 1 /\ u[k] = e
  BY <1>1
<1>9. ToSet(u) = ToSet(s) \cup {e}
  BY <1>2, <1>6, <1>7, <1>8 DEF ToSet
<1>. QED BY <1>2, <1>5, <1>9 DEF u, IsInjective

LEMMA TakeOutOne ==
  ASSUME NEW S, NEW s \in Seq(S), NEW k \in 1 .. Len(s), IsInjective(s)
  PROVE  IsInjective(RemoveAt(s, k)) /\ ToSet(RemoveAt(s, k)) = ToSet(s) \ {s[k]}
<1>. DEFINE u == RemoveAt(s, k)
<1>1. /\ u \in Seq(S) /\ Len(u) = Len(s) - 1
      /\ \A j \in 1 .. Len(s) - 1 : u[j] = IF j < k THEN s[j] ELSE s[j + 1]
  BY TakeOut
<1>. HIDE DEF u
<1>2. Len(s) \in Nat /\ DOMAIN s = 1 .. Len(s) /\ DOMAIN u = 1 .. Len(s) - 1
  BY <1>1, LenProperties
<1>3. \A i, j \in 1 .. Len(s) : s[i] = s[j] => i = j
  BY <1>2 DEF IsInjective
<1>4. ASSUME NEW h \in 1 .. Len(s) - 1
      PROVE  /\ h < k => h \in 1 .. Len(s) /\ h # k /\ u[h] = s[h]
             /\ h >= k => h + 1 \in 1 .. Len(s) /\ h + 1 # k /\ u[h] = s[h + 1]
  BY <1>1, <1>2
<1>5. ASSUME NEW i \in 1 .. Len(s) - 1, NEW j \in 1 .. Len(s) - 1, u[i] = u[j]
      PROVE  i = j
  BY <1>2, <1>3, <1>4, <1>5
<1>6. ASSUME NEW j \in 1 .. Len(s) - 1 PROVE u[j] \in ToSet(s) \ {s[k]}
  <2>1. \E h \in 1 .. Len(s) : h # k /\ u[j] = s[h]
    BY <1>2, <1>4
  <2>. QED BY <1>2, <1>3, <2>1 DEF ToSet
<1>7. ASSUME NEW j \in 1 .. Len(s), j # k PROVE \E i \in 1 .. Len(s) - 1 : u[i] = s[j]
  <2>1. CASE j < k
    BY <1>2, <1>4, <2>1
  <2>2. CASE j > k
    <3>1. j - 1 \in 1 .. Len(s) - 1 /\ j - 1 >= k /\ (j - 1) + 1 = j
      BY <1>2, <2>2
    <3>. QED BY <1>4, <3>1
  <2>. QED BY <1>2, <1>7, <2>1, <2>2
<1>8. ToSet(u) = ToSet(s) \ {s[k]}
  <2>1. ToSet(u) \subseteq ToSet(s) \ {s[k]}
    BY <1>2, <1>6 DEF ToSet
  <2>2. ASSUME NEW x \in ToSet(s) \ {s[k]} PROVE x \in ToSet(u)
    <3>1. PICK j \in 1 .. Len(s) : x = s[j]
      BY <1>2 DEF ToSet
    <3>2. PICK i \in 1 .. Len(s) - 1 : u[i] = s[j]
      BY <1>7, <3>1
    <3>. QED BY <1>2, <3>1, <3>2 DEF ToSet
  <2>. QED BY <2>1, <2>2
<1>. QED BY <1>2, <1>5, <1>8 DEF u, IsInjective

-----------------------------------------------------------------------------
(* The lists: types, order, candidates between results, the queue.         *)

ListType(s) ==
  /\ s \in [node : Seq(Nodes), results : Seq(Nat), candidates : Seq(Nat),
             multipleof : Nat \ {0}]
  /\ \A k \in 1 .. Len(s.results) : s.results[k] \in 1 .. Len(s.node)
  /\ IsInjective(s.results)

Cand(s, k) == At(s, k).is_candidate
Value(s, k) == At(s, k).i

\* e: the last position that is not the guard at the end.
Sorted(s, e) ==
  /\ \A j, k \in 1 .. Len(s.results) : j <= k => Value(s, j) <= Value(s, k)
  /\ \A j, k \in 2 .. e : j < k => Value(s, j) < Value(s, k)
Spaced(s) ==
  \A k \in 1 .. Len(s.results) :
    Cand(s, k) => k \in 3 .. Len(s.results) - 2 /\ ~Cand(s, k - 1) /\ ~Cand(s, k + 1)
Halved(s) ==
  \A k \in 1 .. Len(s.results) :
    Cand(s, k) => Value(s, k) = Middle(s, At(s, k - 1), At(s, k + 1))
CandidateIds(s) == {id \in ToSet(s.results) : s.node[id].is_candidate}
Queued(s) == IsInjective(s.candidates) /\ ToSet(s.candidates) = CandidateIds(s)
Multiples(s) == \A k \in 1 .. Len(s.results) : Multiple(Value(s, k), s.multipleof)

Chain(s, e) ==
  /\ ListType(s) /\ Len(s.results) >= 3 /\ e \in {Len(s.results), Len(s.results) - 1} /\ e >= 3
  /\ Sorted(s, e) /\ Spaced(s) /\ Halved(s) /\ Queued(s) /\ Multiples(s)

\* X: the positions whose weight is not up to date.
Fresh(s, X) ==
  \A k \in (1 .. Len(s.results)) \ X : Cand(s, k) => At(s, k).weight = Key(s, k)

\* The results next to position k.
Before(s, k) == IF Cand(s, k - 1) THEN At(s, k - 2) ELSE At(s, k - 1)
After(s, k) == IF Cand(s, k + 1) THEN At(s, k + 2) ELSE At(s, k + 1)

LEMMA AtType ==
  ASSUME NEW s, ListType(s)
  PROVE  /\ Len(s.results) \in Nat /\ Len(s.node) \in Nat
         /\ \A k \in 1 .. Len(s.results) :
              /\ At(s, k) \in Nodes
              /\ Value(s, k) \in Int /\ Cand(s, k) \in BOOLEAN
              /\ At(s, k).result \in Nat /\ At(s, k).weight \in Nat
<1>1. s.node \in Seq(Nodes) /\ s.results \in Seq(Nat)
  BY DEF ListType
<1>2. Len(s.results) \in Nat /\ Len(s.node) \in Nat
  BY <1>1, LenProperties
<1>3. ASSUME NEW k \in 1 .. Len(s.results) PROVE At(s, k) \in Nodes
  <2>1. s.results[k] \in 1 .. Len(s.node)
    BY DEF ListType
  <2>. QED BY <1>1, <2>1, ElementOfSeq DEF At
<1>4. \A n \in Nodes : n.i \in Int /\ n.is_candidate \in BOOLEAN /\ n.result \in Nat /\ n.weight \in Nat
  <2>1. Results \cup {0} \subseteq Nat
    BY SizesNatural
  <2>. QED BY <2>1 DEF Nodes
<1>. QED BY <1>2, <1>3, <1>4 DEF Value, Cand

\* prev_value and next_value skip at most one candidate.
LEMMA NearValues ==
  ASSUME NEW s, ListType(s), Spaced(s), NEW k \in 1 .. Len(s.results), ~Cand(s, k)
  PROVE  /\ k >= 2 => prev_value(s, k) = Before(s, k)
         /\ k <= Len(s.results) - 1 => next_value(s, k) = After(s, k)
<1>. DEFINE n == Len(s.results)
            P(j) == ~Cand(s, j) /\ \A m \in j + 1 .. k - 1 : Cand(s, m)
            Q(j) == ~Cand(s, j) /\ \A m \in k + 1 .. j - 1 : Cand(s, m)
<1>1. n \in Nat
  BY AtType
<1>2. ASSUME NEW j \in 1 .. n, Cand(s, j)
      PROVE  j \in 3 .. n - 2 /\ ~Cand(s, j - 1) /\ ~Cand(s, j + 1)
  BY <1>2 DEF Spaced
<1>3. ASSUME k >= 2 PROVE prev_value(s, k) = Before(s, k)
  <2>. DEFINE j == IF Cand(s, k - 1) THEN k - 2 ELSE k - 1
  <2>1. k - 1 \in 1 .. n /\ (Cand(s, k - 1) => ~Cand(s, (k - 1) - 1) /\ k - 1 >= 3)
    BY <1>1, <1>2, <1>3
  <2>2. (k - 1) - 1 = k - 2 /\ j \in 1 .. k - 1
    BY <1>1, <1>3, <2>1
  <2>3. ~Cand(s, j)
    BY <2>1, <2>2
  <2>4. \A m \in j + 1 .. k - 1 : Cand(s, m)
    <3>. TAKE m \in j + 1 .. k - 1
    <3>1. CASE Cand(s, k - 1)
      BY <1>1, <3>1
    <3>2. CASE ~Cand(s, k - 1)
      BY <1>1, <3>2
    <3>. QED BY <3>1, <3>2
  <2>5. \A i \in 1 .. k - 1 : P(i) => i = j
    <3>. SUFFICES ASSUME NEW i \in 1 .. k - 1, P(i), i # j PROVE FALSE
      OBVIOUS
    <3>. HIDE DEF j
    <3>1. CASE i < j
      <4>1. j \in i + 1 .. k - 1
        BY <1>1, <2>2, <3>1
      <4>. QED BY <2>3, <4>1
    <3>2. CASE j < i
      <4>1. i \in j + 1 .. k - 1
        BY <1>1, <2>2, <3>2
      <4>. QED BY <2>4, <4>1
    <3>. QED BY <1>1, <2>2, <3>1, <3>2
  <2>6. (CHOOSE i \in 1 .. k - 1 : P(i)) = j
    <3>. HIDE DEF j
    <3>. QED BY <2>2, <2>3, <2>4, <2>5
  <2>7. prev_value(s, k) = At(s, CHOOSE i \in 1 .. k - 1 : P(i))
    BY DEF prev_value, Cand
  <2>. QED BY <2>2, <2>6, <2>7 DEF Before
<1>4. ASSUME k <= n - 1 PROVE next_value(s, k) = After(s, k)
  <2>. DEFINE j == IF Cand(s, k + 1) THEN k + 2 ELSE k + 1
  <2>1. k + 1 \in 1 .. n /\ (Cand(s, k + 1) => ~Cand(s, (k + 1) + 1) /\ k + 1 <= n - 2)
    BY <1>1, <1>2, <1>4
  <2>2. (k + 1) + 1 = k + 2 /\ j \in k + 1 .. n
    BY <1>1, <1>4, <2>1
  <2>3. ~Cand(s, j)
    BY <2>1, <2>2
  <2>4. \A m \in k + 1 .. j - 1 : Cand(s, m)
    <3>. TAKE m \in k + 1 .. j - 1
    <3>1. CASE Cand(s, k + 1)
      BY <1>1, <3>1
    <3>2. CASE ~Cand(s, k + 1)
      BY <1>1, <3>2
    <3>. QED BY <3>1, <3>2
  <2>5. \A i \in k + 1 .. n : Q(i) => i = j
    <3>. SUFFICES ASSUME NEW i \in k + 1 .. n, Q(i), i # j PROVE FALSE
      OBVIOUS
    <3>. HIDE DEF j
    <3>1. CASE i < j
      <4>1. i \in k + 1 .. j - 1
        BY <1>1, <2>2, <3>1
      <4>. QED BY <2>4, <4>1
    <3>2. CASE j < i
      <4>1. j \in k + 1 .. i - 1
        BY <1>1, <2>2, <3>2
      <4>. QED BY <2>3, <4>1
    <3>. QED BY <1>1, <2>2, <3>1, <3>2
  <2>6. (CHOOSE i \in k + 1 .. n : Q(i)) = j
    <3>. HIDE DEF j
    <3>. QED BY <2>2, <2>3, <2>4, <2>5
  <2>7. next_value(s, k) = At(s, CHOOSE i \in k + 1 .. n : Q(i))
    BY DEF next_value, Cand
  <2>. QED BY <2>2, <2>6, <2>7 DEF After
<1>. QED BY <1>3, <1>4

\* So a weight depends on the four results around the candidate.
LEMMA KeyNear ==
  ASSUME NEW s, ListType(s), Spaced(s), NEW k \in 3 .. Len(s.results) - 2,
         ~Cand(s, k - 1), ~Cand(s, k + 1)
  PROVE  Key(s, k) = calculate_key(Before(s, k - 1), At(s, k - 1), At(s, k + 1), After(s, k + 1))
<1>1. Len(s.results) \in Nat
  BY AtType
<1>2. k - 1 \in 1 .. Len(s.results) /\ k - 1 >= 2
  BY <1>1
<1>3. k + 1 \in 1 .. Len(s.results) /\ k + 1 <= Len(s.results) - 1
  BY <1>1
<1>4. prev_value(s, k - 1) = Before(s, k - 1)
  BY <1>2, NearValues
<1>5. next_value(s, k + 1) = After(s, k + 1)
  BY <1>3, NearValues
<1>. QED BY <1>4, <1>5 DEF Key

LEMMA InterpolationType ==
  ASSUME NEW x \in Int, NEW x1 \in Int, NEW x2 \in Int, NEW r1 \in Nat, NEW r2 \in Nat, x1 <= x2
  PROVE  linear_interpolate(x, x1, x2, r1, r2) \in Int
<1>1. Scale \in Int
  BY SizesNatural
<1>2. CASE x1 = x2
  <2>1. Scale * (r1 + r2) \in Int
    BY <1>1
  <2>. DEFINE y == Scale * (r1 + r2)
  <2>. HIDE DEF y
  <2>2. \A z \in Int : z \div 2 \in Int
    OBVIOUS
  <2>3. y \div 2 \in Int
    BY <2>1, <2>2 DEF y
  <2>. QED BY <1>2, <2>3 DEF linear_interpolate, y
<1>3. CASE x1 # x2
  <2>1. x - x1 \in Int /\ r2 - r1 \in Int /\ x2 - x1 \in Nat \ {0}
    BY <1>3
  <2>. DEFINE y == Scale * (x - x1) * (r2 - r1)
              d == x2 - x1
  <2>2. y \in Int
    BY <1>1, <2>1
  <2>3. Scale * r1 \in Int
    BY <1>1
  <2>4. \A z \in Int, v \in Nat \ {0} : z \div v \in Int
    OBVIOUS
  <2>5. linear_interpolate(x, x1, x2, r1, r2) = Scale * r1 + y \div d
    BY <1>3 DEF linear_interpolate
  <2>. HIDE DEF y, d
  <2>6. y \div d \in Int
    BY <2>1, <2>2, <2>4 DEF d
  <2>. QED BY <2>3, <2>5, <2>6
<1>. QED BY <1>2, <1>3

LEMMA KeyType ==
  ASSUME NEW a \in Nodes, NEW b \in Nodes, NEW c \in Nodes, NEW d \in Nodes,
         a.i <= b.i, c.i <= d.i
  PROVE  calculate_key(a, b, c, d) \in Nat
<1>. DEFINE x == linear_interpolate(b.i, c.i, d.i, c.result, d.result)
            y == linear_interpolate(c.i, a.i, b.i, a.result, b.result)
            w == d.i - a.i
<1>1. \A n \in Nodes : n.i \in Int /\ n.result \in Nat
  <2>1. Results \cup {0} \subseteq Nat
    BY SizesNatural
  <2>. QED BY <2>1 DEF Nodes
<1>2. x \in Int /\ y \in Int /\ w \in Int
  <2>1. x \in Int
    BY <1>1, InterpolationType
  <2>2. y \in Int
    BY <1>1, InterpolationType
  <2>. QED BY <1>1, <2>1, <2>2
<1>3. Scale * b.result \in Int /\ Scale * c.result \in Int
  BY <1>1, SizesNatural
<1>. HIDE DEF x, y, w
<1>4. (x - Scale * b.result) * w \in Int /\ (y - Scale * c.result) * w \in Int
  BY <1>2, <1>3
<1>5. \A z \in Int : Abs(z) \in Nat
  BY DEF Abs
<1>6. \A u, v \in Nat : imax2(u, v) \in Nat
  BY DEF imax2
<1>7. Abs((x - Scale * b.result) * w) \in Nat /\ Abs((y - Scale * c.result) * w) \in Nat
  BY <1>4, <1>5
<1>8. calculate_key(a, b, c, d) =
        imax2(Abs((x - Scale * b.result) * w), Abs((y - Scale * c.result) * w))
  BY DEF calculate_key, x, y, w
<1>. QED BY <1>6, <1>7, <1>8

\* A candidate that is put into the queue is in it once, wherever it gets.
LEMMA QueuePut ==
  ASSUME NEW s, s \in [node : Seq(Nodes), results : Seq(Nat), candidates : Seq(Nat),
                        multipleof : Nat \ {0}],
         NEW id \in 1 .. Len(s.node), \A c \in ToSet(s.candidates) : c \in 1 .. Len(s.node),
         IsInjective(s.candidates), id \notin ToSet(s.candidates)
  PROVE  \E q \in Seq(Nat) :
           /\ insert_candidate_in_priority_queue(s, id) = [s EXCEPT !.candidates = q]
           /\ IsInjective(q) /\ ToSet(q) = ToSet(s.candidates) \cup {id}
<1>. DEFINE q == s.candidates
            w == s.node[id].weight
            Weight(k) == s.node[q[k]].weight
            Fits(k) == (k = Len(q) \/ Weight(k) < w) /\ \A j \in 1 .. k - 1 : Weight(j) >= w
            first == CHOOSE k \in 1 .. Len(q) : Fits(k)
            place == IF q = << >> \/ Weight(1) < w THEN 1
                     ELSE IF Len(q) = 1 THEN 2 ELSE first
<1>1. q \in Seq(Nat) /\ Len(q) \in Nat /\ DOMAIN q = 1 .. Len(q) /\ id \in Nat
  BY LenProperties
<1>2. \A n \in Nodes : n.weight \in Int
  BY DEF Nodes
<1>3. w \in Int /\ \A k \in 1 .. Len(q) : Weight(k) \in Int
  <2>1. \A k \in 1 .. Len(s.node) : s.node[k].weight \in Int
    BY <1>2, ElementOfSeq
  <2>2. \A k \in 1 .. Len(q) : q[k] \in 1 .. Len(s.node)
    BY <1>1 DEF ToSet
  <2>. QED BY <2>1, <2>2
<1>4. q # << >> => Len(q) >= 1
  BY <1>1, EmptySeq
<1>5. ASSUME q # << >> PROVE first \in 1 .. Len(q)
  <2>. DEFINE T == {k \in 1 .. Len(q) : k = Len(q) \/ Weight(k) < w}
  <2>1. Len(q) \in T /\ T \subseteq Nat
    BY <1>1, <1>4, <1>5
  <2>2. PICK k \in T : \A j \in T : k <= j
    <3>. HIDE DEF T
    <3>. QED BY <2>1, LeastElement
  <2>3. \A j \in 1 .. k - 1 : Weight(j) >= w
    <3>. SUFFICES ASSUME NEW j \in 1 .. k - 1, ~(Weight(j) >= w) PROVE FALSE
      OBVIOUS
    <3>1. j \in 1 .. Len(q)
      BY <1>1, <2>1
    <3>2. Weight(j) < w
      <4>. HIDE DEF Weight, w
      <4>. QED BY <1>3, <3>1
    <3>3. j \in T
      BY <3>1, <3>2
    <3>. QED BY <1>1, <2>1, <2>2, <3>3
  <2>4. \E m \in 1 .. Len(q) : Fits(m)
    BY <2>2, <2>3
  <2>. HIDE DEF Fits
  <2>. QED BY <2>4
<1>6. place \in 1 .. Len(q) + 1
  <2>. HIDE DEF first
  <2>. QED BY <1>1, <1>4, <1>5
<1>7. insert_candidate_in_priority_queue(s, id) = [s EXCEPT !.candidates = InsertAt(q, place, id)]
  BY DEF insert_candidate_in_priority_queue
<1>8. InsertAt(q, place, id) \in Seq(Nat)
  <2>. HIDE DEF place, q
  <2>. QED BY <1>1, <1>6, PutIn
<1>9. IsInjective(InsertAt(q, place, id)) /\ ToSet(InsertAt(q, place, id)) = ToSet(q) \cup {id}
  <2>1. IsInjective(q) /\ id \notin ToSet(q)
    OBVIOUS
  <2>. DEFINE p == place
  <2>2. p \in 1 .. Len(q) + 1
    BY <1>6
  <2>. HIDE DEF p, q
  <2>. SUFFICES IsInjective(InsertAt(q, p, id)) /\ ToSet(InsertAt(q, p, id)) = ToSet(q) \cup {id}
    BY DEF p
  <2>3. q \in Seq(Nat) /\ id \in Nat
    BY <1>1
  <2>. QED BY <2>1, <2>2, <2>3, PutInNew, ZenonT(40)
<1>. HIDE DEF place
<1>. QED BY <1>7, <1>8, <1>9

LEMMA QueueTake ==
  ASSUME NEW s, s \in [node : Seq(Nodes), results : Seq(Nat), candidates : Seq(Nat),
                        multipleof : Nat \ {0}],
         NEW id \in ToSet(s.candidates), IsInjective(s.candidates)
  PROVE  \E q \in Seq(Nat) :
           /\ remove_candidate_from_prior_queue(s, id) = [s EXCEPT !.candidates = q]
           /\ IsInjective(q) /\ ToSet(q) = ToSet(s.candidates) \ {id}
<1>. DEFINE q == s.candidates
            k == CHOOSE j \in 1 .. Len(q) : q[j] = id
<1>1. q \in Seq(Nat) /\ IsInjective(q) /\ Len(q) \in Nat /\ DOMAIN q = 1 .. Len(q)
  BY LenProperties
<1>2. k \in 1 .. Len(q) /\ q[k] = id
  BY <1>1 DEF ToSet
<1>3. remove_candidate_from_prior_queue(s, id) = [s EXCEPT !.candidates = RemoveAt(q, k)]
  BY DEF remove_candidate_from_prior_queue
<1>. HIDE DEF k, q
<1>4. RemoveAt(q, k) \in Seq(Nat)
  BY <1>1, <1>2, TakeOut
<1>5. IsInjective(RemoveAt(q, k)) /\ ToSet(RemoveAt(q, k)) = ToSet(q) \ {id}
  BY <1>1, <1>2, TakeOutOne
<1>. QED BY <1>3, <1>4, <1>5 DEF q

-----------------------------------------------------------------------------
(* A candidate between positions k and k + 1. *)

Moved(k, j) == IF j <= k THEN j ELSE j + 1

\* t is s with a candidate after position k.
InsertedAfter(s, t, k) ==
  /\ t.multipleof = s.multipleof
  /\ Len(t.results) = Len(s.results) + 1
  /\ \A j \in 1 .. Len(s.results) :
       t.results[Moved(k, j)] = s.results[j] /\ At(t, Moved(k, j)) = At(s, j)
  /\ Cand(t, k + 1)

LEMMA Places ==
  ASSUME NEW n \in Nat, NEW k \in 1 .. n, NEW p \in 1 .. n + 1
  PROVE  p = k + 1 \/ \E j \in 1 .. n : p = Moved(k, j)
<1>1. CASE p <= k
  <2>1. p \in 1 .. n /\ p = Moved(k, p)
    BY <1>1 DEF Moved
  <2>. QED BY <2>1
<1>2. CASE p > k + 1
  <2>1. p - 1 \in 1 .. n /\ p = Moved(k, p - 1)
    BY <1>2 DEF Moved
  <2>. QED BY <2>1
<1>. QED BY <1>1, <1>2

WithNode(s, k, n) ==
  [s EXCEPT !.node = Append(@, n), !.results = InsertAt(@, k + 1, Len(s.node) + 1)]

HasNode(t, s, k, n) ==
  /\ ListType(t) /\ t.multipleof = s.multipleof /\ t.candidates = s.candidates
  /\ Len(t.results) = Len(s.results) + 1
  /\ \A j \in 1 .. Len(s.results) :
       t.results[Moved(k, j)] = s.results[j] /\ At(t, Moved(k, j)) = At(s, j)
  /\ t.results[k + 1] = Len(s.node) + 1 /\ At(t, k + 1) = n
  /\ ToSet(t.results) = ToSet(s.results) \cup {Len(s.node) + 1}
  /\ Len(t.node) = Len(s.node) + 1 /\ \A id \in 1 .. Len(s.node) : t.node[id] = s.node[id]
  /\ Len(s.node) + 1 \notin ToSet(s.results)

\* A node more and its number in the list: the rest has moved.
LEMMA NodePutIn ==
  ASSUME NEW s, ListType(s), NEW k \in 0 .. Len(s.results), NEW n \in Nodes,
         NEW t, t = WithNode(s, k, n)
  PROVE  HasNode(t, s, k, n)
<1>. DEFINE N == Len(s.results)
            M == Len(s.node)
<1>1. s \in [node : Seq(Nodes), results : Seq(Nat), candidates : Seq(Nat), multipleof : Nat \ {0}]
  BY DEF ListType
<1>2. N \in Nat /\ M \in Nat /\ DOMAIN s.results = 1 .. N
  BY <1>1, LenProperties
<1>3. /\ t.node = Append(s.node, n) /\ t.results = InsertAt(s.results, k + 1, M + 1)
      /\ t.candidates = s.candidates /\ t.multipleof = s.multipleof
  BY <1>1 DEF WithNode
<1>4. /\ t.node \in Seq(Nodes) /\ Len(t.node) = M + 1 /\ t.node[M + 1] = n
      /\ \A id \in 1 .. M : t.node[id] = s.node[id]
  BY <1>1, <1>2, <1>3, AppendProperties
<1>4a. PICK r, i, p : r = s.results /\ i = M + 1 /\ p = k + 1
  OBVIOUS
<1>4b. r \in Seq(Nat) /\ i \in Nat /\ p \in 1 .. Len(r) + 1
  BY <1>1, <1>2, <1>4a
<1>4c. t.results = InsertAt(r, p, i)
  BY <1>3, <1>4a
<1>5. /\ t.results \in Seq(Nat) /\ Len(t.results) = N + 1 /\ t.results[k + 1] = M + 1
      /\ \A j \in 1 .. (k + 1) - 1 : t.results[j] = s.results[j]
      /\ \A j \in k + 1 .. N : t.results[j + 1] = s.results[j]
  <2>1. InsertAt(r, p, i) \in Seq(Nat) /\ HasPutIn(InsertAt(r, p, i), r, p, i)
    BY <1>4b, PutIn
  <2>2. t.results \in Seq(Nat) /\ HasPutIn(t.results, s.results, k + 1, M + 1)
    BY <1>4a, <1>4c, <2>1
  <2>. QED BY <2>2 DEF HasPutIn
<1>6. \A j \in 1 .. N : t.results[Moved(k, j)] = s.results[j]
  <2>. TAKE j \in 1 .. N
  <2>1. CASE j <= k
    <3>1. j \in 1 .. (k + 1) - 1
      BY <1>2, <2>1
    <3>. QED BY <1>5, <2>1, <3>1 DEF Moved
  <2>2. CASE ~(j <= k)
    <3>1. j \in k + 1 .. N
      BY <1>2, <2>2
    <3>. QED BY <1>5, <2>2, <3>1 DEF Moved
  <2>. QED BY <2>1, <2>2
<1>7. \A j \in 1 .. N : s.results[j] \in 1 .. M
  BY DEF ListType
<1>8. \A j \in 1 .. N : At(t, Moved(k, j)) = At(s, j)
  BY <1>4, <1>6, <1>7 DEF At
<1>9. At(t, k + 1) = n
  BY <1>4, <1>5 DEF At
<1>10. M + 1 \notin ToSet(s.results)
  BY <1>2, <1>7 DEF ToSet
<1>11. IsInjective(t.results) /\ ToSet(t.results) = ToSet(s.results) \cup {M + 1}
  <2>1. IsInjective(r) /\ i \notin ToSet(r)
    BY <1>4a, <1>10 DEF ListType
  <2>2. IsInjective(InsertAt(r, p, i)) /\ ToSet(InsertAt(r, p, i)) = ToSet(r) \cup {i}
    <3>1. PICK S : S = Nat
      OBVIOUS
    <3>2. r \in Seq(S) /\ i \in S /\ p \in 1 .. Len(r) + 1
      BY <1>4b, <3>1
    <3>. QED BY ONLY <2>1, <3>2, PutInNew
  <2>. QED BY <1>4a, <1>4c, <2>2
<1>12. t \in [node : Seq(Nodes), results : Seq(Nat), candidates : Seq(Nat), multipleof : Nat \ {0}]
  BY <1>1, <1>3, <1>4, <1>5 DEF WithNode
<1>13. \A j \in 1 .. Len(t.results) : t.results[j] \in 1 .. Len(t.node)
  <2>0. \A id \in ToSet(s.results) : id \in 1 .. M
    BY <1>2, <1>7 DEF ToSet
  <2>1. \A id \in ToSet(t.results) : id \in 1 .. M + 1
    BY <1>2, <1>11, <2>0
  <2>2. \A j \in 1 .. Len(t.results) : t.results[j] \in ToSet(t.results)
    BY <1>5, LenProperties DEF ToSet
  <2>. QED BY <1>4, <2>1, <2>2
<1>14. ListType(t)
  BY <1>11, <1>12, <1>13 DEF ListType
<1>. QED BY <1>3, <1>4, <1>5, <1>6, <1>8, <1>9, <1>10, <1>11, <1>14 DEF HasNode

\* With a value strictly between its neighbours, the candidate leaves order and
\* distances as they have to be, and no other weight changes.
LEMMA InsertedOrder ==
  ASSUME NEW s, NEW e, Chain(s, e), NEW k \in 2 .. Len(s.results) - 2,
         ~Cand(s, k), ~Cand(s, k + 1),
         NEW t, ListType(t), InsertedAfter(s, t, k),
         Value(t, k + 1) = Middle(s, At(s, k), At(s, k + 1)),
         Value(t, k + 1) \notin {Value(s, k), Value(s, k + 1)}
  PROVE  /\ Sorted(t, e + 1) /\ Spaced(t) /\ Halved(t) /\ Multiples(t)
         /\ \A j \in 1 .. Len(s.results) : Cand(s, j) => Key(t, Moved(k, j)) = Key(s, j)
         /\ Key(t, k + 1) = calculate_key(Before(s, k), At(s, k), At(s, k + 1), After(s, k + 1))
         /\ Key(t, k + 1) \in Nat
<1>. DEFINE N == Len(s.results)
            a == Value(s, k)
            b == Value(s, k + 1)
            v == Value(t, k + 1)
<1>1. /\ ListType(s) /\ N >= 3 /\ e \in {N, N - 1} /\ e >= 3
      /\ Sorted(s, e) /\ Spaced(s) /\ Halved(s) /\ Multiples(s)
  BY DEF Chain
<1>2. N \in Nat /\ k \in 1 .. N /\ k + 1 \in 1 .. N /\ k \in 2 .. e /\ k + 1 \in 2 .. e
  BY <1>1, AtType
<1>3. /\ t.multipleof = s.multipleof /\ Len(t.results) = N + 1 /\ Cand(t, k + 1)
      /\ \A j \in 1 .. N : At(t, Moved(k, j)) = At(s, j)
  BY DEF InsertedAfter
<1>4. \A j \in 1 .. N : Value(t, Moved(k, j)) = Value(s, j) /\ Cand(t, Moved(k, j)) = Cand(s, j)
  BY <1>3 DEF Value, Cand
<1>5. \A p \in 1 .. N + 1 : p = k + 1 \/ \E j \in 1 .. N : p = Moved(k, j)
  BY <1>2, Places
<1>6. \A j \in 1 .. N : Value(s, j) \in Int
  BY <1>1, AtType
<1>7. /\ \A j \in 1 .. N : Moved(k, j) \in 1 .. N + 1
      /\ \A j \in 1 .. N : j # k => Moved(k, j) + 1 = Moved(k, j + 1)
      /\ \A j \in 1 .. N : j # k + 1 => Moved(k, j) - 1 = Moved(k, j - 1)
      /\ Moved(k, k) = k /\ Moved(k, k + 1) = k + 2
  BY <1>2 DEF Moved
<1>8. a < v /\ v < b /\ v \in Int /\ Multiple(v, s.multipleof)
  <2>1. s.multipleof \in Nat \ {0}
    BY <1>1 DEF ListType
  <2>2. a < b
    BY <1>1, <1>2 DEF Sorted
  <2>3. Multiple(a, s.multipleof) /\ Multiple(b, s.multipleof) /\ a \in Int /\ b \in Int
    BY <1>1, <1>2, <1>6 DEF Multiples
  <2>4. v = round_int_to_multipleof(Half(a + b), s.multipleof)
    BY DEF Middle, Value
  <2>. HIDE DEF a, b, v
  <2>5. v \in Int /\ Multiple(v, s.multipleof) /\ a <= v /\ v <= b
    BY <2>1, <2>2, <2>3, <2>4, MiddleBetween
  <2>6. v # a /\ v # b
    BY DEF a, b, v
  <2>. QED BY <2>3, <2>5, <2>6
<1>9. Sorted(t, e + 1)
  <2>1. \A i, j \in 1 .. N : i <= j => Value(s, i) <= Value(s, j)
    BY <1>1 DEF Sorted
  <2>2. \A i, j \in 2 .. e : i < j => Value(s, i) < Value(s, j)
    BY <1>1 DEF Sorted
  <2>3. \A j \in 1 .. N : j <= k => Value(s, j) <= a
    BY <1>2, <2>1
  <2>4. \A j \in 1 .. N : j >= k + 1 => b <= Value(s, j)
    BY <1>2, <2>1
  <2>5. ASSUME NEW p \in 1 .. N + 1, NEW q \in 1 .. N + 1, p <= q
        PROVE  Value(t, p) <= Value(t, q)
    <3>1. CASE p = k + 1 /\ q = k + 1
      BY <1>8, <3>1
    <3>2. ASSUME p = k + 1, NEW j \in 1 .. N, q = Moved(k, j) PROVE Value(t, p) <= Value(t, q)
      <4>1. j >= k + 1
        BY <1>2, <2>5, <3>2 DEF Moved
      <4>2. b <= Value(s, j) /\ Value(s, j) \in Int /\ b \in Int /\ Value(t, q) = Value(s, j)
        BY <1>2, <1>4, <1>6, <2>4, <3>2, <4>1
      <4>. HIDE DEF b
      <4>. QED BY <1>8, <3>2, <4>2
    <3>3. ASSUME q = k + 1, NEW j \in 1 .. N, p = Moved(k, j) PROVE Value(t, p) <= Value(t, q)
      <4>1. j <= k
        BY <1>2, <2>5, <3>3 DEF Moved
      <4>2. Value(s, j) <= a /\ Value(s, j) \in Int /\ a \in Int /\ Value(t, p) = Value(s, j)
        BY <1>2, <1>4, <1>6, <2>3, <3>3, <4>1
      <4>. HIDE DEF a
      <4>. QED BY <1>8, <3>3, <4>2
    <3>4. ASSUME NEW i \in 1 .. N, p = Moved(k, i), NEW j \in 1 .. N, q = Moved(k, j)
          PROVE  Value(t, p) <= Value(t, q)
      <4>1. i <= j
        BY <1>2, <2>5, <3>4 DEF Moved
      <4>. QED BY <1>4, <2>1, <3>4, <4>1
    <3>. QED BY <1>5, <3>1, <3>2, <3>3, <3>4
  <2>6. ASSUME NEW p \in 2 .. e + 1, NEW q \in 2 .. e + 1, p < q
        PROVE  Value(t, p) < Value(t, q)
    <3>0. p \in 1 .. N + 1 /\ q \in 1 .. N + 1
      BY <1>1, <1>2
    <3>2. ASSUME p = k + 1, NEW j \in 1 .. N, q = Moved(k, j) PROVE Value(t, p) < Value(t, q)
      <4>1. j >= k + 1
        BY <1>2, <2>6, <3>2 DEF Moved
      <4>2. b <= Value(s, j) /\ Value(s, j) \in Int /\ b \in Int /\ Value(t, q) = Value(s, j)
        BY <1>2, <1>4, <1>6, <2>4, <3>2, <4>1
      <4>. HIDE DEF b
      <4>. QED BY <1>8, <3>2, <4>2
    <3>3. ASSUME q = k + 1, NEW j \in 1 .. N, p = Moved(k, j) PROVE Value(t, p) < Value(t, q)
      <4>1. j <= k
        BY <1>2, <2>6, <3>3 DEF Moved
      <4>2. Value(s, j) <= a /\ Value(s, j) \in Int /\ a \in Int /\ Value(t, p) = Value(s, j)
        BY <1>2, <1>4, <1>6, <2>3, <3>3, <4>1
      <4>. HIDE DEF a
      <4>. QED BY <1>8, <3>3, <4>2
    <3>4. ASSUME NEW i \in 1 .. N, p = Moved(k, i), NEW j \in 1 .. N, q = Moved(k, j)
          PROVE  Value(t, p) < Value(t, q)
      <4>1. i < j /\ i \in 2 .. e /\ j \in 2 .. e
        BY <1>1, <1>2, <2>6, <3>4 DEF Moved
      <4>. QED BY <1>4, <2>2, <3>4, <4>1
    <3>. QED BY <1>2, <1>5, <2>6, <3>0, <3>2, <3>3, <3>4
  <2>. QED BY <1>3, <2>5, <2>6 DEF Sorted
<1>10. ASSUME NEW j \in 1 .. N, Cand(s, j)
       PROVE  /\ j \in 3 .. N - 2 /\ ~Cand(s, j - 1) /\ ~Cand(s, j + 1) /\ j # k /\ j # k + 1
              /\ Moved(k, j) + 1 = Moved(k, j + 1) /\ Moved(k, j) - 1 = Moved(k, j - 1)
              /\ j - 1 \in 1 .. N /\ j + 1 \in 1 .. N /\ Moved(k, j) \in 3 .. N - 1
              /\ ~Cand(t, Moved(k, j) - 1) /\ ~Cand(t, Moved(k, j) + 1)
  <2>1. j \in 3 .. N - 2 /\ ~Cand(s, j - 1) /\ ~Cand(s, j + 1) /\ j # k /\ j # k + 1
    BY <1>1, <1>10 DEF Spaced
  <2>2. j - 1 \in 1 .. N /\ j + 1 \in 1 .. N /\ Moved(k, j) \in 3 .. N - 1
    BY <1>2, <2>1 DEF Moved
  <2>3. Moved(k, j) + 1 = Moved(k, j + 1) /\ Moved(k, j) - 1 = Moved(k, j - 1)
    BY <1>7, <2>1
  <2>. QED BY <1>4, <2>1, <2>2, <2>3
<1>11. k \in 3 - 1 .. N - 2 /\ k + 1 \in 3 .. N - 1 /\ ~Cand(t, (k + 1) - 1) /\ ~Cand(t, (k + 1) + 1)
  <2>1. (k + 1) - 1 = Moved(k, k) /\ (k + 1) + 1 = Moved(k, k + 1)
    BY <1>2, <1>7
  <2>. QED BY <1>2, <1>4, <2>1
<1>12. Spaced(t)
  <2>. SUFFICES ASSUME NEW p \in 1 .. N + 1, Cand(t, p)
                PROVE  p \in 3 .. (N + 1) - 2 /\ ~Cand(t, p - 1) /\ ~Cand(t, p + 1)
    BY <1>3 DEF Spaced
  <2>0. (N + 1) - 2 = N - 1
    BY <1>2
  <2>1. CASE p = k + 1
    BY <1>11, <2>0, <2>1
  <2>2. ASSUME NEW j \in 1 .. N, p = Moved(k, j)
        PROVE  p \in 3 .. (N + 1) - 2 /\ ~Cand(t, p - 1) /\ ~Cand(t, p + 1)
    <3>1. Cand(s, j)
      BY <1>4, <2>2
    <3>. QED BY <1>10, <2>0, <2>2, <3>1
  <2>. QED BY <1>5, <2>1, <2>2
<1>13. \A x, y : Middle(t, x, y) = Middle(s, x, y)
  BY <1>3 DEF Middle
<1>14. Halved(t)
  <2>. SUFFICES ASSUME NEW p \in 1 .. N + 1, Cand(t, p)
                PROVE  Value(t, p) = Middle(s, At(t, p - 1), At(t, p + 1))
    BY <1>3, <1>13 DEF Halved
  <2>1. CASE p = k + 1
    <3>1. p - 1 = Moved(k, k) /\ p + 1 = Moved(k, k + 1)
      BY <1>2, <1>7, <2>1
    <3>. QED BY <1>2, <1>3, <2>1, <3>1
  <2>2. ASSUME NEW j \in 1 .. N, p = Moved(k, j)
        PROVE  Value(t, p) = Middle(s, At(t, p - 1), At(t, p + 1))
    <3>1. Cand(s, j)
      BY <1>4, <2>2
    <3>2. Value(s, j) = Middle(s, At(s, j - 1), At(s, j + 1))
      BY <1>1, <3>1 DEF Halved
    <3>. QED BY <1>3, <1>4, <1>10, <2>2, <3>1, <3>2
  <2>. QED BY <1>5, <2>1, <2>2
<1>15. Multiples(t)
  <2>. SUFFICES ASSUME NEW p \in 1 .. N + 1 PROVE Multiple(Value(t, p), s.multipleof)
    BY <1>3 DEF Multiples
  <2>1. \A j \in 1 .. N : Multiple(Value(s, j), s.multipleof)
    BY <1>1 DEF Multiples
  <2>. QED BY <1>4, <1>5, <1>8, <2>1
<1>16. ASSUME NEW i \in 2 .. N, ~Cand(s, i) PROVE Before(t, Moved(k, i)) = Before(s, i)
  <2>1. CASE i = k + 1
    <3>1. Moved(k, i) - 1 = k + 1 /\ Moved(k, i) - 2 = Moved(k, k) /\ i - 1 = k
      BY <1>2, <1>7, <2>1
    <3>2. Before(t, Moved(k, i)) = At(s, k)
      BY <1>2, <1>3, <3>1 DEF Before
    <3>. QED BY <3>1, <3>2 DEF Before
  <2>2. CASE i # k + 1
    <3>1. Moved(k, i) - 1 = Moved(k, i - 1) /\ i - 1 \in 1 .. N /\ i \in 1 .. N
      BY <1>2, <1>7, <2>2
    <3>2. CASE ~Cand(s, i - 1)
      BY <1>3, <1>4, <3>1, <3>2 DEF Before
    <3>3. CASE Cand(s, i - 1)
      <4>1. (i - 1) - 1 \in 1 .. N /\ Moved(k, i - 1) - 1 = Moved(k, (i - 1) - 1)
        BY <1>10, <3>1, <3>3
      <4>2. (i - 1) - 1 = i - 2 /\ Moved(k, i) - 2 = (Moved(k, i) - 1) - 1
        BY <1>7, <3>1
      <4>. QED BY <1>3, <1>4, <3>1, <3>3, <4>1, <4>2 DEF Before
    <3>. QED BY <3>2, <3>3
  <2>. QED BY <2>1, <2>2
<1>17. ASSUME NEW i \in 1 .. N - 1, ~Cand(s, i) PROVE After(t, Moved(k, i)) = After(s, i)
  <2>1. CASE i = k
    <3>1. Moved(k, i) + 1 = k + 1 /\ Moved(k, i) + 2 = Moved(k, k + 1) /\ i + 1 = k + 1
      BY <1>2, <1>7, <2>1
    <3>2. After(t, Moved(k, i)) = At(s, k + 1)
      BY <1>2, <1>3, <3>1 DEF After
    <3>. QED BY <3>1, <3>2 DEF After
  <2>2. CASE i # k
    <3>1. Moved(k, i) + 1 = Moved(k, i + 1) /\ i + 1 \in 1 .. N /\ i \in 1 .. N
      BY <1>2, <2>2 DEF Moved
    <3>2. CASE ~Cand(s, i + 1)
      BY <1>3, <1>4, <3>1, <3>2 DEF After
    <3>3. CASE Cand(s, i + 1)
      <4>1. (i + 1) + 1 \in 1 .. N /\ Moved(k, i + 1) + 1 = Moved(k, (i + 1) + 1)
        BY <1>10, <3>1, <3>3
      <4>2. (i + 1) + 1 = i + 2 /\ Moved(k, i) + 2 = (Moved(k, i) + 1) + 1
        BY <1>7, <3>1
      <4>. QED BY <1>3, <1>4, <3>1, <3>3, <4>1, <4>2 DEF After
    <3>. QED BY <3>2, <3>3
  <2>. QED BY <2>1, <2>2
<1>18. ASSUME NEW j \in 1 .. N, Cand(s, j) PROVE Key(t, Moved(k, j)) = Key(s, j)
  <2>1. Key(s, j) = calculate_key(Before(s, j - 1), At(s, j - 1), At(s, j + 1), After(s, j + 1))
    BY <1>1, <1>10, <1>18, KeyNear
  <2>. DEFINE p == Moved(k, j)
  <2>2. p \in 3 .. Len(t.results) - 2 /\ ~Cand(t, p - 1) /\ ~Cand(t, p + 1)
    BY <1>2, <1>3, <1>10, <1>18
  <2>3. Key(t, p) = calculate_key(Before(t, p - 1), At(t, p - 1), At(t, p + 1), After(t, p + 1))
    <3>. HIDE DEF p
    <3>. QED BY <1>12, <2>2, KeyNear
  <2>4. p - 1 = Moved(k, j - 1) /\ p + 1 = Moved(k, j + 1) /\ j - 1 \in 2 .. N /\ j + 1 \in 1 .. N - 1
    BY <1>2, <1>10, <1>18
  <2>5. Before(t, p - 1) = Before(s, j - 1) /\ After(t, p + 1) = After(s, j + 1)
    BY <1>10, <1>16, <1>17, <1>18, <2>4
  <2>6. At(t, p - 1) = At(s, j - 1) /\ At(t, p + 1) = At(s, j + 1)
    BY <1>3, <1>10, <1>18, <2>4
  <2>. QED BY <2>1, <2>3, <2>5, <2>6
<1>19. Key(t, k + 1) = calculate_key(Before(s, k), At(s, k), At(s, k + 1), After(s, k + 1))
  <2>1. k + 1 \in 3 .. Len(t.results) - 2
    BY <1>2, <1>3, <1>11
  <2>. DEFINE p == k + 1
  <2>2. Key(t, p) = calculate_key(Before(t, p - 1), At(t, p - 1), At(t, p + 1), After(t, p + 1))
    <3>1. p \in 3 .. Len(t.results) - 2 /\ ~Cand(t, p - 1) /\ ~Cand(t, p + 1)
      BY <1>11, <2>1
    <3>. HIDE DEF p
    <3>. QED BY <1>12, <3>1, KeyNear
  <2>3. p - 1 = Moved(k, k) /\ p + 1 = Moved(k, k + 1) /\ k \in 2 .. N /\ k + 1 \in 1 .. N - 1
    BY <1>2, <1>7
  <2>4. Before(t, p - 1) = Before(s, k) /\ After(t, p + 1) = After(s, k + 1)
    BY <1>16, <1>17, <2>3
  <2>. QED BY <1>2, <1>3, <2>2, <2>3, <2>4
<1>20. Key(t, k + 1) \in Nat
  <2>1. /\ At(s, k) \in Nodes /\ At(s, k + 1) \in Nodes
        /\ Before(s, k) \in Nodes /\ After(s, k + 1) \in Nodes
        /\ Before(s, k).i <= At(s, k).i /\ At(s, k + 1).i <= After(s, k + 1).i
    <3>1. \A j \in 1 .. N : At(s, j) \in Nodes
      BY <1>1, AtType
    <3>2. \A i, j \in 1 .. N : i <= j => At(s, i).i <= At(s, j).i
      BY <1>1 DEF Sorted, Value
    <3>3. k - 1 \in 1 .. N /\ (Cand(s, k - 1) => k - 2 \in 1 .. N)
      BY <1>1, <1>2 DEF Spaced
    <3>4. (k + 1) + 1 \in 1 .. N /\ (Cand(s, (k + 1) + 1) => (k + 1) + 2 \in 1 .. N)
      BY <1>1, <1>2 DEF Spaced
    <3>5. \E j \in 1 .. N : j <= k /\ Before(s, k) = At(s, j)
      BY <1>2, <3>3 DEF Before
    <3>6. \E j \in 1 .. N : j >= k + 1 /\ After(s, k + 1) = At(s, j)
      BY <1>2, <3>4 DEF After
    <3>. QED BY <1>2, <3>1, <3>2, <3>5, <3>6
  <2>. QED BY <1>19, <2>1, KeyType
<1>. QED BY <1>9, <1>12, <1>14, <1>15, <1>18, <1>19, <1>20

\* insert_candidate leaves the list as it is if no new value is between the two,
\* and keeps it consistent if there is one.
LEMMA InsertCandidate ==
  ASSUME NEW s, NEW e, Chain(s, e), Fresh(s, {}), NEW k \in 2 .. Len(s.results) - 2,
         ~Cand(s, k), ~Cand(s, k + 1),
         NEW t, t = insert_candidate(s, k)
  PROVE  \/ t = s /\ Value(s, k + 1) - Value(s, k) <= s.multipleof
         \/ Chain(t, e + 1) /\ Fresh(t, {}) /\ InsertedAfter(s, t, k)
<1>. DEFINE N == Len(s.results)
            id == Len(s.node) + 1
            a == Value(s, k)
            b == Value(s, k + 1)
            middle == Middle(s, At(s, k), At(s, k + 1))
            n0 == NewNode(middle, TRUE, 0)
            linked == WithNode(s, k, n0)
<1>1. /\ ListType(s) /\ N >= 3 /\ e \in {N, N - 1} /\ e >= 3
      /\ Sorted(s, e) /\ Spaced(s) /\ Halved(s) /\ Queued(s) /\ Multiples(s)
  BY DEF Chain
<1>2. /\ N \in Nat /\ k \in 1 .. N /\ k + 1 \in 1 .. N /\ k \in 2 .. e /\ k + 1 \in 2 .. e
      /\ Len(s.node) \in Nat /\ id \in Nat
  <2>1. N \in Nat /\ Len(s.node) \in Nat
    BY <1>1, AtType
  <2>2. id \in Nat
    BY <2>1
  <2>3. k \in 2 .. N - 2 /\ e \in {N, N - 1}
    BY <1>1
  <2>. HIDE DEF N
  <2>. QED BY <2>1, <2>2, <2>3
<1>3. middle \in Int /\ (middle \in {a, b} => b - a <= s.multipleof)
  <2>1. s.multipleof \in Nat \ {0}
    BY <1>1 DEF ListType
  <2>2. a < b
    BY <1>1, <1>2 DEF Sorted
  <2>3. Multiple(a, s.multipleof) /\ Multiple(b, s.multipleof) /\ a \in Int /\ b \in Int
    BY <1>1, <1>2, AtType DEF Multiples
  <2>4. middle = round_int_to_multipleof(Half(a + b), s.multipleof)
    BY DEF Middle, Value
  <2>. HIDE DEF a, b, middle
  <2>. QED BY <2>1, <2>2, <2>3, <2>4, MiddleBetween
<1>4. CASE middle \in {a, b}
  <2>1. t = s
    BY <1>4 DEF insert_candidate, Value
  <2>. QED BY <1>3, <1>4, <2>1
<1>5. CASE middle \notin {a, b}
  <2>1. t = insert_candidate_in_priority_queue(calculate_weight(linked, k + 1), id)
    BY <1>5 DEF insert_candidate, Value, WithNode
  <2>2. n0 \in Nodes /\ n0.is_candidate /\ n0.i = middle
    <3>. HIDE DEF middle
    <3>. QED BY <1>3 DEF NewNode, Nodes
  <2>3. /\ ListType(linked) /\ linked.multipleof = s.multipleof /\ Len(linked.results) = N + 1
        /\ \A j \in 1 .. N : linked.results[Moved(k, j)] = s.results[j]
                            /\ At(linked, Moved(k, j)) = At(s, j)
        /\ linked.results[k + 1] = id /\ At(linked, k + 1) = n0
    <3>. HIDE DEF linked, n0
    <3>1. linked = WithNode(s, k, n0) /\ k \in 0 .. N
      BY <1>2 DEF linked
    <3>2. HasNode(linked, s, k, n0)
      BY <1>1, <2>2, <3>1, NodePutIn
    <3>. QED BY <3>2 DEF HasNode
  <2>. DEFINE w == Key(linked, k + 1)
              n1 == [n0 EXCEPT !.weight = w]
              weighed == WithNode(s, k, n1)
  <2>4. InsertedAfter(s, linked, k)
    <3>. HIDE DEF linked, n0
    <3>. QED BY <2>2, <2>3 DEF InsertedAfter, Cand
  <2>5. /\ w \in Nat
        /\ w = calculate_key(Before(s, k), At(s, k), At(s, k + 1), After(s, k + 1))
    <3>1. Value(linked, k + 1) = middle
      <4>. HIDE DEF linked, n0, middle
      <4>. QED BY <2>2, <2>3 DEF Value
    <3>. HIDE DEF linked, n0
    <3>. QED BY <1>5, <2>3, <2>4, <3>1, InsertedOrder
  <2>6. n1 \in Nodes /\ n1.is_candidate /\ n1.i = middle /\ n1.weight = w
    <3>. HIDE DEF w, middle
    <3>. QED BY <1>3, <2>5 DEF NewNode, Nodes
  <2>7. /\ ListType(weighed) /\ weighed.multipleof = s.multipleof
        /\ weighed.candidates = s.candidates /\ Len(weighed.results) = N + 1
        /\ \A j \in 1 .. N : weighed.results[Moved(k, j)] = s.results[j]
                            /\ At(weighed, Moved(k, j)) = At(s, j)
        /\ weighed.results[k + 1] = id /\ At(weighed, k + 1) = n1
        /\ ToSet(weighed.results) = ToSet(s.results) \cup {id}
        /\ Len(weighed.node) = id /\ \A i \in 1 .. Len(s.node) : weighed.node[i] = s.node[i]
        /\ id \notin ToSet(s.results)
    <3>. HIDE DEF weighed, n1
    <3>1. weighed = WithNode(s, k, n1) /\ k \in 0 .. N
      BY <1>2 DEF weighed
    <3>2. HasNode(weighed, s, k, n1)
      BY <1>1, <2>6, <3>1, NodePutIn
    <3>. QED BY <3>2 DEF HasNode
  <2>8. calculate_weight(linked, k + 1) = weighed
    <3>1. Middle(linked, At(linked, (k + 1) - 1), At(linked, (k + 1) + 1)) = middle
      <4>1. (k + 1) - 1 = Moved(k, k) /\ (k + 1) + 1 = Moved(k, k + 1)
        BY <1>2 DEF Moved
      <4>2. At(linked, (k + 1) - 1) = At(s, k) /\ At(linked, (k + 1) + 1) = At(s, k + 1)
        BY <1>2, <2>3, <4>1
      <4>. QED BY <2>3, <4>2 DEF Middle
    <3>2. calculate_weight(linked, k + 1) =
            [linked EXCEPT !.node[id] = [@ EXCEPT !.i = middle, !.weight = w]]
      BY <2>3, <3>1 DEF calculate_weight
    <3>3. linked.node = Append(s.node, n0) /\ weighed.node = Append(s.node, n1)
      BY <1>1 DEF WithNode, ListType
    <3>4. s.node \in Seq(Nodes)
      BY <1>1 DEF ListType
    <3>5. [Append(s.node, n0) EXCEPT ![id] = n1] = Append(s.node, n1)
      <4>. DEFINE u == Append(s.node, n0)
                  v == Append(s.node, n1)
      <4>. HIDE DEF n0, n1
      <4>1. /\ u \in Seq(Nodes) /\ Len(u) = Len(s.node) + 1 /\ u[Len(s.node) + 1] = n0
            /\ \A i \in 1 .. Len(s.node) : u[i] = s.node[i]
        BY <2>2, <3>4, AppendProperties
      <4>2. /\ v \in Seq(Nodes) /\ Len(v) = Len(s.node) + 1 /\ v[Len(s.node) + 1] = n1
            /\ \A i \in 1 .. Len(s.node) : v[i] = s.node[i]
        BY <2>6, <3>4, AppendProperties
      <4>. HIDE DEF u, v
      <4>3. DOMAIN u = 1 .. id /\ DOMAIN v = 1 .. id /\ v = [i \in 1 .. id |-> v[i]]
        BY <1>2, <4>1, <4>2, LenProperties
      <4>4. \A i \in 1 .. id : v[i] = IF i = id THEN n1 ELSE u[i]
        BY <1>2, <4>1, <4>2
      <4>5. [u EXCEPT ![id] = n1] = [i \in 1 .. id |-> IF i = id THEN n1 ELSE u[i]]
        BY <4>3
      <4>. QED BY <4>3, <4>4, <4>5 DEF u, v
    <3>6. linked.node[id] = n0
      <4>. HIDE DEF n0
      <4>. QED BY <1>2, <2>2, <3>3, <3>4, AppendProperties
    <3>7. [n0 EXCEPT !.i = middle, !.weight = w] = n1
      <4>. HIDE DEF w, middle
      <4>. HIDE DEF n0
      <4>. QED BY <1>3, <2>2, <2>5 DEF Nodes
    <3>8. calculate_weight(linked, k + 1) = [linked EXCEPT !.node = Append(s.node, n1)]
      <4>. HIDE DEF n0, n1, linked, middle, w
      <4>1. linked.node[id] = n0 /\ [linked.node EXCEPT ![id] = n1] = Append(s.node, n1)
        BY <3>3, <3>5, <3>6
      <4>. QED BY <3>2, <3>7, <4>1
    <3>9. [linked EXCEPT !.node = Append(s.node, n1)] = weighed
      <4>. HIDE DEF n0, n1
      <4>. QED BY <1>1 DEF WithNode, ListType
    <3>. QED BY <3>8, <3>9
  <2>9. PICK q \in Seq(Nat) :
          /\ insert_candidate_in_priority_queue(weighed, id) = [weighed EXCEPT !.candidates = q]
          /\ IsInjective(q) /\ ToSet(q) = ToSet(s.candidates) \cup {id}
    <3>. HIDE DEF weighed
    <3>1. weighed \in [node : Seq(Nodes), results : Seq(Nat), candidates : Seq(Nat),
                        multipleof : Nat \ {0}]
      BY <2>7 DEF ListType
    <3>2. ToSet(s.candidates) \subseteq ToSet(s.results) /\ IsInjective(s.candidates)
      BY <1>1 DEF Queued, CandidateIds
    <3>3. \A c \in ToSet(s.results) : c \in 1 .. Len(s.node)
      BY <1>1, LenProperties DEF ListType, ToSet
    <3>4. id \in 1 .. Len(weighed.node) /\ id \notin ToSet(weighed.candidates)
      BY <1>2, <2>7, <3>2
    <3>5. \A c \in ToSet(weighed.candidates) : c \in 1 .. Len(weighed.node)
      BY <1>2, <2>7, <3>2, <3>3
    <3>6. IsInjective(weighed.candidates)
      BY <2>7, <3>2
    <3>7. \E q \in Seq(Nat) :
            /\ insert_candidate_in_priority_queue(weighed, id) = [weighed EXCEPT !.candidates = q]
            /\ IsInjective(q) /\ ToSet(q) = ToSet(weighed.candidates) \cup {id}
      BY <3>1, <3>4, <3>5, <3>6, QueuePut
    <3>. QED BY <2>7, <3>7
  <2>10. /\ t.node = weighed.node /\ t.results = weighed.results
         /\ t.candidates = q /\ t.multipleof = weighed.multipleof /\ ListType(t)
    <3>. HIDE DEF weighed
    <3>1. ListType(weighed) /\ t = [weighed EXCEPT !.candidates = q]
      BY <2>1, <2>7, <2>8, <2>9
    <3>2. /\ t \in [node : Seq(Nodes), results : Seq(Nat), candidates : Seq(Nat),
                      multipleof : Nat \ {0}]
          /\ t.node = weighed.node /\ t.results = weighed.results
          /\ t.candidates = q /\ t.multipleof = weighed.multipleof
      BY <3>1 DEF ListType
    <3>. QED BY <3>1, <3>2 DEF ListType
  <2>11. \A j : At(t, j) = At(weighed, j)
    BY <2>10 DEF At
  <2>. HIDE DEF weighed, n1, n0, linked, w, middle, id
  <2>12. InsertedAfter(s, t, k) /\ Value(t, k + 1) = middle /\ At(t, k + 1) = n1
    BY <2>6, <2>7, <2>10, <2>11 DEF InsertedAfter, Cand, Value
  <2>13. /\ Sorted(t, e + 1) /\ Spaced(t) /\ Halved(t) /\ Multiples(t)
         /\ \A j \in 1 .. N : Cand(s, j) => Key(t, Moved(k, j)) = Key(s, j)
         /\ Key(t, k + 1) = calculate_key(Before(s, k), At(s, k), At(s, k + 1), After(s, k + 1))
    <3>1. Value(t, k + 1) = Middle(s, At(s, k), At(s, k + 1)) /\ Value(t, k + 1) \notin {a, b}
      BY <1>5, <2>12 DEF middle
    <3>. QED BY <2>10, <2>12, <3>1, InsertedOrder
  <2>14. Len(t.results) = N + 1
    BY <2>7, <2>10
  <2>15. Queued(t)
    <3>1. \A c \in ToSet(s.results) : c \in 1 .. Len(s.node)
      BY <1>1, LenProperties DEF ListType, ToSet
    <3>2. \A c \in ToSet(s.results) : t.node[c] = s.node[c]
      BY <2>7, <2>10, <3>1
    <3>3. t.node[id] = n1
      BY <2>7, <2>10, <2>11, <2>12 DEF At
    <3>4. ToSet(t.results) = ToSet(s.results) \cup {id}
      BY <2>7, <2>10
    <3>5. CandidateIds(t) = CandidateIds(s) \cup {id}
      BY <2>6, <3>2, <3>3, <3>4 DEF CandidateIds
    <3>. QED BY <1>1, <2>9, <2>10, <3>5 DEF Queued
  <2>16. Fresh(t, {})
    <3>. SUFFICES ASSUME NEW p \in 1 .. N + 1, Cand(t, p) PROVE At(t, p).weight = Key(t, p)
      BY <2>14 DEF Fresh
    <3>1. CASE p = k + 1
      BY <2>5, <2>6, <2>12, <2>13, <3>1
    <3>2. ASSUME NEW j \in 1 .. N, p = Moved(k, j) PROVE At(t, p).weight = Key(t, p)
      <4>1. At(t, p) = At(s, j)
        BY <2>12, <3>2 DEF InsertedAfter
      <4>2. Cand(s, j)
        BY <4>1 DEF Cand
      <4>3. At(s, j).weight = Key(s, j)
        BY <4>2 DEF Fresh
      <4>. QED BY <2>13, <3>2, <4>1, <4>2, <4>3
    <3>. QED BY <1>2, <3>1, <3>2, Places
  <2>17. Chain(t, e + 1)
    <3>1. N + 1 >= 3 /\ e + 1 \in {N + 1, (N + 1) - 1} /\ e + 1 >= 3
      BY <1>1, <1>2
    <3>. QED BY <2>10, <2>13, <2>14, <2>15, <3>1 DEF Chain
  <2>. QED BY <2>12, <2>16, <2>17
<1>. QED BY <1>4, <1>5

-----------------------------------------------------------------------------
(* A candidate becomes a result, and the weights around it are made anew. *)

\* t is s but for weights of candidates and the order of the queue.
SameResults(s, t) ==
  /\ t.results = s.results /\ t.multipleof = s.multipleof
  /\ \A j \in 1 .. Len(s.results) :
       /\ Value(t, j) = Value(s, j) /\ Cand(t, j) = Cand(s, j)
       /\ ~Cand(s, j) => At(t, j) = At(s, j)

LEMMA NextToCandidate ==
  ASSUME NEW s, ListType(s), Spaced(s), NEW k \in 1 .. Len(s.results), Cand(s, k)
  PROVE  /\ k \in 3 .. Len(s.results) - 2 /\ k - 1 \in 2 .. Len(s.results)
         /\ k + 1 \in 1 .. Len(s.results) - 1 /\ ~Cand(s, k - 1) /\ ~Cand(s, k + 1)
<1>1. k \in 3 .. Len(s.results) - 2 /\ ~Cand(s, k - 1) /\ ~Cand(s, k + 1)
  BY DEF Spaced
<1>. QED BY <1>1, AtType

\* Which result comes before another, and which after.
LEMMA NextResults ==
  ASSUME NEW s, ListType(s), Spaced(s)
  PROVE  /\ \A k \in 2 .. Len(s.results) : ~Cand(s, k) =>
              \E j \in 1 .. k - 1 : ~Cand(s, j) /\ Before(s, k) = At(s, j)
                                 /\ j = IF Cand(s, k - 1) THEN k - 2 ELSE k - 1
         /\ \A k \in 1 .. Len(s.results) - 1 : ~Cand(s, k) =>
              \E j \in k + 1 .. Len(s.results) : ~Cand(s, j) /\ After(s, k) = At(s, j)
                                 /\ j = IF Cand(s, k + 1) THEN k + 2 ELSE k + 1
<1>. DEFINE N == Len(s.results)
<1>1. N \in Nat
  BY AtType
<1>2. ASSUME NEW k \in 2 .. N, ~Cand(s, k)
      PROVE  \E j \in 1 .. k - 1 : ~Cand(s, j) /\ Before(s, k) = At(s, j)
                                 /\ j = IF Cand(s, k - 1) THEN k - 2 ELSE k - 1
  <2>1. CASE Cand(s, k - 1)
    <3>1. k - 1 \in 1 .. N
      BY <1>1
    <3>2. k - 1 \in 3 .. N /\ ~Cand(s, (k - 1) - 1) /\ (k - 1) - 1 = k - 2
      BY <1>1, <2>1, <3>1, NextToCandidate
    <3>3. k - 2 \in 1 .. k - 1
      BY <1>1, <3>2
    <3>. QED BY <2>1, <3>2, <3>3 DEF Before
  <2>2. CASE ~Cand(s, k - 1)
    BY <1>1, <2>2 DEF Before
  <2>. QED BY <2>1, <2>2
<1>3. ASSUME NEW k \in 1 .. N - 1, ~Cand(s, k)
      PROVE  \E j \in k + 1 .. N : ~Cand(s, j) /\ After(s, k) = At(s, j)
                                 /\ j = IF Cand(s, k + 1) THEN k + 2 ELSE k + 1
  <2>1. CASE Cand(s, k + 1)
    <3>1. k + 1 \in 1 .. N
      BY <1>1
    <3>2. k + 1 \in 3 .. N - 2 /\ ~Cand(s, (k + 1) + 1) /\ (k + 1) + 1 = k + 2
      BY <1>1, <2>1, <3>1, NextToCandidate
    <3>3. k + 2 \in k + 1 .. N
      BY <1>1, <3>2
    <3>. QED BY <2>1, <3>2, <3>3 DEF After
  <2>2. CASE ~Cand(s, k + 1)
    BY <1>1, <2>2 DEF After
  <2>. QED BY <2>1, <2>2
<1>. QED BY <1>2, <1>3

LEMMA SameOrder ==
  ASSUME NEW s, NEW t, NEW e, ListType(s), ListType(t), SameResults(s, t),
         e \in {Len(s.results), Len(s.results) - 1},
         Sorted(s, e), Spaced(s), Halved(s), Multiples(s)
  PROVE  /\ Sorted(t, e) /\ Spaced(t) /\ Halved(t) /\ Multiples(t)
         /\ \A j \in 1 .. Len(s.results) : Cand(s, j) => Key(t, j) = Key(s, j)
<1>. DEFINE N == Len(s.results)
<1>1. N \in Nat /\ Len(t.results) = N
  BY AtType DEF SameResults
<1>2. /\ t.results = s.results /\ t.multipleof = s.multipleof
      /\ \A j \in 1 .. N : Value(t, j) = Value(s, j) /\ Cand(t, j) = Cand(s, j)
      /\ \A j \in 1 .. N : ~Cand(s, j) => At(t, j) = At(s, j)
  BY DEF SameResults
<1>3. Sorted(t, e)
  <2>1. \A j \in 2 .. e : j \in 1 .. N
    BY <1>1
  <2>. QED BY <1>1, <1>2, <2>1 DEF Sorted
<1>4. ASSUME NEW k \in 1 .. N, Cand(s, k)
      PROVE  /\ k \in 3 .. N - 2 /\ k - 1 \in 2 .. N /\ k + 1 \in 1 .. N - 1
             /\ ~Cand(s, k - 1) /\ ~Cand(s, k + 1)
             /\ At(t, k - 1) = At(s, k - 1) /\ At(t, k + 1) = At(s, k + 1)
             /\ ~Cand(t, k - 1) /\ ~Cand(t, k + 1)
  <2>1. /\ k \in 3 .. N - 2 /\ k - 1 \in 2 .. N /\ k + 1 \in 1 .. N - 1
        /\ ~Cand(s, k - 1) /\ ~Cand(s, k + 1)
    BY <1>4, NextToCandidate
  <2>. QED BY <1>1, <1>2, <2>1
<1>5. Spaced(t)
  BY <1>1, <1>2, <1>4 DEF Spaced
<1>6. Halved(t)
  <2>. SUFFICES ASSUME NEW k \in 1 .. N, Cand(t, k)
                PROVE  Value(t, k) = Middle(t, At(t, k - 1), At(t, k + 1))
    BY <1>1 DEF Halved
  <2>1. Cand(s, k) /\ Value(t, k) = Value(s, k)
    BY <1>2
  <2>2. Value(s, k) = Middle(s, At(s, k - 1), At(s, k + 1))
    BY <2>1 DEF Halved
  <2>3. Middle(s, At(s, k - 1), At(s, k + 1)) = Middle(t, At(t, k - 1), At(t, k + 1))
    BY <1>2, <1>4, <2>1 DEF Middle
  <2>. QED BY <2>1, <2>2, <2>3
<1>7. Multiples(t)
  BY <1>1, <1>2 DEF Multiples
<1>8. ASSUME NEW k \in 2 .. N, ~Cand(s, k) PROVE Before(t, k) = Before(s, k)
  <2>1. k - 1 \in 1 .. N
    BY <1>1
  <2>2. PICK j \in 1 .. k - 1 : ~Cand(s, j) /\ Before(s, k) = At(s, j)
                              /\ j = IF Cand(s, k - 1) THEN k - 2 ELSE k - 1
    BY <1>8, NextResults
  <2>3. Before(t, k) = At(t, j) /\ j \in 1 .. N
    BY <1>1, <1>2, <2>1, <2>2 DEF Before
  <2>. QED BY <1>2, <2>2, <2>3
<1>9. ASSUME NEW k \in 1 .. N - 1, ~Cand(s, k) PROVE After(t, k) = After(s, k)
  <2>1. k + 1 \in 1 .. N
    BY <1>1
  <2>2. PICK j \in k + 1 .. N : ~Cand(s, j) /\ After(s, k) = At(s, j)
                              /\ j = IF Cand(s, k + 1) THEN k + 2 ELSE k + 1
    BY <1>9, NextResults
  <2>3. After(t, k) = At(t, j) /\ j \in 1 .. N
    BY <1>1, <1>2, <2>1, <2>2 DEF After
  <2>. QED BY <1>2, <2>2, <2>3
<1>10. ASSUME NEW k \in 1 .. N, Cand(s, k) PROVE Key(t, k) = Key(s, k)
  <2>1. Key(s, k) = calculate_key(Before(s, k - 1), At(s, k - 1), At(s, k + 1), After(s, k + 1))
    BY <1>4, <1>10, KeyNear
  <2>2. Key(t, k) = calculate_key(Before(t, k - 1), At(t, k - 1), At(t, k + 1), After(t, k + 1))
    BY <1>1, <1>4, <1>5, <1>10, KeyNear
  <2>3. Before(t, k - 1) = Before(s, k - 1) /\ After(t, k + 1) = After(s, k + 1)
    BY <1>4, <1>8, <1>9, <1>10
  <2>. QED BY <1>4, <1>10, <2>1, <2>2, <2>3
<1>. QED BY <1>3, <1>5, <1>6, <1>7, <1>10

LEMMA UpdateWeight ==
  ASSUME NEW s, NEW e, Chain(s, e), NEW X, Fresh(s, X), NEW k,
         NEW t, t = update_weight(s, k)
  PROVE  Chain(t, e) /\ Fresh(t, X \ {k}) /\ SameResults(s, t)
<1>. DEFINE N == Len(s.results)
            id == s.results[k]
            w == Key(s, k)
            n == s.node[id]
            n1 == [n EXCEPT !.i = Middle(s, At(s, k - 1), At(s, k + 1)), !.weight = w]
            weighed == calculate_weight(s, k)
<1>1. /\ ListType(s) /\ N >= 3 /\ e \in {N, N - 1} /\ e >= 3
      /\ Sorted(s, e) /\ Spaced(s) /\ Halved(s) /\ Queued(s) /\ Multiples(s)
  BY DEF Chain
<1>2. CASE k \notin 1 .. N \/ ~Cand(s, k)
  <2>1. t = s
    BY <1>2 DEF update_weight, Cand
  <2>2. Fresh(s, X \ {k})
    BY <1>2 DEF Fresh
  <2>3. SameResults(s, s)
    BY DEF SameResults
  <2>. QED BY <2>1, <2>2, <2>3
<1>3. CASE k \in 1 .. N /\ Cand(s, k)
  <2>1. t = insert_candidate_in_priority_queue(remove_candidate_from_prior_queue(weighed, id), id)
    BY <1>3 DEF update_weight, Cand
  <2>2. /\ k \in 3 .. N - 2 /\ k - 1 \in 1 .. N /\ k + 1 \in 1 .. N
        /\ ~Cand(s, k - 1) /\ ~Cand(s, k + 1)
    BY <1>1, <1>3, NextToCandidate, AtType
  <2>3. w \in Nat
    <3>1. w = calculate_key(Before(s, k - 1), At(s, k - 1), At(s, k + 1), After(s, k + 1))
      BY <1>1, <2>2, KeyNear
    <3>2. k - 1 \in 2 .. N /\ k + 1 \in 1 .. N - 1 /\ N \in Nat
      BY <1>1, <1>3, NextToCandidate, AtType
    <3>3. PICK i \in 1 .. (k - 1) - 1 : Before(s, k - 1) = At(s, i)
      BY <1>1, <2>2, <3>2, NextResults
    <3>4. PICK j \in (k + 1) + 1 .. N : After(s, k + 1) = At(s, j)
      BY <1>1, <2>2, <3>2, NextResults
    <3>5. i \in 1 .. N /\ j \in 1 .. N /\ i <= k - 1 /\ k + 1 <= j
      BY <3>2
    <3>6. At(s, i).i <= At(s, k - 1).i /\ At(s, k + 1).i <= At(s, j).i
      BY <1>1, <2>2, <3>5 DEF Sorted, Value
    <3>7. /\ At(s, i) \in Nodes /\ At(s, k - 1) \in Nodes
          /\ At(s, k + 1) \in Nodes /\ At(s, j) \in Nodes
      BY <1>1, <2>2, <3>5, AtType
    <3>. QED BY <3>1, <3>3, <3>4, <3>6, <3>7, KeyType
  <2>4. id \in 1 .. Len(s.node) /\ n \in Nodes /\ n = At(s, k) /\ n.is_candidate /\ n.i = Value(s, k)
    BY <1>1, <1>3, AtType DEF ListType, At, Value, Cand
  <2>5. /\ n1 \in Nodes /\ n1.i = n.i /\ n1.is_candidate = n.is_candidate
        /\ n1.result = n.result /\ n1.weight = w
    <3>1. Middle(s, At(s, k - 1), At(s, k + 1)) = n.i
      BY <1>1, <1>3, <2>4 DEF Halved
    <3>. HIDE DEF n, w
    <3>. QED BY <2>3, <2>4, <3>1 DEF Nodes
  <2>. HIDE DEF w
  <2>6. weighed = [s EXCEPT !.node[id] = n1]
    BY DEF calculate_weight, At, w
  <2>. HIDE DEF n1, weighed
  <2>7. s \in [node : Seq(Nodes), results : Seq(Nat), candidates : Seq(Nat), multipleof : Nat \ {0}]
    BY <1>1 DEF ListType
  <2>8. /\ weighed \in [node : Seq(Nodes), results : Seq(Nat), candidates : Seq(Nat),
                        multipleof : Nat \ {0}]
        /\ weighed.results = s.results /\ weighed.candidates = s.candidates
        /\ weighed.multipleof = s.multipleof /\ weighed.node = [s.node EXCEPT ![id] = n1]
    <3>1. [s.node EXCEPT ![id] = n1] \in Seq(Nodes)
      BY <2>4, <2>5, <2>7, ExceptSeq
    <3>. HIDE DEF id
    <3>. QED BY <2>6, <2>7, <3>1
  <2>9. /\ Len(weighed.node) = Len(s.node) /\ weighed.node[id] = n1
        /\ \A i \in 1 .. Len(s.node) : i # id => weighed.node[i] = s.node[i]
    BY <2>4, <2>5, <2>7, <2>8, ExceptSeq
  <2>10. ToSet(s.candidates) = CandidateIds(s) /\ IsInjective(s.candidates) /\ id \in CandidateIds(s)
    <3>1. id \in ToSet(s.results)
      BY <1>3, <2>7, LenProperties DEF ToSet
    <3>. QED BY <1>1, <2>4, <3>1 DEF Queued, CandidateIds
  <2>11. PICK q1 \in Seq(Nat) :
           /\ remove_candidate_from_prior_queue(weighed, id) = [weighed EXCEPT !.candidates = q1]
           /\ IsInjective(q1) /\ ToSet(q1) = CandidateIds(s) \ {id}
    <3>1. id \in ToSet(weighed.candidates) /\ IsInjective(weighed.candidates)
      BY <2>8, <2>10
    <3>. HIDE DEF id
    <3>2. \E q1 \in Seq(Nat) :
           /\ remove_candidate_from_prior_queue(weighed, id) = [weighed EXCEPT !.candidates = q1]
           /\ IsInjective(q1) /\ ToSet(q1) = ToSet(weighed.candidates) \ {id}
      BY <2>8, <3>1, QueueTake
    <3>. QED BY <2>8, <2>10, <3>2
  <2>. DEFINE u == [weighed EXCEPT !.candidates = q1]
  <2>12. /\ u \in [node : Seq(Nodes), results : Seq(Nat), candidates : Seq(Nat),
                   multipleof : Nat \ {0}]
         /\ u.node = weighed.node /\ u.results = s.results /\ u.candidates = q1
         /\ u.multipleof = s.multipleof
    BY <2>8, <2>11
  <2>. HIDE DEF u
  <2>13. PICK q2 \in Seq(Nat) :
           /\ insert_candidate_in_priority_queue(u, id) = [u EXCEPT !.candidates = q2]
           /\ IsInjective(q2) /\ ToSet(q2) = CandidateIds(s)
    <3>1. \A c \in CandidateIds(s) : c \in 1 .. Len(s.node)
      BY <1>1, <2>7, LenProperties DEF ListType, ToSet, CandidateIds
    <3>2. /\ id \in 1 .. Len(u.node) /\ \A c \in ToSet(u.candidates) : c \in 1 .. Len(u.node)
          /\ IsInjective(u.candidates) /\ id \notin ToSet(u.candidates)
      BY <2>4, <2>9, <2>11, <2>12, <3>1
    <3>. HIDE DEF id
    <3>3. \E q2 \in Seq(Nat) :
           /\ insert_candidate_in_priority_queue(u, id) = [u EXCEPT !.candidates = q2]
           /\ IsInjective(q2) /\ ToSet(q2) = ToSet(u.candidates) \cup {id}
      BY <2>12, <3>2, QueuePut
    <3>4. ToSet(u.candidates) \cup {id} = CandidateIds(s)
      BY <2>10, <2>11, <2>12
    <3>. QED BY <3>3, <3>4
  <2>14. /\ t \in [node : Seq(Nodes), results : Seq(Nat), candidates : Seq(Nat),
                   multipleof : Nat \ {0}]
         /\ t.node = weighed.node /\ t.results = s.results /\ t.candidates = q2
         /\ t.multipleof = s.multipleof
    <3>1. t = [u EXCEPT !.candidates = q2]
      BY <2>1, <2>11, <2>13 DEF u
    <3>. QED BY <2>12, <2>13, <3>1
  <2>15. ListType(t)
    BY <1>1, <2>9, <2>14 DEF ListType
  <2>16. \A j \in 1 .. N : IF j = k THEN At(t, j) = n1 ELSE At(t, j) = At(s, j)
    <3>. TAKE j \in 1 .. N
    <3>1. s.results[j] \in 1 .. Len(s.node)
      BY <1>1 DEF ListType
    <3>2. j # k => s.results[j] # id
      <4>1. IsInjective(s.results) /\ DOMAIN s.results = 1 .. N
        BY <1>1, LenProperties DEF ListType
      <4>2. k \in 1 .. N /\ s.results[k] = id
        BY <1>1, <1>3, <2>7
      <4>. QED BY <4>1, <4>2 DEF IsInjective
    <3>. QED BY <2>9, <2>14, <3>1, <3>2 DEF At
  <2>17. SameResults(s, t)
    <3>1. \A j \in 1 .. N : Value(t, j) = Value(s, j)
      BY <2>4, <2>5, <2>16 DEF Value
    <3>2. \A j \in 1 .. N : Cand(t, j) = Cand(s, j)
      BY <2>4, <2>5, <2>16 DEF Cand
    <3>3. \A j \in 1 .. N : ~Cand(s, j) => At(t, j) = At(s, j)
      BY <1>3, <2>16
    <3>. QED BY <2>14, <3>1, <3>2, <3>3 DEF SameResults
  <2>18. /\ Sorted(t, e) /\ Spaced(t) /\ Halved(t) /\ Multiples(t)
         /\ \A j \in 1 .. N : Cand(s, j) => Key(t, j) = Key(s, j)
    BY <1>1, <2>15, <2>17, SameOrder
  <2>19. Queued(t)
    <3>1. \A c \in ToSet(s.results) : c \in 1 .. Len(s.node)
      BY <1>1, <2>7, LenProperties DEF ListType, ToSet
    <3>2. \A c \in ToSet(s.results) : t.node[c].is_candidate = s.node[c].is_candidate
      BY <2>4, <2>5, <2>9, <2>14, <3>1
    <3>3. CandidateIds(t) = CandidateIds(s)
      BY <2>14, <3>2 DEF CandidateIds
    <3>. QED BY <2>13, <2>14, <3>3 DEF Queued
  <2>20. Fresh(t, X \ {k})
    <3>. SUFFICES ASSUME NEW j \in (1 .. N) \ (X \ {k}), Cand(t, j)
                  PROVE  At(t, j).weight = Key(t, j)
      BY <2>14 DEF Fresh
    <3>1. Cand(s, j) /\ j \in 1 .. N
      BY <2>17 DEF SameResults
    <3>2. CASE j = k
      BY <2>5, <2>16, <2>18, <3>1, <3>2 DEF w
    <3>3. CASE j # k
      <4>1. At(s, j).weight = Key(s, j)
        BY <3>1, <3>3 DEF Fresh
      <4>. QED BY <2>16, <2>18, <3>1, <3>3, <4>1
    <3>. QED BY <3>2, <3>3
  <2>21. Chain(t, e)
    BY <1>1, <2>14, <2>15, <2>18, <2>19 DEF Chain
  <2>. QED BY <2>17, <2>20, <2>21
<1>. QED BY <1>2, <1>3

LEMMA PosIs ==
  ASSUME NEW s, ListType(s), NEW p \in 1 .. Len(s.results)
  PROVE  Pos(s, s.results[p]) = p
<1>1. DOMAIN s.results = 1 .. Len(s.results)
  BY LenProperties DEF ListType
<1>2. \A k \in 1 .. Len(s.results) : s.results[k] = s.results[p] => k = p
  BY <1>1 DEF ListType, IsInjective
<1>. QED BY <1>2 DEF Pos

\* t is s with a result instead of the candidate at position p.
BecameResult(s, t, p, result) ==
  /\ t.results = s.results /\ t.multipleof = s.multipleof
  /\ \A j \in 1 .. Len(s.results) : j # p => At(t, j) = At(s, j)
  /\ ~Cand(t, p) /\ Value(t, p) = Value(s, p) /\ At(t, p).result = result

LEMMA Made ==
  ASSUME NEW s, NEW e, Chain(s, e), Fresh(s, {}), s.candidates # << >>, NEW result \in Results,
         NEW el, el = Head(s.candidates),
         NEW t, t = [remove_candidate_from_prior_queue(s, el)
                       EXCEPT !.node[el].is_candidate = FALSE, !.node[el].result = result]
  PROVE  \E p \in 1 .. Len(s.results) :
           /\ s.results[p] = el /\ Cand(s, p)
           /\ Chain(t, e) /\ Fresh(t, {p - 2, p + 2}) /\ BecameResult(s, t, p, result)
<1>. DEFINE N == Len(s.results)
            n == s.node[el]
            n1 == [n EXCEPT !.is_candidate = FALSE, !.result = result]
<1>1. /\ ListType(s) /\ N >= 3 /\ e \in {N, N - 1} /\ e >= 3
      /\ Sorted(s, e) /\ Spaced(s) /\ Halved(s) /\ Queued(s) /\ Multiples(s)
  BY DEF Chain
<1>2. /\ s \in [node : Seq(Nodes), results : Seq(Nat), candidates : Seq(Nat),
                 multipleof : Nat \ {0}]
      /\ N \in Nat /\ DOMAIN s.results = 1 .. N
  BY <1>1, LenProperties DEF ListType
<1>2a. N \in Nat
  BY <1>2
<1>3. el \in ToSet(s.candidates) /\ el \in ToSet(s.results) /\ n.is_candidate
  <2>1. s.candidates \in Seq(Nat) /\ Len(s.candidates) \in Nat
    BY <1>2, LenProperties
  <2>2. 1 \in DOMAIN s.candidates /\ el = s.candidates[1]
    BY <2>1, EmptySeq, HeadTailProperties
  <2>3. el \in ToSet(s.candidates)
    BY <2>2 DEF ToSet
  <2>. QED BY <1>1, <2>3 DEF Queued, CandidateIds
<1>4. PICK p \in 1 .. N : s.results[p] = el
  BY <1>2, <1>3 DEF ToSet
<1>5. el \in 1 .. Len(s.node) /\ n \in Nodes /\ n = At(s, p) /\ Cand(s, p)
  BY <1>1, <1>3, <1>4, AtType DEF ListType, At, Cand
<1>6. n1 \in Nodes /\ n1.i = n.i /\ ~n1.is_candidate /\ n1.result = result
  <2>. HIDE DEF n
  <2>. QED BY <1>5 DEF Nodes
<1>7. PICK q \in Seq(Nat) :
        /\ remove_candidate_from_prior_queue(s, el) = [s EXCEPT !.candidates = q]
        /\ IsInjective(q) /\ ToSet(q) = CandidateIds(s) \ {el}
  <2>1. IsInjective(s.candidates) /\ ToSet(s.candidates) = CandidateIds(s)
    BY <1>1 DEF Queued
  <2>2. \E q \in Seq(Nat) :
          /\ remove_candidate_from_prior_queue(s, el) = [s EXCEPT !.candidates = q]
          /\ IsInjective(q) /\ ToSet(q) = ToSet(s.candidates) \ {el}
    BY <1>2, <1>3, <2>1, QueueTake
  <2>. QED BY <2>1, <2>2
<1>8. /\ t \in [node : Seq(Nodes), results : Seq(Nat), candidates : Seq(Nat),
                 multipleof : Nat \ {0}]
      /\ t.results = s.results /\ t.candidates = q
      /\ t.multipleof = s.multipleof /\ t.node = [s.node EXCEPT ![el] = n1]
  <2>. DEFINE u == [s EXCEPT !.candidates = q]
  <2>1. u \in [node : Seq(Nodes), results : Seq(Nat), candidates : Seq(Nat),
                 multipleof : Nat \ {0}]
        /\ u.results = s.results /\ u.candidates = q
        /\ u.multipleof = s.multipleof /\ u.node = s.node
    BY <1>2
  <2>2. t = [u EXCEPT !.node[el].is_candidate = FALSE, !.node[el].result = result]
    BY <1>7
  <2>. HIDE DEF u
  <2>3. [s.node EXCEPT ![el] = n1] \in Seq(Nodes)
    <3>. HIDE DEF n1
    <3>. QED BY <1>2, <1>5, <1>6, ExceptSeq
  <2>4. t.node = [s.node EXCEPT ![el] = n1]
    <3>1. DOMAIN s.node = 1 .. Len(s.node)
      BY <1>2, LenProperties
    <3>. DEFINE nd1 == [s.node EXCEPT ![el].is_candidate = FALSE]
                nd2 == [nd1 EXCEPT ![el].result = result]
    <3>. DEFINE u1 == [u EXCEPT !.node[el].is_candidate = FALSE]
    <3>1a. DOMAIN u = {"node", "results", "candidates", "multipleof"} /\ "node" \in DOMAIN u
      BY <2>1
    <3>1b. u1.node = nd1 /\ DOMAIN u1 = DOMAIN u
      BY <2>1, <3>1a
    <3>2. t.node = nd2
      <4>1. t = [u1 EXCEPT !.node[el].result = result]
        BY <2>2
      <4>. HIDE DEF u1
      <4>. QED BY <3>1a, <3>1b, <4>1, ZenonT(40)
    <3>3. nd1[el] = [n EXCEPT !.is_candidate = FALSE]
      BY <1>5, <3>1
    <3>4. nd2 = [nd1 EXCEPT ![el] = n1]
      BY <3>3
    <3>5. [nd1 EXCEPT ![el] = n1] = [s.node EXCEPT ![el] = n1]
      <4>. HIDE DEF n1
      <4>. QED BY <1>5, <3>1
    <3>. QED BY <3>2, <3>4, <3>5
  <2>5. /\ t.results = u.results /\ t.candidates = u.candidates /\ t.multipleof = u.multipleof
        /\ t = [u EXCEPT !.node = t.node]
    BY <2>1, <2>2
  <2>. HIDE DEF n1
  <2>. QED BY <2>1, <2>3, <2>4, <2>5
<1>. HIDE DEF n1
<1>9. /\ Len(t.node) = Len(s.node) /\ t.node[el] = n1
      /\ \A i \in 1 .. Len(s.node) : i # el => t.node[i] = s.node[i]
  <2>. DEFINE u == [s.node EXCEPT ![el] = n1]
  <2>1. s.node \in Seq(Nodes)
    BY <1>2
  <2>2. Len(u) = Len(s.node) /\ u[el] = n1 /\ \A i \in 1 .. Len(s.node) : i # el => u[i] = s.node[i]
    <3>. HIDE DEF n
    <3>. QED BY <1>5, <1>6, <2>1, ExceptSeq
  <2>. HIDE DEF u
  <2>3. t.node = u
    BY <1>8 DEF u
  <2>. QED BY <2>2, <2>3
<1>10. ListType(t)
  BY <1>1, <1>8, <1>9 DEF ListType
<1>11. \A j \in 1 .. N : IF j = p THEN At(t, j) = n1 ELSE At(t, j) = At(s, j)
  <2>. TAKE j \in 1 .. N
  <2>1. s.results[j] \in 1 .. Len(s.node)
    BY <1>1 DEF ListType
  <2>2. j # p => s.results[j] # el
    BY <1>1, <1>2, <1>4 DEF ListType, IsInjective
  <2>. QED BY <1>4, <1>8, <1>9, <2>1, <2>2 DEF At
<1>12. /\ \A j \in 1 .. N : Value(t, j) = Value(s, j)
       /\ \A j \in 1 .. N : j # p => At(t, j) = At(s, j) /\ Cand(t, j) = Cand(s, j)
       /\ ~Cand(t, p) /\ At(t, p).result = result
  <2>1. \A j \in 1 .. N : j # p => At(t, j) = At(s, j) /\ Cand(t, j) = Cand(s, j)
    BY <1>11 DEF Cand
  <2>2. ~Cand(t, p) /\ At(t, p).result = result
    BY <1>6, <1>11 DEF Cand
  <2>3. \A j \in 1 .. N : Value(t, j) = Value(s, j)
    BY <1>5, <1>6, <1>11 DEF Value
  <2>. QED BY <2>1, <2>2, <2>3
<1>13. BecameResult(s, t, p, result)
  BY <1>8, <1>12 DEF BecameResult
<1>13a. Len(t.results) = N
  BY <1>8
<1>14. Sorted(t, e)
  <2>1. \A j \in 2 .. e : j \in 1 .. N
    <3>1. e <= N /\ e \in Nat
      BY <1>1, <1>2a
    <3>. HIDE DEF N
    <3>. QED BY <1>2a, <3>1
  <2>2. \A j \in 1 .. N : Value(t, j) = Value(s, j)
    BY <1>12
  <2>3. /\ \A j, k \in 1 .. N : j <= k => Value(s, j) <= Value(s, k)
        /\ \A j, k \in 2 .. e : j < k => Value(s, j) < Value(s, k)
    BY <1>1 DEF Sorted
  <2>4. \A j, k \in 1 .. N : j <= k => Value(t, j) <= Value(t, k)
    BY <2>2, <2>3
  <2>5. \A j, k \in 2 .. e : j < k => Value(t, j) < Value(t, k)
    BY <2>1, <2>2, <2>3
  <2>. QED BY <1>13a, <2>4, <2>5 DEF Sorted
<1>15. ASSUME NEW k \in 1 .. N, Cand(t, k)
       PROVE  /\ Cand(s, k) /\ k # p
              /\ k \in 3 .. N - 2 /\ k - 1 \in 2 .. N /\ k + 1 \in 1 .. N - 1
              /\ ~Cand(s, k - 1) /\ ~Cand(s, k + 1) /\ ~Cand(t, k - 1) /\ ~Cand(t, k + 1)
              /\ At(t, k - 1) = At(s, k - 1) /\ At(t, k + 1) = At(s, k + 1)
  <2>1. k # p /\ Cand(s, k)
    BY <1>12, <1>15
  <2>2. /\ k \in 3 .. N - 2 /\ k - 1 \in 2 .. N /\ k + 1 \in 1 .. N - 1
        /\ ~Cand(s, k - 1) /\ ~Cand(s, k + 1)
    BY <1>1, <2>1, NextToCandidate
  <2>2a. k - 1 # p /\ k + 1 # p
    BY <1>5, <2>2
  <2>3. k - 1 \in 1 .. N /\ k + 1 \in 1 .. N
    BY <1>2a, <2>2
  <2>. QED BY <1>12, <2>1, <2>2, <2>2a, <2>3
<1>16. Spaced(t)
  BY <1>8, <1>15 DEF Spaced
<1>17. Halved(t)
  <2>. SUFFICES ASSUME NEW k \in 1 .. N, Cand(t, k)
                PROVE  Value(t, k) = Middle(t, At(t, k - 1), At(t, k + 1))
    BY <1>8 DEF Halved
  <2>1. Value(s, k) = Middle(s, At(s, k - 1), At(s, k + 1))
    BY <1>1, <1>15 DEF Halved
  <2>. QED BY <1>8, <1>12, <1>15, <2>1 DEF Middle
<1>18. Multiples(t)
  BY <1>1, <1>8, <1>12 DEF Multiples
<1>19. Queued(t)
  <2>1. \A c \in ToSet(s.results) : c \in 1 .. Len(s.node)
    BY <1>1, <1>2 DEF ListType, ToSet
  <2>2. \A c \in ToSet(s.results) : IF c = el THEN ~t.node[c].is_candidate
                                              ELSE t.node[c] = s.node[c]
    BY <1>6, <1>9, <2>1
  <2>2a. \A c \in ToSet(s.results) : t.node[c].is_candidate <=> s.node[c].is_candidate /\ c # el
    <3>1. \A c \in ToSet(s.results) : c = el => s.node[c].is_candidate
      BY <1>3
    <3>. QED BY <2>2, <3>1
  <2>3. CandidateIds(t) = CandidateIds(s) \ {el}
    <3>1. CandidateIds(t) = {c \in ToSet(s.results) : t.node[c].is_candidate}
      BY <1>8 DEF CandidateIds
    <3>. QED BY <2>2a, <3>1 DEF CandidateIds
  <2>. QED BY <1>7, <1>8, <2>3 DEF Queued
<1>20. Fresh(t, {p - 2, p + 2})
  <2>. SUFFICES ASSUME NEW k \in 1 .. N, k # p - 2, k # p + 2, Cand(t, k)
                PROVE  At(t, k).weight = Key(t, k)
    BY <1>8 DEF Fresh
  <2>1. /\ Cand(s, k) /\ k # p
        /\ k \in 3 .. N - 2 /\ k - 1 \in 2 .. N /\ k + 1 \in 1 .. N - 1
        /\ ~Cand(s, k - 1) /\ ~Cand(s, k + 1) /\ ~Cand(t, k - 1) /\ ~Cand(t, k + 1)
        /\ At(t, k - 1) = At(s, k - 1) /\ At(t, k + 1) = At(s, k + 1)
    BY <1>15
  <2>2. Key(s, k) = calculate_key(Before(s, k - 1), At(s, k - 1), At(s, k + 1), After(s, k + 1))
    BY <1>1, <2>1, KeyNear
  <2>3. Key(t, k) = calculate_key(Before(t, k - 1), At(t, k - 1), At(t, k + 1), After(t, k + 1))
    <3>1. k \in 3 .. Len(t.results) - 2
      BY <1>13a, <2>1
    <3>. QED BY <1>10, <1>16, <2>1, <3>1, KeyNear
  <2>4. Before(t, k - 1) = Before(s, k - 1)
    <3>1. PICK j \in 1 .. (k - 1) - 1 :
             ~Cand(s, j) /\ Before(s, k - 1) = At(s, j)
             /\ j = IF Cand(s, (k - 1) - 1) THEN (k - 1) - 2 ELSE (k - 1) - 1
      BY <1>1, <2>1, NextResults
    <3>1a. j # p
      BY <1>5, <3>1
    <3>1b. (k - 1) - 1 # p
      OBVIOUS
    <3>1c. j \in 1 .. N /\ (k - 1) - 1 \in 1 .. N
      <4>1. k \in 3 .. N - 2
        BY <2>1
      <4>. QED BY <1>2a, <4>1
    <3>2. j \in 1 .. N /\ j # p /\ (k - 1) - 1 \in 1 .. N /\ (k - 1) - 1 # p
      BY <3>1a, <3>1b, <3>1c
    <3>3. Cand(t, (k - 1) - 1) = Cand(s, (k - 1) - 1) /\ At(t, j) = At(s, j)
      BY <1>12, <3>2
    <3>. QED BY <3>1, <3>3 DEF Before
  <2>5. After(t, k + 1) = After(s, k + 1)
    <3>1. PICK j \in (k + 1) + 1 .. N :
             ~Cand(s, j) /\ After(s, k + 1) = At(s, j)
             /\ j = IF Cand(s, (k + 1) + 1) THEN (k + 1) + 2 ELSE (k + 1) + 1
      BY <1>1, <2>1, NextResults
    <3>1a. j # p
      BY <1>5, <3>1
    <3>1b. (k + 1) + 1 # p
      OBVIOUS
    <3>1c. j \in 1 .. N /\ (k + 1) + 1 \in 1 .. N
      <4>1. k \in 3 .. N - 2
        BY <2>1
      <4>. QED BY <1>2a, <4>1
    <3>2. j \in 1 .. N /\ j # p /\ (k + 1) + 1 \in 1 .. N /\ (k + 1) + 1 # p
      BY <3>1a, <3>1b, <3>1c
    <3>3. Cand(t, (k + 1) + 1) = Cand(s, (k + 1) + 1) /\ At(t, j) = At(s, j)
      BY <1>12, <3>2
    <3>. QED BY <3>1, <3>3 DEF After
  <2>6. At(s, k).weight = Key(s, k) /\ At(t, k) = At(s, k)
    BY <1>12, <2>1 DEF Fresh
  <2>. QED BY <2>1, <2>2, <2>3, <2>4, <2>5, <2>6
<1>21. Chain(t, e)
  BY <1>1, <1>8, <1>10, <1>14, <1>16, <1>17, <1>18, <1>19 DEF Chain
<1>. QED BY <1>4, <1>5, <1>13, <1>20, <1>21

-----------------------------------------------------------------------------
(* What holds while the loop is refined. *)

\* The recursion of InsertCandidates, as a function with its values.
LEMMA GapByGap ==
  ASSUME NEW s, Len(s.results) \in Nat, Len(s.results) >= 3
  PROVE  \E f : /\ InsertCandidates(s) = f[Len(s.results) - 3]
                /\ DOMAIN f = 0 .. Len(s.results) - 3
                /\ f[0] = s
                /\ \A k \in 1 .. Len(s.results) - 3 :
                     f[k] = insert_candidate(f[k - 1], k + 1 + Len(f[k - 1].results) - Len(s.results))
<1>. DEFINE n == Len(s.results)
            Step(t, k) == insert_candidate(t, k + 1 + Len(t.results) - n)
            Is(f, m) == f = [k \in 0 .. m |-> IF k = 0 THEN s ELSE Step(f[k - 1], k)]
<1>1. \E f : Is(f, n - 3)
  <2>. DEFINE Bad == {m \in Nat : ~\E f : Is(f, m)}
  <2>1. ASSUME Bad # {} PROVE FALSE
    <3>1. PICK m \in Bad : \A j \in Bad : m <= j
      <4>. HIDE DEF Bad
      <4>1. Bad \subseteq Nat
        BY DEF Bad
      <4>. QED BY <2>1, <4>1, LeastElement
    <3>2. CASE m = 0
      <4>. DEFINE f == [k \in 0 .. 0 |-> s]
      <4>1. Is(f, 0)
        OBVIOUS
      <4>. QED BY <3>1, <3>2, <4>1
    <3>3. CASE m # 0
      <4>1. m \in Nat /\ m - 1 \in Nat
        BY <3>1, <3>3
      <4>1a. m - 1 \notin Bad
        <5>. HIDE DEF Bad
        <5>. QED BY <3>1, <4>1
      <4>2. PICK f : Is(f, m - 1)
        <5>. HIDE DEF Is
        <5>. QED BY <4>1, <4>1a
      <4>. DEFINE g == [k \in 0 .. m |-> IF k = m THEN Step(f[m - 1], m) ELSE f[k]]
      <4>3. \A k \in 0 .. m - 1 : g[k] = f[k]
        <5>. HIDE DEF Step
        <5>1. \A k \in 0 .. m - 1 : k \in 0 .. m /\ k # m
          BY <4>1
        <5>. QED BY <5>1
      <4>4. \A k \in 0 .. m : g[k] = IF k = 0 THEN s ELSE Step(g[k - 1], k)
        <5>. TAKE k \in 0 .. m
        <5>. HIDE DEF Step
        <5>1. CASE k = m
          <6>1. g[m - 1] = f[m - 1]
            BY <4>1, <4>3
          <6>2. g[m] = Step(f[m - 1], m)
            BY <4>1
          <6>. QED BY <3>3, <5>1, <6>1, <6>2
        <5>2. CASE k # m
          <6>1. k \in 0 .. m - 1 /\ (k # 0 => k - 1 \in 0 .. m - 1)
            BY <4>1, <5>2
          <6>2. f[k] = IF k = 0 THEN s ELSE Step(f[k - 1], k)
            BY <4>2, <6>1
          <6>3. k # 0 => g[k - 1] = f[k - 1]
            BY <4>3, <6>1
          <6>4. g[k] = f[k]
            BY <4>3, <6>1
          <6>. QED BY <6>2, <6>3, <6>4
        <5>. QED BY <5>1, <5>2
      <4>5. g = [k \in 0 .. m |-> g[k]]
        OBVIOUS
      <4>. HIDE DEF g, Step
      <4>6. Is(g, m)
        BY <4>4, <4>5
      <4>. QED BY <3>1, <4>6
    <3>. QED BY <3>2, <3>3
  <2>2. n - 3 \in Nat
    OBVIOUS
  <2>3. n - 3 \notin Bad
    <3>. HIDE DEF Bad
    <3>. QED BY <2>1
  <2>. HIDE DEF Is
  <2>. QED BY <2>2, <2>3
<1>. DEFINE inserted == CHOOSE f : Is(f, n - 3)
<1>2. Is(inserted, n - 3)
  <2>. HIDE DEF Is
  <2>. QED BY <1>1
<1>3. InsertCandidates(s) = inserted[n - 3]
  BY DEF InsertCandidates
<1>. HIDE DEF inserted
<1>4. DOMAIN inserted = 0 .. n - 3 /\ inserted[0] = s
  BY <1>2
<1>5. ASSUME NEW k \in 1 .. n - 3 PROVE inserted[k] = Step(inserted[k - 1], k)
  <2>. HIDE DEF Step
  <2>. QED BY <1>2
<1>. QED BY <1>3, <1>4, <1>5

\* The guards have the values of the ends; e is the last position but the guard.
Guarded(s, e) == Value(s, 1) = Value(s, 2) /\ Value(s, Len(s.results)) = Value(s, e)

\* J: the gaps that may still be wide.
Tight(s, e, J) ==
  \A j \in (2 .. e - 1) \ J :
    ~Cand(s, j) /\ ~Cand(s, j + 1) => Value(s, j + 1) - Value(s, j) <= s.multipleof

\* h is what the results at the positions in S say.
Recorded(s, S, h) ==
  /\ \A x \in DOMAIN h : \E j \in S : ~Cand(s, j) /\ Value(s, j) = x /\ At(s, j).result = h[x]
  /\ \A j \in S : ~Cand(s, j) => Value(s, j) \in DOMAIN h

Refining(s, e, J, h) ==
  Chain(s, e) /\ Fresh(s, {}) /\ Guarded(s, e) /\ Tight(s, e, J) /\ Recorded(s, 2 .. e, h)

\* r: whether t has a candidate more, after position k.
Shifted(s, t, k, r) ==
  /\ t.multipleof = s.multipleof /\ Len(t.results) = Len(s.results) + r
  /\ \A j \in k + 1 .. Len(s.results) : t.results[j + r] = s.results[j] /\ At(t, j + r) = At(s, j)

Others(J, k, r) == {j + r : j \in J \ {k}}

\* insert_candidate leaves no wide gap at k.
LEMMA InsertBetween ==
  ASSUME NEW s, NEW e, NEW J, NEW h, Refining(s, e, J, h), NEW k \in 2 .. Len(s.results) - 2,
         ~Cand(s, k), ~Cand(s, k + 1), \A j \in J : j \in Nat /\ j >= k,
         NEW t, t = insert_candidate(s, k)
  PROVE  \E r \in {0, 1} : Refining(t, e + r, Others(J, k, r), h) /\ Shifted(s, t, k, r)
<1>. DEFINE N == Len(s.results)
<1>1. Chain(s, e) /\ Fresh(s, {}) /\ Guarded(s, e) /\ Tight(s, e, J) /\ Recorded(s, 2 .. e, h)
  BY DEF Refining
<1>2. ListType(s) /\ e \in {N, N - 1} /\ e >= 3
  BY <1>1 DEF Chain
<1>3. N \in Nat /\ e \in Nat
  <2>1. N \in Nat
    BY <1>2, AtType
  <2>. QED BY <1>2, <2>1
<1>4. CASE t = s /\ Value(s, k + 1) - Value(s, k) <= s.multipleof
  <2>. DEFINE J0 == Others(J, k, 0)
  <2>1. J0 = J \ {k}
    BY DEF Others
  <2>2. Tight(s, e, J0)
    <3>. HIDE DEF J0
    <3>. SUFFICES ASSUME NEW j \in (2 .. e - 1) \ J0, ~Cand(s, j), ~Cand(s, j + 1)
                  PROVE  Value(s, j + 1) - Value(s, j) <= s.multipleof
      BY DEF Tight
    <3>1. CASE j = k
      BY <1>4, <3>1
    <3>2. CASE j # k
      <4>1. j \in (2 .. e - 1) \ J
        BY <2>1, <3>2
      <4>. QED BY <1>1, <4>1 DEF Tight
    <3>. QED BY <3>1, <3>2
  <2>3. Shifted(s, s, k, 0)
    <3>1. N + 0 = N /\ \A j \in k + 1 .. N : j + 0 = j
      BY <1>3
    <3>. QED BY <3>1 DEF Shifted
  <2>4. e + 0 = e
    BY <1>3
  <2>5. Refining(s, e + 0, J0, h)
    BY <1>1, <2>2, <2>4 DEF Refining
  <2>. QED BY <1>4, <2>3, <2>5
<1>5. CASE Chain(t, e + 1) /\ Fresh(t, {}) /\ InsertedAfter(s, t, k)
  <2>. DEFINE J1 == Others(J, k, 1)
  <2>1. /\ t.multipleof = s.multipleof /\ Len(t.results) = N + 1 /\ Cand(t, k + 1)
        /\ \A j \in 1 .. N : t.results[Moved(k, j)] = s.results[j] /\ At(t, Moved(k, j)) = At(s, j)
    BY <1>5 DEF InsertedAfter
  <2>2. \A j \in 1 .. N : Value(t, Moved(k, j)) = Value(s, j) /\ Cand(t, Moved(k, j)) = Cand(s, j)
    BY <2>1 DEF Value, Cand
  <2>3. Shifted(s, t, k, 1)
    <3>1. \A j \in k + 1 .. N : j \in 1 .. N /\ Moved(k, j) = j + 1
      BY <1>3 DEF Moved
    <3>. QED BY <2>1, <3>1 DEF Shifted
  <2>4. Guarded(t, e + 1)
    <3>1. /\ Moved(k, 1) = 1 /\ Moved(k, 2) = 2 /\ Moved(k, N) = N + 1 /\ Moved(k, e) = e + 1
          /\ 1 \in 1 .. N /\ 2 \in 1 .. N /\ N \in 1 .. N /\ e \in 1 .. N
      BY <1>2, <1>3 DEF Moved
    <3>. QED BY <1>1, <2>1, <2>2, <3>1 DEF Guarded
  <2>5. Tight(t, e + 1, J1)
    <3>. SUFFICES ASSUME NEW p \in (2 .. (e + 1) - 1) \ J1, ~Cand(t, p), ~Cand(t, p + 1)
                  PROVE  Value(t, p + 1) - Value(t, p) <= s.multipleof
      BY <2>1 DEF Tight
    <3>1. p # k + 1 /\ p + 1 # k + 1
      BY <2>1
    <3>2. CASE p < k
      <4>1. /\ Moved(k, p) = p /\ Moved(k, p + 1) = p + 1
            /\ p \in 1 .. N /\ p + 1 \in 1 .. N /\ p \in 2 .. e - 1
        BY <1>2, <1>3, <3>2 DEF Moved
      <4>2. p \notin J
        BY <1>3, <3>2
      <4>. QED BY <1>1, <2>2, <4>1, <4>2 DEF Tight
    <3>3. CASE p > k + 1
      <4>1. PICK j : j = p - 1
        OBVIOUS
      <4>2. /\ Moved(k, j) = p /\ Moved(k, j + 1) = p + 1 /\ j # k /\ p = j + 1
            /\ j \in 1 .. N /\ j + 1 \in 1 .. N /\ j \in 2 .. e - 1
        BY <1>2, <1>3, <3>3, <4>1 DEF Moved
      <4>3. j \notin J
        BY <4>2 DEF Others
      <4>4. ~Cand(s, j) /\ ~Cand(s, j + 1)
        BY <2>2, <4>2
      <4>5. Value(s, j + 1) - Value(s, j) <= s.multipleof
        BY <1>1, <4>2, <4>3, <4>4 DEF Tight
      <4>. QED BY <2>2, <4>2, <4>5
    <3>. QED BY <1>3, <3>1, <3>2, <3>3
  <2>6. Recorded(t, 2 .. e + 1, h)
    <3>1. ASSUME NEW x \in DOMAIN h
          PROVE  \E p \in 2 .. e + 1 : ~Cand(t, p) /\ Value(t, p) = x /\ At(t, p).result = h[x]
      <4>1. PICK j \in 2 .. e : ~Cand(s, j) /\ Value(s, j) = x /\ At(s, j).result = h[x]
        BY <1>1 DEF Recorded
      <4>2. j \in 1 .. N /\ Moved(k, j) \in 2 .. e + 1
        BY <1>2, <1>3 DEF Moved
      <4>. QED BY <2>1, <2>2, <4>1, <4>2
    <3>2. ASSUME NEW p \in 2 .. e + 1, ~Cand(t, p) PROVE Value(t, p) \in DOMAIN h
      <4>1. p # k + 1 /\ p \in 1 .. N + 1
        BY <1>2, <1>3, <2>1, <3>2
      <4>2. PICK j \in 1 .. N : p = Moved(k, j)
        <5>1. k \in 1 .. N
          BY <1>3
        <5>. QED BY <1>3, <4>1, <5>1, Places
      <4>3. j \in 2 .. e
        BY <1>2, <1>3, <4>2 DEF Moved
      <4>4. Value(s, j) \in DOMAIN h
        BY <1>1, <2>2, <3>2, <4>2, <4>3 DEF Recorded
      <4>. QED BY <2>2, <4>2, <4>4
    <3>. QED BY <3>1, <3>2 DEF Recorded
  <2>. HIDE DEF J1
  <2>7. Refining(t, e + 1, J1, h)
    BY <1>5, <2>4, <2>5, <2>6 DEF Refining
  <2>. QED BY <2>3, <2>7 DEF J1
<1>6. (t = s /\ Value(s, k + 1) - Value(s, k) <= s.multipleof)
      \/ (Chain(t, e + 1) /\ Fresh(t, {}) /\ InsertedAfter(s, t, k))
  BY <1>1, InsertCandidate
<1>. QED BY <1>4, <1>5, <1>6

\* The results stay what they are when weights change.
LEMMA SameRefining ==
  ASSUME NEW s, NEW t, NEW e, NEW J, NEW h, SameResults(s, t), ListType(s), 
         e \in {Len(s.results), Len(s.results) - 1}, e >= 3,
         Guarded(s, e), Tight(s, e, J), Recorded(s, 2 .. e, h)
  PROVE  Guarded(t, e) /\ Tight(t, e, J) /\ Recorded(t, 2 .. e, h)
<1>. DEFINE N == Len(s.results)
<1>1. N \in Nat /\ e \in Nat
  <2>1. N \in Nat
    BY AtType
  <2>. QED BY <2>1
<1>2. /\ Len(t.results) = N /\ t.multipleof = s.multipleof
      /\ \A j \in 1 .. N : Value(t, j) = Value(s, j) /\ Cand(t, j) = Cand(s, j)
      /\ \A j \in 1 .. N : ~Cand(s, j) => At(t, j) = At(s, j)
  BY DEF SameResults
<1>3. /\ 1 \in 1 .. N /\ 2 \in 1 .. N /\ N \in 1 .. N /\ e \in 1 .. N
      /\ \A j \in 2 .. e : j \in 1 .. N
      /\ \A j \in 2 .. e - 1 : j \in 1 .. N /\ j + 1 \in 1 .. N
  BY <1>1
<1>4. Guarded(t, e)
  BY <1>2, <1>3 DEF Guarded
<1>5. Tight(t, e, J)
  BY <1>2, <1>3 DEF Tight
<1>6. Recorded(t, 2 .. e, h)
  BY <1>2, <1>3 DEF Recorded
<1>. QED BY <1>4, <1>5, <1>6

\* h after a result r for the value x.
Remembering(h, x, r) == [y \in {x} \cup DOMAIN h |-> IF y = x THEN r ELSE h[y]]

\* The result that a candidate has become is the one remembered for its value;
\* the gaps on both sides of it may be wide.
LEMMA BecameRefining ==
  ASSUME NEW s, NEW e, NEW h, Refining(s, e, {}, h), NEW p \in 1 .. Len(s.results), Cand(s, p),
         NEW t, NEW result, BecameResult(s, t, p, result),
         NEW h2, h2 = Remembering(h, Value(s, p), result)
  PROVE  Guarded(t, e) /\ Tight(t, e, {p - 1, p}) /\ Recorded(t, 2 .. e, h2)
<1>. DEFINE N == Len(s.results)
            x == Value(s, p)
<1>1. Chain(s, e) /\ Guarded(s, e) /\ Tight(s, e, {}) /\ Recorded(s, 2 .. e, h)
  BY DEF Refining
<1>2. ListType(s) /\ e \in {N, N - 1} /\ e >= 3 /\ Spaced(s)
  BY <1>1 DEF Chain
<1>3. N \in Nat /\ e \in Nat
  <2>1. N \in Nat
    BY <1>2, AtType
  <2>. QED BY <1>2, <2>1
<1>4. p \in 3 .. N - 2
  BY <1>2, NextToCandidate
<1>5. /\ t.multipleof = s.multipleof /\ Len(t.results) = N
      /\ \A j \in 1 .. N : j # p => At(t, j) = At(s, j)
      /\ ~Cand(t, p) /\ Value(t, p) = x /\ At(t, p).result = result
  BY DEF BecameResult
<1>6. /\ \A j \in 1 .. N : Value(t, j) = Value(s, j)
      /\ \A j \in 1 .. N : j # p => Cand(t, j) = Cand(s, j)
  BY <1>5 DEF Value, Cand
<1>7. /\ 1 \in 1 .. N /\ 2 \in 1 .. N /\ N \in 1 .. N /\ e \in 1 .. N /\ p \in 2 .. e
      /\ \A j \in 2 .. e : j \in 1 .. N
      /\ \A j \in 2 .. e - 1 : j \in 1 .. N /\ j + 1 \in 1 .. N
  BY <1>2, <1>3, <1>4
<1>8. DOMAIN h2 = DOMAIN h \cup {x} /\ h2[x] = result /\ \A y \in DOMAIN h : y # x => h2[y] = h[y]
  <2>1. h2 = Remembering(h, x, result)
    OBVIOUS
  <2>. HIDE DEF x
  <2>. QED BY <2>1 DEF Remembering
<1>9. Guarded(t, e)
  BY <1>1, <1>5, <1>6, <1>7 DEF Guarded
<1>10. Tight(t, e, {p - 1, p})
  <2>. SUFFICES ASSUME NEW j \in 2 .. e - 1, j # p - 1, j # p, ~Cand(t, j), ~Cand(t, j + 1)
                PROVE  Value(t, j + 1) - Value(t, j) <= s.multipleof
    BY <1>5 DEF Tight
  <2>1. j \in 1 .. N /\ j + 1 \in 1 .. N
    BY <1>7
  <2>2. j + 1 # p
    BY <1>3
  <2>3. ~Cand(s, j) /\ ~Cand(s, j + 1)
    BY <1>6, <2>1, <2>2
  <2>. QED BY <1>1, <1>6, <2>1, <2>3 DEF Tight
<1>. HIDE DEF x
<1>11. Recorded(t, 2 .. e, h2)
  <2>1. ASSUME NEW y \in DOMAIN h2
        PROVE  \E j \in 2 .. e : ~Cand(t, j) /\ Value(t, j) = y /\ At(t, j).result = h2[y]
    <3>1. CASE y = x
      BY <1>5, <1>7, <1>8, <3>1
    <3>2. CASE y # x
      <4>1. y \in DOMAIN h /\ h2[y] = h[y]
        BY <1>8, <3>2
      <4>2. PICK j \in 2 .. e : ~Cand(s, j) /\ Value(s, j) = y /\ At(s, j).result = h[y]
        BY <1>1, <4>1 DEF Recorded
      <4>3. j # p /\ j \in 1 .. N
        BY <1>7, <4>2
      <4>. QED BY <1>5, <1>6, <4>1, <4>2, <4>3
    <3>. QED BY <3>1, <3>2
  <2>2. ASSUME NEW j \in 2 .. e, ~Cand(t, j) PROVE Value(t, j) \in DOMAIN h2
    <3>1. CASE j = p
      BY <1>5, <1>8, <3>1
    <3>2. CASE j # p
      <4>1. ~Cand(s, j) /\ Value(t, j) = Value(s, j)
        BY <1>6, <1>7, <2>2, <3>2
      <4>2. Value(s, j) \in DOMAIN h
        BY <1>1, <4>1 DEF Recorded
      <4>. QED BY <1>8, <4>1, <4>2
    <3>. QED BY <3>1, <3>2
  <2>. QED BY <2>1, <2>2 DEF Recorded
<1>. QED BY <1>9, <1>10, <1>11

\* register_refined keeps all of it.
LEMMA Registered ==
  ASSUME NEW s, NEW h, Refining(s, Len(s.results) - 1, {}, h), s.candidates # << >>,
         NEW result \in Results, NEW t, t = register_refined(s, result),
         NEW h2, h2 = Remembering(h, s.node[Head(s.candidates)].i, result)
  PROVE  Refining(t, Len(t.results) - 1, {}, h2) /\ t.multipleof = s.multipleof
<1>. DEFINE N == Len(s.results)
            e == N - 1
            el == Head(s.candidates)
            made == [remove_candidate_from_prior_queue(s, el)
                       EXCEPT !.node[el].is_candidate = FALSE, !.node[el].result = result]
            left == update_weight(made, Pos(made, el) - 2)
            right == update_weight(left, Pos(left, el) + 2)
            before == insert_candidate(right, Pos(right, el) - 1)
<1>1. t = insert_candidate(before, Pos(before, el))
  BY DEF register_refined, insert_candidates_beside
<1>2. Chain(s, e) /\ Fresh(s, {})
  BY DEF Refining
<1>3. ListType(s) /\ Spaced(s)
  BY <1>2 DEF Chain
<1>4. N \in Nat
  BY <1>3, AtType
<1>. HIDE DEF made
<1>5. PICK p \in 1 .. N : 
           /\ s.results[p] = el /\ Cand(s, p)
           /\ Chain(made, e) /\ Fresh(made, {p - 2, p + 2}) /\ BecameResult(s, made, p, result)
  <2>. HIDE DEF e
  <2>. QED BY <1>2, Made, ZenonT(40) DEF made
<1>6. p \in 3 .. N - 2 /\ s.node[el].i = Value(s, p)
  BY <1>3, <1>5, NextToCandidate DEF Value, At
<1>7. made.results = s.results /\ made.multipleof = s.multipleof /\ ~Cand(made, p)
  BY <1>5 DEF BecameResult
<1>8. Guarded(made, e) /\ Tight(made, e, {p - 1, p}) /\ Recorded(made, 2 .. e, h2)
  <2>. HIDE DEF e
  <2>1. Refining(s, e, {}, h)
    BY DEF e
  <2>. QED BY <1>5, <1>6, <2>1, BecameRefining
<1>9. Pos(made, el) = p
  <2>1. ListType(made)
    BY <1>5 DEF Chain
  <2>. QED BY <1>5, <1>7, <2>1, PosIs
<1>10. Chain(left, e) /\ Fresh(left, {p + 2}) /\ SameResults(made, left)
  <2>. HIDE DEF e
  <2>. DEFINE X == {p - 2, p + 2}
  <2>1. X \ {p - 2} = {p + 2}
    OBVIOUS
  <2>2. Chain(left, e) /\ Fresh(left, X \ {p - 2}) /\ SameResults(made, left)
    <3>1. Fresh(made, X) /\ Chain(made, e)
      BY <1>5
    <3>2. left = update_weight(made, p - 2)
      BY <1>9
    <3>. HIDE DEF X, left
    <3>. QED BY <3>1, <3>2, UpdateWeight
  <2>. QED BY <2>1, <2>2
<1>. HIDE DEF left
<1>11. left.results = s.results /\ left.multipleof = s.multipleof
  BY <1>7, <1>10 DEF SameResults
<1>12. Pos(left, el) = p
  <2>1. ListType(left)
    BY <1>10 DEF Chain
  <2>. QED BY <1>5, <1>11, <2>1, PosIs
<1>13. Chain(right, e) /\ Fresh(right, {}) /\ SameResults(left, right)
  <2>. HIDE DEF e
  <2>. DEFINE X == {p + 2}
  <2>1. X \ {p + 2} = {}
    OBVIOUS
  <2>2. Chain(right, e) /\ Fresh(right, X \ {p + 2}) /\ SameResults(left, right)
    <3>1. Fresh(left, X) /\ Chain(left, e)
      BY <1>10
    <3>2. right = update_weight(left, p + 2)
      BY <1>12
    <3>. HIDE DEF X, right
    <3>. QED BY <3>1, <3>2, UpdateWeight
  <2>. QED BY <2>1, <2>2
<1>. HIDE DEF right
<1>14. right.results = s.results /\ right.multipleof = s.multipleof
  BY <1>11, <1>13 DEF SameResults
<1>15. Pos(right, el) = p /\ ListType(right)
  <2>1. ListType(right)
    BY <1>13 DEF Chain
  <2>. QED BY <1>5, <1>14, <2>1, PosIs
<1>16. \A j \in 1 .. N : Cand(right, j) = Cand(made, j)
  BY <1>7, <1>10, <1>11, <1>13 DEF SameResults
<1>17. ~Cand(right, p - 1) /\ ~Cand(right, p) /\ ~Cand(right, p + 1)
  <2>1. ~Cand(s, p - 1) /\ ~Cand(s, p + 1)
    BY <1>3, <1>5, NextToCandidate
  <2>2. p - 1 \in 1 .. N /\ p + 1 \in 1 .. N /\ p - 1 # p /\ p + 1 # p
    BY <1>4, <1>6
  <2>3. \A j \in 1 .. N : j # p => Cand(made, j) = Cand(s, j)
    BY <1>5 DEF BecameResult, Cand
  <2>. QED BY <1>7, <1>16, <2>1, <2>2, <2>3
<1>18. Refining(right, e, {p - 1, p}, h2)
  <2>. DEFINE J == {p - 1, p}
  <2>1. e \in {N, N - 1} /\ e >= 3 /\ ListType(made) /\ ListType(left)
    BY <1>5, <1>10 DEF Chain
  <2>2. e \in {Len(made.results), Len(made.results) - 1} /\ e \in {Len(left.results), Len(left.results) - 1}
    BY <1>7, <1>11, <2>1
  <2>. HIDE DEF J, e
  <2>2a. Guarded(made, e) /\ Tight(made, e, J) /\ Recorded(made, 2 .. e, h2)
    BY <1>8 DEF J
  <2>3. Guarded(left, e) /\ Tight(left, e, J) /\ Recorded(left, 2 .. e, h2)
    BY <1>10, <2>1, <2>2, <2>2a, SameRefining
  <2>4. Guarded(right, e) /\ Tight(right, e, J) /\ Recorded(right, 2 .. e, h2)
    BY <1>13, <2>1, <2>2, <2>3, SameRefining
  <2>. QED BY <1>13, <2>4 DEF Refining, J
<1>19. before = insert_candidate(right, p - 1)
  BY <1>15
<1>. HIDE DEF before
<1>20. PICK r1 \in {0, 1} : Refining(before, e + r1, {p + r1}, h2) /\ Shifted(right, before, p - 1, r1)
  <2>. DEFINE J == {p - 1, p}
              k == p - 1
  <2>1. k \in 2 .. Len(right.results) - 2 /\ (k + 1) = p /\ \A j \in J : j \in Nat /\ j >= k
    BY <1>4, <1>6, <1>14
  <2>2. \A r : Others(J, k, r) = {p + r}
    BY DEF Others
  <2>4. Refining(right, e, J, h2) /\ ~Cand(right, k) /\ ~Cand(right, k + 1)
    BY <1>17, <1>18, <2>1
  <2>. HIDE DEF J, k, e
  <2>5. \E r \in {0, 1} : Refining(before, e + r, Others(J, k, r), h2) /\ Shifted(right, before, k, r)
    BY <1>19, <2>1, <2>4, InsertBetween DEF k
  <2>. QED BY <2>2, <2>5 DEF k
<1>21. PICK q : q = p + r1
  OBVIOUS
<1>22. /\ Len(before.results) = N + r1 /\ before.multipleof = s.multipleof
       /\ before.results[q] = el /\ ~Cand(before, q) /\ ~Cand(before, q + 1)
  <2>1. /\ before.multipleof = right.multipleof /\ Len(before.results) = N + r1
        /\ \A j \in (p - 1) + 1 .. N : before.results[j + r1] = right.results[j]
                                      /\ At(before, j + r1) = At(right, j)
    BY <1>14, <1>20 DEF Shifted
  <2>2. p \in (p - 1) + 1 .. N /\ p + 1 \in (p - 1) + 1 .. N /\ (p + 1) + r1 = q + 1
    BY <1>4, <1>6, <1>21
  <2>3. At(before, q) = At(right, p) /\ At(before, q + 1) = At(right, p + 1)
    BY <1>21, <2>1, <2>2
  <2>. QED BY <1>5, <1>14, <1>17, <1>21, <2>1, <2>2, <2>3 DEF Cand
<1>23. q \in 2 .. Len(before.results) - 2
  BY <1>4, <1>6, <1>21, <1>22
<1>24. Pos(before, el) = q
  <2>1. ListType(before)
    BY <1>20 DEF Refining, Chain
  <2>2. q \in 1 .. Len(before.results)
    BY <1>4, <1>22, <1>23
  <2>. QED BY <1>22, <2>1, <2>2, PosIs
<1>25. PICK r2 \in {0, 1} : Refining(t, (e + r1) + r2, {}, h2) /\ Shifted(before, t, q, r2)
  <2>. DEFINE J == {q}
              e1 == e + r1
  <2>1. \A j \in J : j \in Nat /\ j >= q
    BY <1>4, <1>22, <1>23
  <2>2. \A r : Others(J, q, r) = {}
    BY DEF Others
  <2>3. Refining(before, e1, J, h2)
    BY <1>20, <1>21
  <2>4. t = insert_candidate(before, q)
    BY <1>1, <1>24
  <2>. HIDE DEF J, e1
  <2>5. \E r \in {0, 1} : Refining(t, e1 + r, Others(J, q, r), h2) /\ Shifted(before, t, q, r)
    BY <1>22, <1>23, <2>1, <2>3, <2>4, InsertBetween
  <2>. QED BY <2>2, <2>5 DEF e1
<1>26. Len(t.results) = (N + r1) + r2 /\ t.multipleof = s.multipleof
  BY <1>22, <1>25 DEF Shifted
<1>27. (e + r1) + r2 = Len(t.results) - 1
  BY <1>4, <1>26
<1>. QED BY <1>25, <1>26, <1>27

-----------------------------------------------------------------------------
(* The list of the plain loop, the guards, and the first candidates. *)

Plain(s) ==
  /\ ListType(s) /\ Multiples(s) /\ s.candidates = << >>
  /\ ToSet(s.results) = 1 .. Len(s.node)
  /\ \A k \in 1 .. Len(s.results) : ~Cand(s, k)
  /\ \A j, k \in 1 .. Len(s.results) : j < k => Value(s, j) < Value(s, k)

From(a) == {j \in Nat : j >= a}

LEMMA PutAtEnds ==
  ASSUME NEW S, NEW s \in Seq(S), NEW x \in S
  PROVE  <<x>> \o s = InsertAt(s, 1, x) /\ Append(s, x) = InsertAt(s, Len(s) + 1, x)
<1>1. Len(s) \in Nat /\ <<x>> \in Seq(S)
  BY LenProperties
<1>2. InsertAt(s, 1, x) = <<x>> \o s
  <2>1. SubSeq(s, 1, 1 - 1) = << >>
    BY SubSeqEmpty
  <2>2. SubSeq(s, 1, Len(s)) = s
    BY SubSeqFull
  <2>3. << >> \o <<x>> = <<x>>
    BY <1>1, ConcatEmptySeq
  <2>. QED BY <2>1, <2>2, <2>3 DEF InsertAt
<1>3. InsertAt(s, Len(s) + 1, x) = Append(s, x)
  <2>1. SubSeq(s, 1, (Len(s) + 1) - 1) = s
    <3>1. (Len(s) + 1) - 1 = Len(s)
      BY <1>1
    <3>. QED BY <3>1, SubSeqFull
  <2>2. SubSeq(s, Len(s) + 1, Len(s)) = << >>
    BY <1>1, SubSeqEmpty
  <2>3. s \o <<x>> \in Seq(S) /\ Append(s, x) = s \o <<x>>
    BY <1>1, ConcatProperties, AppendIsConcat
  <2>4. (s \o <<x>>) \o << >> = s \o <<x>>
    BY <2>3, ConcatEmptySeq
  <2>. QED BY <2>1, <2>2, <2>3, <2>4 DEF InsertAt
<1>. QED BY <1>2, <1>3

Guard(n) == NewNode(n.i, FALSE, n.result)

LEMMA GuardType ==
  ASSUME NEW n \in Nodes
  PROVE  Guard(n) \in Nodes /\ Guard(n).i = n.i /\ ~Guard(n).is_candidate
BY DEF Guard, NewNode, Nodes

\* With a guard in front of it, the list of the plain loop has no candidates yet,
\* and any gap may be wide.
LEMMA FrontGuard ==
  ASSUME NEW s, NEW h, Plain(s), Len(s.results) >= 2, Recorded(s, 1 .. Len(s.results), h),
         NEW t, t = WithNode(s, 0, Guard(At(s, 1)))
  PROVE  /\ Len(t.results) = Len(s.results) + 1 /\ t.multipleof = s.multipleof
         /\ \A j \in 1 .. Len(s.results) : At(t, j + 1) = At(s, j)
         /\ Refining(t, Len(t.results), From(2), h)
<1>. DEFINE n == Len(s.results)
            N == n + 1
            g == Guard(At(s, 1))
<1>1. ListType(s) /\ n \in Nat /\ 1 \in 1 .. n /\ At(s, 1) \in Nodes
  <2>1. ListType(s)
    BY DEF Plain
  <2>2. n \in Nat
    BY <2>1, AtType
  <2>3. 1 \in 1 .. n
    BY <2>2
  <2>. QED BY <2>1, <2>2, <2>3, AtType
<1>2. g \in Nodes /\ g.i = Value(s, 1) /\ ~g.is_candidate
  BY <1>1, GuardType DEF Value
<1>3. HasNode(t, s, 0, g)
  <2>1. 0 \in 0 .. n
    BY <1>1
  <2>. HIDE DEF g
  <2>. QED BY <1>1, <1>2, <2>1, NodePutIn DEF g
<1>. HIDE DEF g
<1>4. /\ ListType(t) /\ t.multipleof = s.multipleof /\ t.candidates = s.candidates
      /\ Len(t.results) = N /\ At(t, 0 + 1) = g
      /\ \A j \in 1 .. n : At(t, Moved(0, j)) = At(s, j)
  BY <1>3 DEF HasNode
<1>5. \A j \in 1 .. n : At(t, j + 1) = At(s, j)
  <2>1. \A j \in 1 .. n : Moved(0, j) = j + 1
    BY DEF Moved
  <2>. QED BY <1>4, <2>1
<1>6. At(t, 1) = g
  <2>1. 0 + 1 = 1
    OBVIOUS
  <2>. QED BY <1>4, <2>1
<1>7. ASSUME NEW k \in 2 .. N
      PROVE  /\ k - 1 \in 1 .. n /\ At(t, k) = At(s, k - 1)
             /\ Value(t, k) = Value(s, k - 1) /\ Cand(t, k) = Cand(s, k - 1)
  <2>1. k - 1 \in 1 .. n /\ (k - 1) + 1 = k
    BY <1>1
  <2>. QED BY <1>5, <2>1 DEF Value, Cand
<1>8. \A k \in 1 .. N : ~Cand(t, k)
  <2>1. ~Cand(t, 1)
    BY <1>2, <1>6 DEF Cand
  <2>2. \A k \in 1 .. n : ~Cand(s, k)
    BY DEF Plain
  <2>3. \A k \in 1 .. N : k = 1 \/ k \in 2 .. N
    BY <1>1
  <2>. QED BY <1>7, <2>1, <2>2, <2>3
<1>9. Value(t, 1) = Value(s, 1) /\ Value(t, 2) = Value(s, 1)
  <2>1. 2 \in 2 .. N /\ 2 - 1 = 1
    BY <1>1
  <2>. QED BY <1>2, <1>6, <1>7, <2>1 DEF Value
<1>10. \A k \in 1 .. N : Value(t, k) \in Int
  BY <1>4, AtType
<1>11. Sorted(t, N)
  <2>1. \A j, k \in 1 .. n : j < k => Value(s, j) < Value(s, k)
    BY DEF Plain
  <2>2. ASSUME NEW j \in 2 .. N, NEW k \in 2 .. N, j < k PROVE Value(t, j) < Value(t, k)
    <3>1. j - 1 < k - 1
      BY <2>2
    <3>. QED BY <1>7, <2>1, <3>1
  <2>3. ASSUME NEW j \in 2 .. N PROVE Value(t, 2) <= Value(t, j)
    <3>1. 2 \in 2 .. N /\ j \in 1 .. N /\ 2 \in 1 .. N
      BY <1>1
    <3>2. Value(t, 2) \in Int /\ Value(t, j) \in Int
      BY <1>10, <3>1
    <3>3. CASE j = 2
      BY <3>2, <3>3
    <3>4. CASE j # 2
      <4>1. Value(t, 2) < Value(t, j)
        BY <2>2, <3>1, <3>4
      <4>. QED BY <3>2, <4>1
    <3>. QED BY <3>3, <3>4
  <2>4. ASSUME NEW j \in 1 .. N, NEW k \in 1 .. N, j <= k PROVE Value(t, j) <= Value(t, k)
    <3>1. CASE j = k
      BY <1>10, <3>1
    <3>2. CASE j = 1 /\ k # 1
      <4>1. k \in 2 .. N
        BY <3>2
      <4>. QED BY <1>9, <2>3, <3>2, <4>1
    <3>3. CASE j # 1 /\ j # k
      <4>1. j \in 2 .. N /\ k \in 2 .. N /\ j < k
        BY <1>1, <2>4, <3>3
      <4>2. Value(t, j) < Value(t, k)
        BY <2>2, <4>1
      <4>. QED BY <1>10, <4>2
    <3>. QED BY <3>1, <3>2, <3>3
  <2>. QED BY <1>4, <2>2, <2>4 DEF Sorted
<1>12. Queued(t)
  <2>1. CandidateIds(t) = {}
    <3>1. DOMAIN t.results = 1 .. N
      BY <1>4, LenProperties DEF ListType
    <3>2. \A k \in 1 .. N : ~t.node[t.results[k]].is_candidate
      BY <1>8 DEF Cand, At
    <3>. QED BY <3>1, <3>2 DEF CandidateIds, ToSet
  <2>2. t.candidates = << >>
    BY <1>4 DEF Plain
  <2>3. DOMAIN << >> = {}
    OBVIOUS
  <2>. QED BY <2>1, <2>2, <2>3 DEF Queued, IsInjective, ToSet
<1>13. Multiples(t)
  <2>1. \A k \in 1 .. n : Multiple(Value(s, k), s.multipleof)
    BY DEF Plain, Multiples
  <2>2. \A k \in 1 .. N : k = 1 \/ k \in 2 .. N
    BY <1>1
  <2>3. \A k \in 1 .. N : Multiple(Value(t, k), s.multipleof)
    BY <1>1, <1>7, <1>9, <2>1, <2>2
  <2>. QED BY <1>4, <2>3 DEF Multiples
<1>14. Chain(t, N)
  <2>1. Spaced(t) /\ Halved(t)
    BY <1>4, <1>8 DEF Spaced, Halved
  <2>2. N >= 3 /\ N \in {N, N - 1}
    BY <1>1
  <2>. QED BY <1>4, <1>11, <1>12, <1>13, <2>1, <2>2 DEF Chain
<1>15. Fresh(t, {})
  BY <1>4, <1>8 DEF Fresh
<1>16. Guarded(t, N)
  BY <1>4, <1>9 DEF Guarded
<1>17. Tight(t, N, From(2))
  <2>1. (2 .. N - 1) \ From(2) = {}
    BY <1>1 DEF From
  <2>. QED BY <2>1 DEF Tight
<1>18. Recorded(t, 2 .. N, h)
  <2>1. ASSUME NEW x \in DOMAIN h
        PROVE  \E j \in 2 .. N : ~Cand(t, j) /\ Value(t, j) = x /\ At(t, j).result = h[x]
    <3>1. PICK j \in 1 .. n : ~Cand(s, j) /\ Value(s, j) = x /\ At(s, j).result = h[x]
      BY DEF Recorded
    <3>2. j + 1 \in 2 .. N
      BY <1>1
    <3>3. At(t, j + 1) = At(s, j)
      BY <1>5
    <3>. QED BY <3>1, <3>2, <3>3 DEF Cand, Value
  <2>2. ASSUME NEW k \in 2 .. N, ~Cand(t, k) PROVE Value(t, k) \in DOMAIN h
    <3>1. \A j \in 1 .. n : ~Cand(s, j) => Value(s, j) \in DOMAIN h
      BY DEF Recorded
    <3>. QED BY <1>7, <2>2, <3>1
  <2>. QED BY <2>1, <2>2 DEF Recorded
<1>. QED BY <1>4, <1>5, <1>14, <1>15, <1>16, <1>17, <1>18 DEF Refining

\* t is s with a guard after position e, and nothing else has changed.
HasBackGuard(s, t, e, J, h) ==
  /\ Len(t.results) = e + 1 /\ t.multipleof = s.multipleof
  /\ \A j \in 1 .. e : At(t, j) = At(s, j)
  /\ Refining(t, e, J, h)

\* With a guard at the end the list is as it was.
LEMMA BackGuard ==
  ASSUME NEW s, NEW h, NEW J, NEW e, e = Len(s.results), Refining(s, e, J, h), ~Cand(s, e),
         NEW t, t = WithNode(s, e, Guard(At(s, e)))
  PROVE  HasBackGuard(s, t, e, J, h)
<1>. DEFINE g == Guard(At(s, e))
<1>1. Chain(s, e) /\ Fresh(s, {}) /\ Guarded(s, e) /\ Tight(s, e, J) /\ Recorded(s, 2 .. e, h)
  BY DEF Refining
<1>2. /\ ListType(s) /\ e >= 3 /\ Sorted(s, e) /\ Spaced(s) /\ Halved(s) /\ Queued(s) /\ Multiples(s)
  BY <1>1 DEF Chain
<1>3. e \in Nat /\ e \in 1 .. e /\ At(s, e) \in Nodes
  <2>1. e \in Nat
    BY <1>2, AtType
  <2>2. e \in 1 .. e
    BY <1>2, <2>1
  <2>. QED BY <1>2, <2>1, <2>2, AtType
<1>4. g \in Nodes /\ g.i = Value(s, e) /\ ~g.is_candidate
  BY <1>3, GuardType DEF Value
<1>5. HasNode(t, s, e, g)
  <2>1. e \in 0 .. Len(s.results)
    BY <1>3
  <2>. HIDE DEF g
  <2>. QED BY <1>2, <1>4, <2>1, NodePutIn DEF g
<1>. HIDE DEF g
<1>6. /\ ListType(t) /\ t.multipleof = s.multipleof /\ t.candidates = s.candidates
      /\ Len(t.results) = e + 1 /\ At(t, e + 1) = g
      /\ t.results[e + 1] = Len(s.node) + 1
      /\ ToSet(t.results) = ToSet(s.results) \cup {Len(s.node) + 1}
      /\ \A id \in 1 .. Len(s.node) : t.node[id] = s.node[id]
      /\ \A j \in 1 .. e : At(t, Moved(e, j)) = At(s, j)
  BY <1>5 DEF HasNode
<1>7. \A j \in 1 .. e : At(t, j) = At(s, j) /\ Value(t, j) = Value(s, j) /\ Cand(t, j) = Cand(s, j)
  <2>1. \A j \in 1 .. e : Moved(e, j) = j
    BY DEF Moved
  <2>2. \A j \in 1 .. e : At(t, j) = At(s, j)
    BY <1>6, <2>1
  <2>. QED BY <2>2 DEF Value, Cand
<1>8. ~Cand(t, e + 1) /\ Value(t, e + 1) = Value(s, e)
  BY <1>4, <1>6 DEF Cand, Value
<1>9. \A k \in 1 .. e + 1 : k = e + 1 \/ k \in 1 .. e
  BY <1>3
<1>10. \A k \in 1 .. e : Value(s, k) \in Int
  BY <1>2, AtType
<1>11. Sorted(t, e)
  <2>1. \A j, k \in 1 .. e : j <= k => Value(s, j) <= Value(s, k)
    BY <1>2 DEF Sorted
  <2>2. \A j, k \in 2 .. e : j < k => Value(t, j) < Value(t, k)
    <3>1. \A j \in 2 .. e : j \in 1 .. e
      BY <1>3
    <3>. QED BY <1>2, <1>7, <3>1 DEF Sorted
  <2>3. ASSUME NEW j \in 1 .. e + 1, NEW k \in 1 .. e + 1, j <= k PROVE Value(t, j) <= Value(t, k)
    <3>1. CASE j = e + 1
      <4>1. k = e + 1
        BY <1>3, <2>3, <3>1
      <4>. QED BY <1>3, <1>8, <1>10, <3>1, <4>1
    <3>2. CASE j \in 1 .. e /\ k = e + 1
      <4>1. Value(s, j) <= Value(s, e)
        BY <1>3, <2>1, <3>2
      <4>. QED BY <1>7, <1>8, <3>2, <4>1
    <3>3. CASE j \in 1 .. e /\ k \in 1 .. e
      BY <1>7, <2>1, <2>3, <3>3
    <3>. QED BY <1>9, <3>1, <3>2, <3>3
  <2>. QED BY <1>6, <2>2, <2>3 DEF Sorted
<1>12. ASSUME NEW k \in 1 .. e + 1, Cand(t, k)
       PROVE  /\ k \in 1 .. e /\ Cand(s, k)
              /\ k \in 3 .. e - 2 /\ k - 1 \in 2 .. e /\ k + 1 \in 1 .. e - 1
              /\ ~Cand(s, k - 1) /\ ~Cand(s, k + 1) /\ ~Cand(t, k - 1) /\ ~Cand(t, k + 1)
              /\ At(t, k - 1) = At(s, k - 1) /\ At(t, k + 1) = At(s, k + 1)
  <2>1. k \in 1 .. e /\ Cand(s, k)
    BY <1>7, <1>8, <1>9, <1>12
  <2>2. /\ k \in 3 .. e - 2 /\ k - 1 \in 2 .. e /\ k + 1 \in 1 .. e - 1
        /\ ~Cand(s, k - 1) /\ ~Cand(s, k + 1)
    BY <1>2, <2>1, NextToCandidate
  <2>3. k - 1 \in 1 .. e /\ k + 1 \in 1 .. e
    BY <1>3, <2>2
  <2>. QED BY <1>7, <2>1, <2>2, <2>3
<1>13. Spaced(t)
  <2>1. \A k \in 3 .. e - 2 : k \in 3 .. (e + 1) - 2
    BY <1>3
  <2>. QED BY <1>6, <1>12, <2>1 DEF Spaced
<1>14. Halved(t)
  <2>. SUFFICES ASSUME NEW k \in 1 .. e + 1, Cand(t, k)
                PROVE  Value(t, k) = Middle(t, At(t, k - 1), At(t, k + 1))
    BY <1>6 DEF Halved
  <2>1. Value(s, k) = Middle(s, At(s, k - 1), At(s, k + 1))
    BY <1>2, <1>12 DEF Halved
  <2>. QED BY <1>6, <1>7, <1>12, <2>1 DEF Middle
<1>15. Multiples(t)
  <2>1. \A k \in 1 .. e : Multiple(Value(s, k), s.multipleof)
    BY <1>2 DEF Multiples
  <2>2. \A k \in 1 .. e + 1 : Multiple(Value(t, k), s.multipleof)
    BY <1>3, <1>7, <1>8, <1>9, <2>1
  <2>. QED BY <1>6, <2>2 DEF Multiples
<1>16. Queued(t)
  <2>1. \A c \in ToSet(s.results) : t.node[c] = s.node[c]
    <3>1. DOMAIN s.results = 1 .. e
      BY <1>2, LenProperties DEF ListType
    <3>2. \A c \in ToSet(s.results) : c \in 1 .. Len(s.node)
      BY <1>2, <3>1 DEF ListType, ToSet
    <3>. QED BY <1>6, <3>2
  <2>2. ~t.node[Len(s.node) + 1].is_candidate
    BY <1>6, <1>8 DEF Cand, At
  <2>3. CandidateIds(t) = CandidateIds(s)
    BY <1>6, <2>1, <2>2 DEF CandidateIds
  <2>. QED BY <1>2, <1>6, <2>3 DEF Queued
<1>17. Chain(t, e)
  <2>1. e + 1 >= 3 /\ e \in {e + 1, (e + 1) - 1}
    BY <1>2, <1>3
  <2>. QED BY <1>2, <1>6, <1>11, <1>13, <1>14, <1>15, <1>16, <2>1 DEF Chain
<1>18. Fresh(t, {})
  <2>. SUFFICES ASSUME NEW k \in 1 .. e + 1, Cand(t, k) PROVE At(t, k).weight = Key(t, k)
    BY <1>6 DEF Fresh
  <2>1. Key(s, k) = calculate_key(Before(s, k - 1), At(s, k - 1), At(s, k + 1), After(s, k + 1))
    BY <1>2, <1>12, KeyNear
  <2>2. Key(t, k) = calculate_key(Before(t, k - 1), At(t, k - 1), At(t, k + 1), After(t, k + 1))
    <3>1. k \in 3 .. Len(t.results) - 2
      <4>1. k \in 3 .. e - 2
        BY <1>12
      <4>. QED BY <1>3, <1>6, <4>1
    <3>. QED BY <1>6, <1>12, <1>13, <3>1, KeyNear
  <2>3. Before(t, k - 1) = Before(s, k - 1)
    <3>1. PICK j \in 1 .. (k - 1) - 1 :
             ~Cand(s, j) /\ Before(s, k - 1) = At(s, j)
             /\ j = IF Cand(s, (k - 1) - 1) THEN (k - 1) - 2 ELSE (k - 1) - 1
      BY <1>2, <1>12, NextResults
    <3>2. k \in 3 .. e - 2
      BY <1>12
    <3>3. j \in 1 .. e /\ (k - 1) - 1 \in 1 .. e
      BY <1>3, <3>2
    <3>4. Cand(t, (k - 1) - 1) = Cand(s, (k - 1) - 1) /\ At(t, j) = At(s, j)
      BY <1>7, <3>3
    <3>. QED BY <3>1, <3>4 DEF Before
  <2>4. After(t, k + 1) = After(s, k + 1)
    <3>1. PICK j \in (k + 1) + 1 .. e :
             ~Cand(s, j) /\ After(s, k + 1) = At(s, j)
             /\ j = IF Cand(s, (k + 1) + 1) THEN (k + 1) + 2 ELSE (k + 1) + 1
      BY <1>2, <1>12, NextResults
    <3>2. k \in 3 .. e - 2
      BY <1>12
    <3>3. j \in 1 .. e /\ (k + 1) + 1 \in 1 .. e
      BY <1>3, <3>2
    <3>4. Cand(t, (k + 1) + 1) = Cand(s, (k + 1) + 1) /\ At(t, j) = At(s, j)
      BY <1>7, <3>3
    <3>. QED BY <3>1, <3>4 DEF After
  <2>5. At(s, k).weight = Key(s, k) /\ At(t, k) = At(s, k)
    BY <1>1, <1>7, <1>12 DEF Fresh
  <2>. QED BY <1>12, <2>1, <2>2, <2>3, <2>4, <2>5
<1>19. /\ 1 \in 1 .. e /\ 2 \in 1 .. e /\ \A j \in 2 .. e : j \in 1 .. e
       /\ \A j \in 2 .. e - 1 : j \in 1 .. e /\ j + 1 \in 1 .. e
  BY <1>2, <1>3
<1>20. Guarded(t, e)
  BY <1>1, <1>3, <1>6, <1>7, <1>8, <1>19 DEF Guarded
<1>21. Tight(t, e, J)
  BY <1>1, <1>6, <1>7, <1>19 DEF Tight
<1>22. Recorded(t, 2 .. e, h)
  BY <1>1, <1>7, <1>19 DEF Recorded
<1>. QED BY <1>6, <1>7, <1>17, <1>18, <1>20, <1>21, <1>22 DEF Refining, HasBackGuard

\* The loop of init_candidates: after k gaps, r candidates have been inserted.
InGaps(s, t, k, r, h) ==
  /\ Len(t.results) = Len(s.results) + r /\ t.multipleof = s.multipleof
  /\ Refining(t, Len(t.results), From(k + 2 + r), h)
  /\ \A j \in k + 2 .. Len(s.results) : At(t, j + r) = At(s, j)

LEMMA NextGap ==
  ASSUME NEW s, NEW h, Len(s.results) \in Nat, \A j \in 1 .. Len(s.results) : ~Cand(s, j),
         NEW k \in 1 .. Len(s.results) - 3, NEW r \in Nat,
         NEW u, InGaps(s, u, k - 1, r, h),
         NEW t, t = insert_candidate(u, k + 1 + Len(u.results) - Len(s.results))
  PROVE  \E r2 \in Nat : InGaps(s, t, k, r2, h)
<1>. DEFINE N == Len(s.results)
            q == (k + 1) + r
            J == From(q)
            e == Len(u.results)
<1>1. (k - 1) + 2 + r = q /\ (k - 1) + 2 = k + 1
  OBVIOUS
<1>2. /\ e = N + r /\ u.multipleof = s.multipleof /\ Refining(u, e, J, h)
      /\ \A j \in k + 1 .. N : At(u, j + r) = At(s, j)
  BY <1>1 DEF InGaps
<1>3. k + 1 + e - N = q
  BY <1>2
<1>4. q \in 2 .. e - 2 /\ e \in Nat
  BY <1>2
<1>5. ~Cand(u, q) /\ ~Cand(u, q + 1)
  <2>1. k + 1 \in k + 1 .. N /\ k + 2 \in k + 1 .. N /\ k + 1 \in 1 .. N /\ k + 2 \in 1 .. N
        /\ (k + 1) + r = q /\ (k + 2) + r = q + 1
    OBVIOUS
  <2>2. At(u, q) = At(s, k + 1) /\ At(u, q + 1) = At(s, k + 2)
    BY <1>2, <2>1
  <2>. QED BY <2>1, <2>2 DEF Cand
<1>6. \A j \in J : j \in Nat /\ j >= q
  BY DEF From
<1>7. PICK r1 \in {0, 1} : Refining(t, e + r1, Others(J, q, r1), h) /\ Shifted(u, t, q, r1)
  <2>1. t = insert_candidate(u, q)
    BY <1>3
  <2>. HIDE DEF q, J
  <2>. QED BY <1>2, <1>4, <1>5, <1>6, <2>1, InsertBetween
<1>8. PICK r2 : r2 = r + r1
  OBVIOUS
<1>9. r2 \in Nat
  BY <1>8
<1>10. /\ t.multipleof = s.multipleof /\ Len(t.results) = N + r2 /\ e + r1 = Len(t.results)
       /\ \A j \in q + 1 .. e : At(t, j + r1) = At(u, j)
  <2>1. /\ t.multipleof = u.multipleof /\ Len(t.results) = e + r1
        /\ \A j \in q + 1 .. e : At(t, j + r1) = At(u, j)
    BY <1>7 DEF Shifted
  <2>2. e + r1 = N + r2
    <3>1. e = N + r /\ N \in Nat
      BY <1>2
    <3>. HIDE DEF e, N
    <3>. QED BY <1>8, <3>1
  <2>. QED BY <1>2, <2>1, <2>2
<1>11. Others(J, q, r1) = From(k + 2 + r2)
  <2>1. ASSUME NEW j \in J, j # q PROVE j + r1 \in From(k + 2 + r2)
    BY <1>8, <2>1 DEF From
  <2>2. ASSUME NEW i \in From(k + 2 + r2) PROVE i \in Others(J, q, r1)
    <3>1. i \in Nat /\ i >= k + 2 + r2
      BY DEF From
    <3>2. i - r1 \in Nat /\ i - r1 >= q /\ i - r1 # q /\ i = (i - r1) + r1
      BY <1>8, <3>1
    <3>3. i - r1 \in J
      BY <3>2 DEF From
    <3>. QED BY <3>2, <3>3 DEF Others
  <2>3. Others(J, q, r1) \subseteq From(k + 2 + r2)
    BY <2>1 DEF Others
  <2>. QED BY <2>2, <2>3
<1>12. ASSUME NEW j \in k + 2 .. N PROVE At(t, j + r2) = At(s, j)
  <2>1. PICK i : i = j + r
    OBVIOUS
  <2>2. i \in q + 1 .. e /\ i + r1 = j + r2 /\ j \in k + 1 .. N
    BY <1>2, <1>8, <2>1
  <2>3. At(t, i + r1) = At(u, i) /\ At(u, i) = At(s, j)
    BY <1>2, <1>10, <2>1, <2>2
  <2>. QED BY <2>2, <2>3
<1>13. InGaps(s, t, k, r2, h)
  <2>1. Refining(t, Len(t.results), From(k + 2 + r2), h)
    BY <1>7, <1>10, <1>11
  <2>. QED BY <1>10, <1>12, <2>1 DEF InGaps
<1>. QED BY <1>9, <1>13

LEMMA AllGaps ==
  ASSUME NEW s, NEW h, Len(s.results) \in Nat, Len(s.results) >= 3,
         Refining(s, Len(s.results), From(2), h), \A j \in 1 .. Len(s.results) : ~Cand(s, j)
  PROVE  \E r \in Nat : InGaps(s, InsertCandidates(s), Len(s.results) - 3, r, h)
<1>. DEFINE N == Len(s.results)
<1>1. PICK f : /\ InsertCandidates(s) = f[N - 3]
               /\ DOMAIN f = 0 .. N - 3
               /\ f[0] = s
               /\ \A k \in 1 .. N - 3 :
                    f[k] = insert_candidate(f[k - 1], k + 1 + Len(f[k - 1].results) - N)
  BY GapByGap
<1>. DEFINE Good(k) == \E r \in Nat : InGaps(s, f[k], k, r, h)
            Bad == {k \in 0 .. N - 3 : ~Good(k)}
<1>2. Good(0)
  <2>1. N + 0 = N /\ 0 + 2 + 0 = 2 /\ \A j \in 0 + 2 .. N : j + 0 = j
    OBVIOUS
  <2>2. InGaps(s, s, 0, 0, h)
    BY <2>1 DEF InGaps
  <2>. QED BY <1>1, <2>2
<1>3. ASSUME NEW k \in 1 .. N - 3, Good(k - 1) PROVE Good(k)
  <2>1. PICK r \in Nat : InGaps(s, f[k - 1], k - 1, r, h)
    BY <1>3
  <2>2. f[k] = insert_candidate(f[k - 1], k + 1 + Len(f[k - 1].results) - N)
    BY <1>1
  <2>. QED BY <2>1, <2>2, NextGap
<1>4. Bad = {}
  <2>. HIDE DEF Good
  <2>. SUFFICES ASSUME Bad # {} PROVE FALSE
    OBVIOUS
  <2>1. PICK k \in Bad : \A j \in Bad : k <= j
    <3>1. Bad \subseteq Nat
      OBVIOUS
    <3>. HIDE DEF Bad
    <3>. QED BY <3>1, LeastElement
  <2>2. k # 0 /\ k \in 1 .. N - 3 /\ k - 1 \in 0 .. N - 3
    BY <1>2, <2>1
  <2>3. k - 1 \notin Bad
    BY <2>1, <2>2
  <2>4. Good(k - 1)
    BY <2>2, <2>3
  <2>. QED BY <1>3, <2>1, <2>2, <2>4
<1>5. N - 3 \in 0 .. N - 3
  OBVIOUS
<1>6. Good(N - 3)
  <2>. HIDE DEF Good
  <2>. QED BY <1>4, <1>5
<1>. QED BY <1>1, <1>6

LEMMA Initialised ==
  ASSUME NEW s, NEW h, Plain(s), Len(s.results) >= 2, Recorded(s, 1 .. Len(s.results), h),
         NEW t, t = init_candidates(s)
  PROVE  Refining(t, Len(t.results) - 1, {}, h) /\ t.multipleof = s.multipleof
<1>. DEFINE n == Len(s.results)
            N == n + 1
            front == WithNode(s, 0, Guard(At(s, 1)))
            inner == InsertCandidates(front)
            back == WithNode(inner, Len(inner.results), Guard(At(inner, Len(inner.results))))
<1>1. /\ s \in [node : Seq(Nodes), results : Seq(Nat), candidates : Seq(Nat), multipleof : Nat \ {0}]
      /\ n \in Nat /\ n \in 1 .. n /\ Len(s.node) \in Nat
  <2>1. ListType(s)
    BY DEF Plain
  <2>2. n \in Nat /\ Len(s.node) \in Nat
    BY <2>1, AtType
  <2>. QED BY <2>1, <2>2 DEF ListType
<1>2. front = [s EXCEPT !.node = Append(@, NewNode(At(s, 1).i, FALSE, At(s, 1).result)),
                        !.results = <<Len(s.node) + 1>> \o @]
  <2>1. Len(s.node) + 1 \in Nat /\ s.results \in Seq(Nat)
    BY <1>1
  <2>2. <<Len(s.node) + 1>> \o s.results = InsertAt(s.results, 1, Len(s.node) + 1)
    BY <2>1, PutAtEnds
  <2>3. front = [s EXCEPT !.node = Append(@, Guard(At(s, 1))),
                          !.results = InsertAt(@, 0 + 1, Len(s.node) + 1)]
    BY DEF WithNode
  <2>4. 0 + 1 = 1
    OBVIOUS
  <2>. QED BY <2>2, <2>3, <2>4 DEF Guard
<1>3. /\ Len(front.results) = N /\ front.multipleof = s.multipleof
      /\ \A j \in 1 .. n : At(front, j + 1) = At(s, j)
      /\ Refining(front, Len(front.results), From(2), h)
  <2>. HIDE DEF front
  <2>. QED BY FrontGuard DEF front
<1>. HIDE DEF front
<1>4. \A j \in 1 .. N : ~Cand(front, j)
  <2>1. ListType(front) /\ Spaced(front)
    BY <1>3 DEF Refining, Chain
  <2>. SUFFICES ASSUME NEW j \in 1 .. N, Cand(front, j) PROVE FALSE
    OBVIOUS
  <2>2. j \in 3 .. N - 2
    BY <1>3, <2>1, NextToCandidate
  <2>3. j - 1 \in 1 .. n /\ (j - 1) + 1 = j
    BY <1>1, <2>2
  <2>4. Cand(s, j - 1)
    BY <1>3, <2>3 DEF Cand
  <2>. QED BY <2>3, <2>4 DEF Plain
<1>5. PICK r \in Nat : InGaps(front, inner, N - 3, r, h)
  <2>1. N \in Nat /\ N >= 3
    BY <1>1
  <2>. QED BY <1>3, <1>4, <2>1, AllGaps
<1>. HIDE DEF inner
<1>6. PICK M : M = Len(inner.results)
  OBVIOUS
<1>7. /\ M = N + r /\ inner.multipleof = s.multipleof /\ Refining(inner, M, From(M - 1), h)
      /\ At(inner, M) = At(s, n) /\ At(inner, M - 1) = At(front, n)
  <2>1. /\ M = N + r /\ inner.multipleof = s.multipleof
        /\ Refining(inner, M, From((N - 3) + 2 + r), h)
        /\ \A j \in (N - 3) + 2 .. N : At(inner, j + r) = At(front, j)
    BY <1>3, <1>5, <1>6 DEF InGaps
  <2>2. (N - 3) + 2 + r = M - 1 /\ (N - 3) + 2 = n /\ n + r = M - 1 /\ N + r = M
    BY <1>1, <2>1
  <2>3. n \in n .. N /\ N \in n .. N
    BY <1>1
  <2>4. At(inner, M - 1) = At(front, n) /\ At(inner, M) = At(front, N)
    BY <2>1, <2>2, <2>3
  <2>5. At(front, n + 1) = At(s, n)
    BY <1>1, <1>3
  <2>. QED BY <2>1, <2>2, <2>4, <2>5
<1>8. M \in Nat /\ M >= 3 /\ ~Cand(inner, M) /\ ~Cand(inner, M - 1)
  <2>1. ~Cand(front, n) /\ ~Cand(s, n)
    <3>1. n \in 1 .. N
      BY <1>1
    <3>. QED BY <1>1, <1>4, <3>1 DEF Plain
  <2>. QED BY <1>1, <1>7, <2>1 DEF Cand
<1>9. back = [inner EXCEPT !.node = Append(@, NewNode(At(s, n).i, FALSE, At(s, n).result)),
                           !.results = Append(@, Len(inner.node) + 1)]
  <2>1. ListType(inner)
    BY <1>7 DEF Refining, Chain
  <2>2. inner.results \in Seq(Nat) /\ Len(inner.node) + 1 \in Nat
    BY <2>1, AtType DEF ListType
  <2>3. Append(inner.results, Len(inner.node) + 1)
          = InsertAt(inner.results, M + 1, Len(inner.node) + 1)
    BY <1>6, <2>2, PutAtEnds
  <2>. QED BY <1>6, <1>7, <2>3 DEF WithNode, Guard
<1>10. /\ Len(back.results) = M + 1 /\ back.multipleof = inner.multipleof
       /\ \A j \in 1 .. M : At(back, j) = At(inner, j)
       /\ Refining(back, M, From(M - 1), h)
  <2>1. back = WithNode(inner, M, Guard(At(inner, M)))
    BY <1>6
  <2>. DEFINE J == From(M - 1)
  <2>2. Refining(inner, M, J, h)
    BY <1>7
  <2>. HIDE DEF back, J
  <2>3. HasBackGuard(inner, back, M, J, h)
    BY <1>6, <1>8, <2>1, <2>2, BackGuard
  <2>. QED BY <2>3 DEF J, HasBackGuard
<1>11. t = insert_candidate(back, Len(back.results) - 2)
  BY <1>2, <1>9 DEF init_candidates, inner
<1>. HIDE DEF back
<1>12. PICK k : k = M - 1
  OBVIOUS
<1>13. k \in 2 .. Len(back.results) - 2 /\ Len(back.results) - 2 = k /\ ~Cand(back, k) /\ ~Cand(back, k + 1)
  <2>1. k \in 1 .. M /\ k + 1 = M /\ M \in 1 .. M
    BY <1>8, <1>12
  <2>2. ~Cand(back, k) /\ ~Cand(back, k + 1)
    BY <1>8, <1>10, <1>12, <2>1 DEF Cand
  <2>3. k \in 2 .. (M + 1) - 2 /\ (M + 1) - 2 = k
    BY <1>8, <1>12
  <2>. QED BY <1>10, <2>2, <2>3
<1>14. PICK r2 \in {0, 1} : Refining(t, M + r2, Others(From(k), k, r2), h) /\ Shifted(back, t, k, r2)
  <2>1. \A j \in From(k) : j \in Nat /\ j >= k
    BY DEF From
  <2>2. Refining(back, M, From(k), h) /\ t = insert_candidate(back, k)
    BY <1>10, <1>11, <1>12, <1>13
  <2>. QED BY <1>13, <2>1, <2>2, InsertBetween
<1>15. Len(t.results) - 1 = M + r2 /\ t.multipleof = s.multipleof
  <2>1. Len(t.results) = (M + 1) + r2 /\ t.multipleof = back.multipleof
    BY <1>10, <1>14 DEF Shifted
  <2>. QED BY <1>7, <1>8, <1>10, <2>1
<1>16. Tight(t, M + r2, {})
  <2>1. Tight(t, M + r2, Others(From(k), k, r2))
    BY <1>14 DEF Refining
  <2>2. ASSUME NEW j \in 2 .. (M + r2) - 1 PROVE j \notin Others(From(k), k, r2)
    <3>. SUFFICES ASSUME NEW i \in From(k), i # k, j = i + r2 PROVE FALSE
      BY DEF Others
    <3>1. i \in Nat /\ i >= k
      BY DEF From
    <3>. QED BY <1>8, <1>12, <3>1
  <2>. QED BY <2>1, <2>2 DEF Tight
<1>. QED BY <1>14, <1>15, <1>16 DEF Refining

\* t is s with a result for value i; h2 is what has been measured then.
RegisteredAt(s, t, i, h2) ==
  /\ Plain(t) /\ Recorded(t, 1 .. Len(t.results), h2) /\ t.multipleof = s.multipleof
  /\ Len(t.node) \in Nat \ {0}
  /\ t.node[1].i = IF Len(s.node) = 0 THEN i ELSE s.node[1].i

\* t is s with another result in node id.
Overwritten(s, t, id, result) ==
  /\ t.results = s.results /\ t.candidates = s.candidates /\ t.multipleof = s.multipleof
  /\ t \in [node : Seq(Nodes), results : Seq(Nat), candidates : Seq(Nat), multipleof : Nat \ {0}]
  /\ t.node = [s.node EXCEPT ![id] = [@ EXCEPT !.result = result]]

\* A value that is new goes where the order wants it.
LEMMA PlainInserted ==
  ASSUME NEW s, NEW h, Plain(s), Recorded(s, 1 .. Len(s.results), h),
         NEW i \in Int, Multiple(i, s.multipleof), i \notin DOMAIN h, NEW result \in Results,
         NEW k \in 0 .. Len(s.results),
         \A j \in 1 .. k : Value(s, j) < i, \A j \in k + 1 .. Len(s.results) : i < Value(s, j),
         NEW n \in Nodes, n.i = i, ~n.is_candidate, n.result = result,
         NEW t, t = WithNode(s, k, n),
         NEW h2, h2 = Remembering(h, i, result)
  PROVE  RegisteredAt(s, t, i, h2)
<1>. DEFINE N == Len(s.results)
<1>1. /\ ListType(s) /\ Multiples(s) /\ s.candidates = << >> /\ ToSet(s.results) = 1 .. Len(s.node)
      /\ \A j \in 1 .. N : ~Cand(s, j)
      /\ \A j, l \in 1 .. N : j < l => Value(s, j) < Value(s, l)
  BY DEF Plain
<1>2. N \in Nat /\ Len(s.node) \in Nat
  BY <1>1, AtType
<1>3. n \in Nodes /\ n.i = i /\ ~n.is_candidate /\ n.result = result
  OBVIOUS
<1>4. HasNode(t, s, k, n)
  BY <1>1, <1>3, NodePutIn
<1>5. /\ ListType(t) /\ t.multipleof = s.multipleof /\ t.candidates = s.candidates
      /\ Len(t.results) = N + 1 /\ t.results[k + 1] = Len(s.node) + 1 /\ At(t, k + 1) = n
      /\ \A j \in 1 .. N : At(t, Moved(k, j)) = At(s, j)
      /\ ToSet(t.results) = ToSet(s.results) \cup {Len(s.node) + 1}
      /\ Len(t.node) = Len(s.node) + 1 /\ \A id \in 1 .. Len(s.node) : t.node[id] = s.node[id]
  BY <1>4 DEF HasNode
<1>6. /\ \A j \in 1 .. N : Value(t, Moved(k, j)) = Value(s, j) /\ Cand(t, Moved(k, j)) = Cand(s, j)
      /\ Value(t, k + 1) = i /\ ~Cand(t, k + 1) /\ At(t, k + 1).result = result
  BY <1>3, <1>5 DEF Value, Cand
<1>7. \A p \in 1 .. N + 1 : p = k + 1 \/ \E j \in 1 .. N : p = Moved(k, j)
  <2>. TAKE p \in 1 .. N + 1
  <2>1. CASE p <= k
    <3>1. p \in 1 .. N /\ p = Moved(k, p)
      BY <1>2, <2>1 DEF Moved
    <3>. QED BY <3>1
  <2>2. CASE p > k + 1
    <3>1. p - 1 \in 1 .. N /\ p = Moved(k, p - 1)
      BY <1>2, <2>2 DEF Moved
    <3>. QED BY <3>1
  <2>. QED BY <1>2, <2>1, <2>2
<1>8. ASSUME NEW p \in 1 .. N + 1, NEW q \in 1 .. N + 1, p < q
      PROVE  Value(t, p) < Value(t, q)
  <2>1. ASSUME NEW j \in 1 .. N, p = Moved(k, j), q = k + 1 PROVE Value(t, p) < Value(t, q)
    <3>1. j \in 1 .. k
      BY <1>2, <1>8, <2>1 DEF Moved
    <3>. QED BY <1>6, <2>1, <3>1
  <2>2. ASSUME NEW j \in 1 .. N, q = Moved(k, j), p = k + 1 PROVE Value(t, p) < Value(t, q)
    <3>1. j \in k + 1 .. N
      BY <1>2, <1>8, <2>2 DEF Moved
    <3>. QED BY <1>6, <2>2, <3>1
  <2>3. ASSUME NEW j \in 1 .. N, p = Moved(k, j), NEW l \in 1 .. N, q = Moved(k, l)
        PROVE  Value(t, p) < Value(t, q)
    <3>1. j < l
      BY <1>2, <1>8, <2>3 DEF Moved
    <3>. QED BY <1>1, <1>6, <2>3, <3>1
  <2>4. ~(p = k + 1 /\ q = k + 1)
    BY <1>8
  <2>. QED BY <1>7, <2>1, <2>2, <2>3, <2>4
<1>9. \A p \in 1 .. N + 1 : ~Cand(t, p)
  BY <1>1, <1>6, <1>7
<1>10. Multiples(t)
  <2>1. \A j \in 1 .. N : Multiple(Value(s, j), s.multipleof)
    BY <1>1 DEF Multiples
  <2>2. \A p \in 1 .. N + 1 : Multiple(Value(t, p), s.multipleof)
    BY <1>6, <1>7, <2>1
  <2>. QED BY <1>5, <2>2 DEF Multiples
<1>11. ToSet(t.results) = 1 .. Len(t.node)
  <2>1. \A m \in Nat : (1 .. m) \cup {m + 1} = 1 .. m + 1
    OBVIOUS
  <2>2. (1 .. Len(s.node)) \cup {Len(s.node) + 1} = 1 .. Len(s.node) + 1
    BY <1>2, <2>1
  <2>. QED BY <1>1, <1>5, <2>2
<1>12. Plain(t)
  BY <1>1, <1>5, <1>8, <1>9, <1>10, <1>11 DEF Plain
<1>13. DOMAIN h2 = DOMAIN h \cup {i} /\ h2[i] = result /\ \A y \in DOMAIN h : y # i => h2[y] = h[y]
  BY DEF Remembering
<1>14. k + 1 \in 1 .. N + 1 /\ \A j \in 1 .. N : Moved(k, j) \in 1 .. N + 1
  BY <1>2 DEF Moved
<1>15. Recorded(t, 1 .. N + 1, h2)
  <2>1. ASSUME NEW y \in DOMAIN h2
        PROVE  \E j \in 1 .. N + 1 : ~Cand(t, j) /\ Value(t, j) = y /\ At(t, j).result = h2[y]
    <3>1. CASE y = i
      BY <1>6, <1>13, <1>14, <3>1
    <3>2. CASE y # i
      <4>1. y \in DOMAIN h /\ h2[y] = h[y]
        BY <1>13, <3>2
      <4>2. PICK j \in 1 .. N : ~Cand(s, j) /\ Value(s, j) = y /\ At(s, j).result = h[y]
        BY <4>1 DEF Recorded
      <4>. QED BY <1>5, <1>6, <1>14, <4>1, <4>2
    <3>. QED BY <3>1, <3>2
  <2>2. ASSUME NEW p \in 1 .. N + 1 PROVE Value(t, p) \in DOMAIN h2
    <3>1. \A j \in 1 .. N : Value(s, j) \in DOMAIN h
      BY <1>1 DEF Recorded
    <3>. QED BY <1>6, <1>7, <1>13, <3>1
  <2>. QED BY <2>1, <2>2 DEF Recorded
<1>16. t.node[1].i = IF Len(s.node) = 0 THEN i ELSE s.node[1].i
  <2>1. CASE Len(s.node) = 0
    <3>0. t.results[k + 1] = 1
      <4>1. t.results[k + 1] = Len(s.node) + 1
        BY <1>5
      <4>2. Len(s.node) + 1 = 1
        BY <2>1
      <4>. QED BY <4>1, <4>2, Zenon
    <3>1. At(t, k + 1) = t.node[1]
      BY <3>0 DEF At
    <3>. QED BY <1>3, <1>5, <2>1, <3>1
  <2>2. CASE Len(s.node) # 0
    <3>1. 1 \in 1 .. Len(s.node)
      BY <1>2, <2>2
    <3>. QED BY <1>5, <2>2, <3>1
  <2>. QED BY <2>1, <2>2
<1>. QED BY <1>2, <1>5, <1>12, <1>15, <1>16 DEF RegisteredAt

\* A value that comes again gets the new result.
LEMMA PlainOverwritten ==
  ASSUME NEW s, NEW h, Plain(s), Recorded(s, 1 .. Len(s.results), h),
         NEW k \in 1 .. Len(s.results), NEW i, i = Value(s, k), NEW result \in Results,
         NEW t, Overwritten(s, t, s.results[k], result),
         NEW h2, h2 = Remembering(h, i, result)
  PROVE  RegisteredAt(s, t, i, h2)
<1>. DEFINE N == Len(s.results)
            id == s.results[k]
            n == s.node[id]
            n1 == [n EXCEPT !.result = result]
<1>0. /\ t.results = s.results /\ t.candidates = s.candidates /\ t.multipleof = s.multipleof
      /\ t \in [node : Seq(Nodes), results : Seq(Nat), candidates : Seq(Nat),
                 multipleof : Nat \ {0}]
      /\ t.node = [s.node EXCEPT ![id] = n1]
  BY DEF Overwritten
<1>1. /\ ListType(s) /\ Multiples(s) /\ s.candidates = << >> /\ ToSet(s.results) = 1 .. Len(s.node)
      /\ \A j \in 1 .. N : ~Cand(s, j)
      /\ \A j, l \in 1 .. N : j < l => Value(s, j) < Value(s, l)
  BY DEF Plain
<1>2. N \in Nat /\ Len(s.node) \in Nat
  BY <1>1, AtType
<1>3. id \in 1 .. Len(s.node) /\ n \in Nodes /\ n = At(s, k)
  BY <1>1, AtType DEF ListType, At
<1>4. n1 \in Nodes /\ n1.i = n.i /\ n1.is_candidate = n.is_candidate /\ n1.result = result
  <2>. HIDE DEF n
  <2>. QED BY <1>3 DEF Nodes
<1>. HIDE DEF n1
<1>5. /\ Len(t.node) = Len(s.node) /\ t.node[id] = n1
      /\ \A j \in 1 .. Len(s.node) : j # id => t.node[j] = s.node[j]
  <2>1. t.node = [s.node EXCEPT ![id] = n1] /\ s.node \in Seq(Nodes)
    BY <1>0, <1>1 DEF ListType, n1
  <2>. HIDE DEF id
  <2>. QED BY <1>3, <1>4, <2>1, ExceptSeq
<1>6. ListType(t)
  BY <1>0, <1>1, <1>5 DEF ListType
<1>7. \A j \in 1 .. N : IF j = k THEN At(t, j) = n1 ELSE At(t, j) = At(s, j)
  <2>. TAKE j \in 1 .. N
  <2>1. s.results[j] \in 1 .. Len(s.node)
    BY <1>1 DEF ListType
  <2>2. j # k => s.results[j] # id
    <3>1. DOMAIN s.results = 1 .. N
      BY <1>1, LenProperties DEF ListType
    <3>. QED BY <1>1, <3>1 DEF ListType, IsInjective
  <2>. QED BY <1>0, <1>5, <2>1, <2>2 DEF At
<1>8. /\ \A j \in 1 .. N : Value(t, j) = Value(s, j) /\ ~Cand(t, j)
      /\ At(t, k).result = result
  <2>1. \A j \in 1 .. N : Value(t, j) = Value(s, j)
    BY <1>3, <1>4, <1>7 DEF Value
  <2>2. \A j \in 1 .. N : Cand(t, j) = Cand(s, j)
    BY <1>3, <1>4, <1>7 DEF Cand
  <2>. QED BY <1>1, <1>4, <1>7, <2>1, <2>2
<1>9. Plain(t)
  <2>1. Multiples(t)
    BY <1>0, <1>1, <1>8 DEF Multiples
  <2>2. \A j, l \in 1 .. N : j < l => Value(t, j) < Value(t, l)
    BY <1>1, <1>8
  <2>3. ToSet(t.results) = 1 .. Len(t.node)
    BY <1>0, <1>1, <1>5
  <2>4. \A j \in 1 .. N : ~Cand(t, j)
    BY <1>8
  <2>. QED BY <1>0, <1>1, <1>6, <2>1, <2>2, <2>3, <2>4 DEF Plain
<1>10. DOMAIN h2 = DOMAIN h \cup {i} /\ h2[i] = result /\ \A y \in DOMAIN h : y # i => h2[y] = h[y]
  BY DEF Remembering
<1>11. Recorded(t, 1 .. N, h2)
  <2>1. ASSUME NEW y \in DOMAIN h2
        PROVE  \E j \in 1 .. N : ~Cand(t, j) /\ Value(t, j) = y /\ At(t, j).result = h2[y]
    <3>1. CASE y = i
      BY <1>8, <1>10, <3>1
    <3>2. CASE y # i
      <4>1. y \in DOMAIN h /\ h2[y] = h[y]
        BY <1>10, <3>2
      <4>2. PICK j \in 1 .. N : ~Cand(s, j) /\ Value(s, j) = y /\ At(s, j).result = h[y]
        BY <4>1 DEF Recorded
      <4>3. j # k
        BY <3>2, <4>2
      <4>. QED BY <1>7, <1>8, <4>1, <4>2, <4>3
    <3>. QED BY <3>1, <3>2
  <2>2. ASSUME NEW p \in 1 .. N PROVE Value(t, p) \in DOMAIN h2
    <3>1. \A j \in 1 .. N : Value(s, j) \in DOMAIN h
      BY <1>1 DEF Recorded
    <3>. QED BY <1>8, <1>10, <3>1
  <2>. QED BY <2>1, <2>2 DEF Recorded
<1>12. t.node[1].i = s.node[1].i
  <2>1. 1 \in 1 .. Len(s.node)
    BY <1>2, <1>3
  <2>2. CASE id = 1
    BY <1>4, <1>5, <2>2
  <2>3. CASE id # 1
    BY <1>5, <2>1, <2>3
  <2>. QED BY <2>2, <2>3
<1>13. Len(s.node) # 0
  BY <1>2, <1>3
<1>. QED BY <1>0, <1>2, <1>5, <1>9, <1>11, <1>12, <1>13 DEF RegisteredAt

PutAt(q, i, b) == [q EXCEPT ![i] = b]
WithResult(u, id, result) == [u EXCEPT !.node[id].result = result]

LEMMA AppendExcept ==
  ASSUME NEW S, NEW s \in Seq(S), NEW a \in S, NEW b \in S
  PROVE  PutAt(Append(s, a), Len(s) + 1, b) = Append(s, b)
<1>. DEFINE u == Append(s, a)
            v == Append(s, b)
            m == Len(s) + 1
<1>1. /\ u \in Seq(S) /\ Len(u) = m /\ u[m] = a /\ \A i \in 1 .. Len(s) : u[i] = s[i]
  BY AppendProperties
<1>2. /\ v \in Seq(S) /\ Len(v) = m /\ v[m] = b /\ \A i \in 1 .. Len(s) : v[i] = s[i]
  BY AppendProperties
<1>. HIDE DEF u, v
<1>3. Len(s) \in Nat /\ DOMAIN u = 1 .. m /\ DOMAIN v = 1 .. m /\ v = [i \in 1 .. m |-> v[i]]
  BY <1>1, <1>2, LenProperties
<1>4. \A i \in 1 .. m : v[i] = IF i = m THEN b ELSE u[i]
  <2>1. \A i \in 1 .. m : i = m \/ i \in 1 .. Len(s)
    BY <1>3
  <2>. HIDE DEF m
  <2>. QED BY <1>1, <1>2, <2>1
<1>5. [u EXCEPT ![m] = b] = [i \in 1 .. m |-> IF i = m THEN b ELSE u[i]]
  BY <1>3
<1>6. [u EXCEPT ![m] = b] = v
  BY <1>3, <1>4, <1>5
<1>. QED BY <1>6 DEF u, v, PutAt

LEMMA NewElement ==
  ASSUME NEW s, ListType(s), NEW k, NEW n0 \in Nodes, NEW result \in Results,
         NEW n1, n1 = [n0 EXCEPT !.result = result],
         NEW t, t = WithResult(WithNode(s, k, n0), Len(s.node) + 1, result)
  PROVE  t = WithNode(s, k, n1)
<1>. DEFINE id == Len(s.node) + 1
            r == InsertAt(s.results, k + 1, id)
            u == WithNode(s, k, n0)
            v == WithNode(s, k, n1)
<1>1. n0 \in Nodes /\ n1 \in Nodes /\ [n0 EXCEPT !.result = result] = n1
  BY DEF Nodes
<1>2. s.node \in Seq(Nodes) /\ DOMAIN s = {"node", "results", "candidates", "multipleof"}
  BY DEF ListType
<1>3. /\ u.node = Append(s.node, n0) /\ u.results = r
      /\ u.candidates = s.candidates /\ u.multipleof = s.multipleof
      /\ DOMAIN u = {"node", "results", "candidates", "multipleof"}
  BY <1>2 DEF WithNode
<1>4. v = [u EXCEPT !.node = Append(s.node, n1)]
  BY <1>2 DEF WithNode
<1>5. Append(s.node, n0)[id] = n0 /\ [Append(s.node, n0) EXCEPT ![id] = n1] = Append(s.node, n1)
  <2>1. Append(s.node, n0)[id] = n0
    BY <1>1, <1>2, AppendProperties
  <2>2. s.node \in Seq(Nodes)
    BY <1>2
  <2>3. PutAt(Append(s.node, n0), Len(s.node) + 1, n1) = Append(s.node, n1)
    <3>1. PICK q : q = s.node
      OBVIOUS
    <3>2. q \in Seq(Nodes) /\ n0 \in Nodes /\ n1 \in Nodes
      BY <1>1, <2>2, <3>1
    <3>3. PutAt(Append(q, n0), Len(q) + 1, n1) = Append(q, n1)
      BY ONLY <3>2, AppendExcept
    <3>. QED BY <3>1, <3>3
  <2>. QED BY <2>1, <2>3 DEF PutAt
<1>. HIDE DEF u, v, id
<1>6. [u EXCEPT !.node[id].result = result] = [u EXCEPT !.node = Append(s.node, n1)]
  <2>1. u.node[id] = n0 /\ [u.node EXCEPT ![id] = n1] = Append(s.node, n1)
    BY <1>3, <1>5
  <2>2. [u EXCEPT !.node[id].result = result]
          = [u EXCEPT !.node = [u.node EXCEPT ![id] = [u.node[id] EXCEPT !.result = result]]]
    OBVIOUS
  <2>. QED BY <1>1, <2>1, <2>2
<1>. QED BY <1>4, <1>6 DEF u, v, id, WithResult

LEMMA OldElement ==
  ASSUME NEW s, ListType(s), NEW k \in 1 .. Len(s.results), NEW i, i = Value(s, k),
         NEW result \in Results,
         NEW t, t = [[s EXCEPT !.node[s.results[k]].i = i] EXCEPT !.node[s.results[k]].result = result]
  PROVE  Overwritten(s, t, s.results[k], result)
<1>. DEFINE id == s.results[k]
            n == s.node[id]
            n1 == [n EXCEPT !.result = result]
            u == [s EXCEPT !.node[id].i = i]
<1>1. /\ s \in [node : Seq(Nodes), results : Seq(Nat), candidates : Seq(Nat), multipleof : Nat \ {0}]
      /\ id \in 1 .. Len(s.node) /\ n = At(s, k) /\ n \in Nodes
  BY AtType DEF ListType, At
<1>2. [n EXCEPT !.i = i] = n /\ n1 \in Nodes
  <2>1. n.i = i
    BY <1>1 DEF Value
  <2>. HIDE DEF n
  <2>. QED BY <1>1, <2>1 DEF Nodes
<1>3. s.node \in Seq(Nodes) /\ DOMAIN s.node = 1 .. Len(s.node)
  BY <1>1, LenProperties
<1>4. u = s
  <2>1. u = [s EXCEPT !.node = [s.node EXCEPT ![id] = [n EXCEPT !.i = i]]]
    OBVIOUS
  <2>2. [s.node EXCEPT ![id] = n] = s.node
    <3>. HIDE DEF id
    <3>. QED BY <1>1, <1>3
  <2>3. [s EXCEPT !.node = s.node] = s
    BY <1>1
  <2>. HIDE DEF n, id
  <2>. QED BY <1>2, <2>1, <2>2, <2>3 DEF n
<1>5. t = [s EXCEPT !.node = [s.node EXCEPT ![id] = n1]]
  <2>1. t = [s EXCEPT !.node[id].result = result]
    <3>. HIDE DEF id
    <3>. QED BY <1>4 DEF id
  <2>. QED BY <2>1
<1>6. [s.node EXCEPT ![id] = n1] \in Seq(Nodes)
  <2>. HIDE DEF id, n1
  <2>. QED BY <1>1, <1>2, <1>3, ExceptSeq
<1>. QED BY <1>1, <1>5, <1>6 DEF Overwritten

\* insert_element finds the place for a new value, or the node it overwrites.
\* It starts from the node inserted first: the only value that may come again is
\* that node's.
LEMMA RegularRegistered ==
  ASSUME NEW s, NEW h, Plain(s), Recorded(s, 1 .. Len(s.results), h),
         NEW i \in Int, Multiple(i, s.multipleof), i \in DOMAIN h => i = s.node[1].i,
         NEW result \in Results, NEW el, el = insert_element(s, i),
         NEW t, t = [el.s EXCEPT !.node[el.id].result = result],
         NEW h2, h2 = Remembering(h, i, result)
  PROVE  RegisteredAt(s, t, i, h2)
<1>. DEFINE n == Len(s.results)
            id == Len(s.node) + 1
            last == Pos(s, 1)
            Up(k) == (\A j \in last + 1 .. k : At(s, j).i < i) /\ (k = n \/ At(s, k + 1).i >= i)
            Down(k) == (\A j \in k .. last - 1 : At(s, j).i > i) /\ (k = 1 \/ At(s, k - 1).i <= i)
            up == CHOOSE k \in last .. n : Up(k)
            down == CHOOSE k \in 1 .. last : Down(k)
            New(k) == [id |-> id, s |-> [s EXCEPT !.node = Append(@, NewNode(i, FALSE, 0)),
                                                  !.results = InsertAt(@, k, id)]]
            Old(k) == [id |-> s.results[k], s |-> [s EXCEPT !.node[s.results[k]].i = i]]
<1>1. /\ ListType(s) /\ ToSet(s.results) = 1 .. Len(s.node)
      /\ \A j, l \in 1 .. n : j < l => Value(s, j) < Value(s, l)
  BY DEF Plain
<1>2. n \in Nat /\ Len(s.node) \in Nat /\ \A k \in 1 .. n : Value(s, k) \in Int
  BY <1>1, AtType
<1>3. el = IF n = 0 THEN New(1)
           ELSE IF At(s, last).i < i
                THEN IF up < n /\ At(s, up + 1).i = i THEN Old(up) ELSE New(up + 1)
           ELSE IF At(s, last).i = i THEN Old(last)
           ELSE IF down > 1 /\ At(s, down - 1).i = i THEN Old(down) ELSE New(down)
  BY DEF insert_element
<1>4. \A k \in 1 .. n : Value(s, k) \in DOMAIN h
  BY DEF Recorded, Plain
<1>. HIDE DEF up, down, last
<1>5. ASSUME NEW k \in 0 .. n, el = New(k + 1), i \notin DOMAIN h,
             \A j \in 1 .. k : Value(s, j) < i, \A j \in k + 1 .. n : i < Value(s, j)
      PROVE  RegisteredAt(s, t, i, h2)
  <2>. DEFINE n0 == NewNode(i, FALSE, 0)
              n1 == [n0 EXCEPT !.result = result]
  <2>0. n0 \in Nodes /\ n0.i = i /\ ~n0.is_candidate
    BY DEF NewNode, Nodes
  <2>1. el.s = WithNode(s, k, n0) /\ el.id = Len(s.node) + 1
    BY <1>5 DEF WithNode
  <2>. HIDE DEF n0
  <2>1a. n1 \in Nodes /\ n1.i = i /\ ~n1.is_candidate /\ n1.result = result
    BY <2>0 DEF Nodes
  <2>2. t = WithNode(s, k, n1)
    <3>1. t = WithResult(WithNode(s, k, n0), Len(s.node) + 1, result)
      BY <2>1 DEF WithResult
    <3>2. n1 = [n0 EXCEPT !.result = result]
      OBVIOUS
    <3>. HIDE DEF n1
    <3>. QED BY <1>1, <2>0, <3>1, <3>2, NewElement
  <2>. HIDE DEF n1
  <2>. QED BY <1>5, <2>1a, <2>2, PlainInserted
<1>6. CASE n = 0
  <2>1. el = New(0 + 1)
    <3>1. 0 + 1 = 1
      OBVIOUS
    <3>. QED BY <1>3, <1>6, <3>1
  <2>2. i \notin DOMAIN h
    BY <1>6 DEF Recorded
  <2>3. 0 \in 0 .. n /\ 1 .. 0 = {} /\ 0 + 1 .. n = {}
    BY <1>6
  <2>. QED BY <1>5, <2>1, <2>2, <2>3
<1>7. CASE n # 0
  <2>1. last \in 1 .. n /\ s.results[last] = 1 /\ 1 \in 1 .. Len(s.node)
    <3>1. DOMAIN s.results = 1 .. n /\ 1 \in 1 .. n
      BY <1>1, <1>2, <1>7, LenProperties DEF ListType
    <3>2. s.results[1] \in 1 .. Len(s.node)
      BY <1>1, <3>1 DEF ListType
    <3>3. 1 \in 1 .. Len(s.node)
      BY <1>2, <3>2
    <3>4. \E k \in 1 .. n : s.results[k] = 1
      BY <1>1, <3>1, <3>3 DEF ToSet
    <3>. QED BY <3>3, <3>4 DEF last, Pos
  <2>2. Value(s, last) = s.node[1].i
    BY <2>1 DEF Value, At
  <2>3. i \in DOMAIN h => i = Value(s, last)
    BY <2>2
  <2>4. \A k \in 1 .. n : Value(s, k) = i => i = Value(s, last)
    BY <1>4, <2>3
  <2>5. CASE Value(s, last) < i
    <3>1. up \in last .. n /\ Up(up)
      <4>. DEFINE T == {k \in last .. n : k = n \/ At(s, k + 1).i >= i}
      <4>1. n \in T /\ T \subseteq Nat
        BY <1>2, <2>1
      <4>2. PICK k \in T : \A j \in T : k <= j
        <5>. HIDE DEF T
        <5>. QED BY <4>1, LeastElement
      <4>3. ASSUME NEW j \in last + 1 .. k PROVE At(s, j).i < i
        <5>1. j - 1 \in last .. n /\ j - 1 # n /\ (j - 1) + 1 = j /\ ~(k <= j - 1) /\ j \in 1 .. n
          <6>1. k \in last .. n /\ last \in 1 .. n
            BY <2>1, <4>2
          <6>. HIDE DEF T
          <6>. QED BY <1>2, <4>3, <6>1
        <5>2. j - 1 \notin T
          <6>. HIDE DEF T
          <6>. QED BY <4>2, <5>1
        <5>3. ~(At(s, j).i >= i)
          BY <5>1, <5>2
        <5>. QED BY <1>2, <5>1, <5>3 DEF Value
      <4>4. k \in last .. n /\ Up(k)
        BY <4>2, <4>3
      <4>. HIDE DEF Up
      <4>. QED BY <4>4 DEF up
    <3>2. \A j \in 1 .. up : Value(s, j) < i
      <4>. TAKE j \in 1 .. up
      <4>1. j \in 1 .. n
        BY <1>2, <2>1, <3>1
      <4>2. CASE j \in last + 1 .. up
        BY <3>1, <4>2 DEF Value
      <4>3. CASE j = last
        BY <2>5, <4>3
      <4>4. CASE j < last
        <5>1. Value(s, j) < Value(s, last)
          BY <1>1, <2>1, <4>1, <4>4
        <5>. QED BY <1>2, <2>1, <2>5, <4>1, <5>1
      <4>. QED BY <2>1, <3>1, <4>2, <4>3, <4>4
    <3>3. \A j \in up + 1 .. n : i < Value(s, j)
      <4>. TAKE j \in up + 1 .. n
      <4>1. up + 1 \in 1 .. n /\ j \in 1 .. n /\ up # n
        BY <1>2, <2>1, <3>1
      <4>2. Value(s, up + 1) >= i
        BY <3>1, <4>1 DEF Value
      <4>3. Value(s, up + 1) # i
        BY <1>2, <2>1, <2>4, <2>5, <4>1
      <4>4. j = up + 1 \/ Value(s, up + 1) < Value(s, j)
        BY <1>1, <3>1, <4>1
      <4>. QED BY <1>2, <4>1, <4>2, <4>3, <4>4
    <3>4. el = New(up + 1)
      <4>1. ~(up < n /\ At(s, up + 1).i = i)
        <5>. SUFFICES ASSUME up < n, At(s, up + 1).i = i PROVE FALSE
          OBVIOUS
        <5>1. up + 1 \in up + 1 .. n /\ up + 1 \in 1 .. n
          BY <1>2, <2>1, <3>1
        <5>2. i < Value(s, up + 1)
          BY <3>3, <5>1
        <5>. QED BY <5>2 DEF Value
      <4>. QED BY <1>3, <1>7, <2>5, <4>1 DEF Value
    <3>5. up \in 0 .. n /\ i \notin DOMAIN h
      BY <1>2, <2>1, <2>3, <2>5, <3>1
    <3>. QED BY <1>5, <3>2, <3>3, <3>4, <3>5
  <2>6. CASE Value(s, last) = i
    <3>1. el = Old(last)
      <4>1. ~(At(s, last).i < i) /\ At(s, last).i = i
        BY <1>2, <2>1, <2>6 DEF Value
      <4>. QED BY <1>3, <1>7, <4>1
    <3>2. t = [[s EXCEPT !.node[s.results[last]].i = i] EXCEPT !.node[s.results[last]].result = result]
      <4>1. el.id = s.results[last] /\ el.s = [s EXCEPT !.node[s.results[last]].i = i]
        BY <3>1
      <4>. QED BY <4>1
    <3>3. Overwritten(s, t, s.results[last], result)
      BY <1>1, <2>1, <2>6, <3>2, OldElement
    <3>. QED BY <2>1, <2>6, <3>3, PlainOverwritten
  <2>7. CASE Value(s, last) > i
    <3>1. down \in 1 .. last /\ Down(down)
      <4>. DEFINE T == {k \in 1 .. last : k = 1 \/ At(s, k - 1).i <= i}
      <4>1. 1 \in T /\ T \subseteq Int /\ IsFiniteSet(T)
        <5>0. last \in Int /\ 1 \in Int
          BY <1>2, <2>1
        <5>1. T \subseteq 1 .. last /\ IsFiniteSet(1 .. last)
          BY <5>0, FS_Interval
        <5>2. 1 \in T
          BY <2>1
        <5>. HIDE DEF T
        <5>. QED BY <1>2, <2>1, <5>1, <5>2, FS_Subset
      <4>2. PICK k \in T : \A j \in T : k >= j
        <5>. HIDE DEF T
        <5>. QED BY <4>1, GreatestElement
      <4>3. ASSUME NEW j \in k .. last - 1 PROVE At(s, j).i > i
        <5>1. j + 1 \in 1 .. last /\ j + 1 # 1 /\ (j + 1) - 1 = j /\ ~(k >= j + 1) /\ j \in 1 .. n
          BY <1>2, <2>1, <4>2
        <5>2. j + 1 \notin T
          <6>. HIDE DEF T
          <6>. QED BY <4>2, <5>1
        <5>3. ~(At(s, j).i <= i)
          BY <5>1, <5>2
        <5>. QED BY <1>2, <5>1, <5>3 DEF Value
      <4>4. k \in 1 .. last /\ Down(k)
        BY <4>2, <4>3
      <4>. HIDE DEF Down
      <4>. QED BY <4>4 DEF down
    <3>0. PICK k : k = down - 1
      OBVIOUS
    <3>0a. down = k + 1 /\ k \in 0 .. n /\ down \in 1 .. n
      BY <1>2, <2>1, <3>0, <3>1
    <3>2. \A j \in k + 1 .. n : i < Value(s, j)
      <4>. TAKE j \in k + 1 .. n
      <4>1. j \in 1 .. n
        BY <3>0a
      <4>2. CASE j \in down .. last - 1
        BY <3>1, <4>1, <4>2, <1>2 DEF Value
      <4>3. CASE j = last
        BY <1>2, <2>1, <2>7, <4>3
      <4>4. CASE j > last
        <5>1. Value(s, last) < Value(s, j)
          BY <1>1, <2>1, <4>1, <4>4
        <5>. QED BY <1>2, <2>1, <2>7, <4>1, <5>1
      <4>. QED BY <2>1, <3>0a, <3>1, <4>2, <4>3, <4>4
    <3>3. \A j \in 1 .. k : Value(s, j) < i
      <4>. TAKE j \in 1 .. k
      <4>1. k \in 1 .. n /\ j \in 1 .. n /\ down # 1 /\ down - 1 = k
        BY <3>0a
      <4>2. Value(s, k) <= i
        BY <3>1, <4>1 DEF Value
      <4>3. Value(s, k) # i
        BY <1>2, <2>1, <2>4, <2>7, <4>1
      <4>4. j = k \/ Value(s, j) < Value(s, k)
        BY <1>1, <4>1
      <4>. QED BY <1>2, <4>1, <4>2, <4>3, <4>4
    <3>4. el = New(k + 1)
      <4>1. ~(down > 1 /\ At(s, down - 1).i = i)
        <5>. SUFFICES ASSUME down > 1, At(s, down - 1).i = i PROVE FALSE
          OBVIOUS
        <5>1. down - 1 = k /\ k \in 1 .. k /\ k \in 1 .. n
          BY <3>0a
        <5>2. Value(s, k) < i
          BY <3>3, <5>1
        <5>. QED BY <5>1, <5>2 DEF Value
      <4>2. ~(At(s, last).i < i) /\ At(s, last).i # i
        BY <1>2, <2>1, <2>7 DEF Value
      <4>. QED BY <1>3, <1>7, <3>0a, <4>1, <4>2
    <3>5. i \notin DOMAIN h
      BY <1>2, <2>1, <2>3, <2>7
    <3>. QED BY <1>5, <3>0a, <3>2, <3>3, <3>4, <3>5
  <2>. QED BY <1>2, <2>1, <2>5, <2>6, <2>7
<1>. QED BY <1>6, <1>7

-----------------------------------------------------------------------------
(* The values of the plain loop. *)

\* Multiples of multipleof, at least two different ones, and none but the first
\* comes a second time.
Visits(v, m) ==
  /\ v \in Seq(Int) /\ Len(v) \in Nat \ {0}
  /\ \A j \in 1 .. Len(v) : Multiple(v[j], m)
  /\ \A j, k \in 1 .. Len(v) : j < k /\ v[j] = v[k] => v[k] = v[1]
  /\ \E j \in 1 .. Len(v) : v[j] # v[1]

LEMMA Values ==
  ASSUME NEW l \in Loops
  PROVE  Visits(ValuesVisited(l), l.multipleof) /\ l.multipleof \in Nat \ {0}
<1>. DEFINE m == l.multipleof
            c == Abs(l.last - l.first) \div Abs(l.step)
            plain == [k \in 1 .. c |-> l.first + k * l.step]
            skips == plain # << >> /\ plain[1] = Clobbered
            rest == IF skips THEN Tail(plain) ELSE plain
            v == ValuesVisited(l)
<1>1. /\ l.first \in Int /\ l.step \in Int /\ l.last \in Int /\ l.step # 0
      /\ m \in Nat \ {0} /\ l.first % m = 0 /\ l.step % m = 0
  BY LoopsVisitMultiples
<1>2. c \in Nat
  <2>1. Abs(l.last - l.first) \in Nat /\ Abs(l.step) \in Nat \ {0}
    BY <1>1 DEF Abs
  <2>2. \A a \in Nat, b \in Nat \ {0} : a \div b \in Nat
    OBVIOUS
  <2>. QED BY <2>1, <2>2
<1>. HIDE DEF c
<1>3. /\ plain \in Seq(Int) /\ Len(plain) = c
      /\ \A k \in 1 .. c : plain[k] = l.first + k * l.step /\ plain[k] \in Int
  <2>1. \A k \in 1 .. c : l.first + k * l.step \in Int
    <3>. TAKE k \in 1 .. c
    <3>1. k \in Int
      BY <1>2
    <3>. QED BY <1>1, <3>1
  <2>2. plain \in Seq(Int) /\ Len(plain) = c
    <3>1. DOMAIN plain = 1 .. c /\ \A k \in 1 .. c : plain[k] \in Int
      BY <2>1
    <3>2. plain \in [1 .. c -> Int]
      BY <2>1
    <3>. HIDE DEF plain
    <3>3. plain \in Seq(Int)
      BY <1>2, <3>2
    <3>. QED BY <1>2, <3>1, <3>3, LenProperties
  <2>. QED BY <2>1, <2>2
<1>4. \A k \in 1 .. c : Multiple(plain[k], m)
  <2>. TAKE k \in 1 .. c
  <2>1. Multiple(l.first, m) /\ Multiple(l.step, m)
    BY <1>1, MultipleMod
  <2>2. PICK p \in Int : l.step = m * p
    BY <2>1 DEF Multiple
  <2>3. k * l.step = m * (k * p) /\ k * p \in Int /\ k * l.step \in Int
    <3>1. k \in Int
      BY <1>2
    <3>2. k * (m * p) = m * (k * p)
      BY <1>1, <3>1
    <3>3. k * p \in Int /\ k * l.step \in Int
      BY <1>1, <3>1
    <3>. QED BY <2>2, <3>2, <3>3
  <2>4. Multiple(k * l.step, m)
    BY <2>3 DEF Multiple
  <2>5. Multiple(l.first + k * l.step, m)
    BY <1>1, <2>1, <2>3, <2>4, MultipleSum
  <2>. QED BY <1>3, <2>5
<1>5. \A j, k \in 1 .. c : plain[j] = plain[k] => j = k
  <2>. SUFFICES ASSUME NEW j \in 1 .. c, NEW k \in 1 .. c, plain[j] = plain[k], j # k PROVE FALSE
    OBVIOUS
  <2>1. j \in Int /\ k \in Int
    BY <1>2
  <2>2. j * l.step = k * l.step
    <3>1. j * l.step \in Int /\ k * l.step \in Int
      BY <1>1, <2>1
    <3>2. l.first + j * l.step = l.first + k * l.step
      BY <1>3
    <3>. QED BY <1>1, <3>1, <3>2
  <2>3. (j - k) * l.step = 0
    <3>1. (j - k) * l.step = j * l.step - k * l.step
      BY <1>1, <2>1
    <3>2. j * l.step \in Int
      BY <1>1, <2>1
    <3>. QED BY <2>2, <3>1, <3>2
  <2>4. \A a, b \in Int : a # 0 /\ b # 0 => a * b # 0
    OBVIOUS
  <2>5. j - k \in Int /\ j - k # 0
    BY <2>1
  <2>. QED BY <1>1, <2>3, <2>4, <2>5
<1>. HIDE DEF plain
<1>6. /\ rest \in Seq(Int) /\ Len(rest) \in Nat
      /\ \A k \in 1 .. Len(rest) : Multiple(rest[k], m)
      /\ \A j, k \in 1 .. Len(rest) : rest[j] = rest[k] => j = k
  <2>1. CASE skips
    <3>1. /\ Tail(plain) \in Seq(Int) /\ Len(Tail(plain)) = c - 1
          /\ \A k \in 1 .. Len(Tail(plain)) : Tail(plain)[k] = plain[k + 1]
      BY <1>3, <2>1, HeadTailProperties
    <3>2. c - 1 \in Nat
      <4>1. Len(plain) \in Nat \ {0}
        BY <1>3, <2>1, EmptySeq
      <4>. QED BY <1>3, <4>1
    <3>3. \A k \in 1 .. c - 1 : k + 1 \in 1 .. c
      BY <1>2
    <3>4. rest = Tail(plain)
      BY <2>1
    <3>. HIDE DEF rest
    <3>5. \A k \in 1 .. Len(rest) : k + 1 \in 1 .. c /\ rest[k] = plain[k + 1]
      BY <3>1, <3>3, <3>4
    <3>6. \A j, k \in 1 .. Len(rest) : rest[j] = rest[k] => j + 1 = k + 1
      BY <1>5, <3>5
    <3>7. \A j, k \in 1 .. Len(rest) : j + 1 = k + 1 => j = k
      BY <3>1, <3>2, <3>4
    <3>. QED BY <1>4, <3>1, <3>2, <3>4, <3>5, <3>6, <3>7
  <2>2. CASE ~skips
    <3>1. rest = plain
      BY <2>2
    <3>. HIDE DEF rest, skips
    <3>. QED BY <1>2, <1>3, <1>4, <1>5, <3>1
  <2>. QED BY <2>1, <2>2
<1>. HIDE DEF skips, rest
<1>7. v = << >> \/ v = <<Clobbered>> \o rest
  BY DEF ValuesVisited, rest, skips, plain, c
<1>8. ToSet(v) # {} /\ \A x : ToSet(v) # {x}
  <2>1. Cardinality(ToSet(v)) >= 2
    BY LoopsVisitTwo
  <2>2. Cardinality({}) = 0
    BY FS_EmptySet
  <2>3. \A x : Cardinality({x}) = 1
    BY FS_Singleton
  <2>. HIDE DEF v
  <2>4. PICK S : S = ToSet(v)
    OBVIOUS
  <2>5. S # {}
    BY <2>1, <2>2, <2>4
  <2>6. ASSUME NEW x, S = {x} PROVE FALSE
    <3>1. Cardinality(S) = 1
      BY <2>3, <2>6
    <3>. QED BY <2>1, <2>4, <3>1
  <2>. QED BY <2>4, <2>5, <2>6
<1>9. v # << >>
  BY <1>8 DEF ToSet
<1>. HIDE DEF v
<1>10. /\ v \in Seq(Int) /\ Len(v) = 1 + Len(rest) /\ v[1] = 0
       /\ \A k \in 2 .. Len(v) : k - 1 \in 1 .. Len(rest) /\ v[k] = rest[k - 1]
  <2>1. <<0>> \in Seq(Int) /\ Len(<<0>>) = 1 /\ <<0>>[1] = 0
    OBVIOUS
  <2>2. v = <<0>> \o rest
    BY <1>7, <1>9 DEF Clobbered
  <2>3. /\ v \in Seq(Int) /\ Len(v) = Len(<<0>>) + Len(rest)
        /\ \A k \in 1 .. Len(<<0>>) + Len(rest) :
             v[k] = IF k <= Len(<<0>>) THEN <<0>>[k] ELSE rest[k - Len(<<0>>)]
    BY <1>6, <2>1, <2>2, ConcatProperties
  <2>4. \A k \in 1 .. 1 + Len(rest) : v[k] = IF k <= 1 THEN <<0>>[k] ELSE rest[k - 1]
    BY <2>1, <2>3
  <2>5. v[1] = 0
    BY <1>6, <2>1, <2>4
  <2>. QED BY <1>6, <2>1, <2>3, <2>4, <2>5
<1>11. Len(v) \in Nat \ {0} /\ \A k \in 1 .. Len(v) : k = 1 \/ k \in 2 .. Len(v)
  BY <1>6, <1>10
<1>12. \A k \in 1 .. Len(v) : Multiple(v[k], m)
  <2>1. Multiple(0, m)
    BY <1>1, m * 0 = 0 DEF Multiple
  <2>. QED BY <1>6, <1>10, <1>11, <2>1
<1>13. \A j, k \in 1 .. Len(v) : j < k /\ v[j] = v[k] => v[k] = v[1]
  <2>. SUFFICES ASSUME NEW j \in 1 .. Len(v), NEW k \in 1 .. Len(v), j < k, v[j] = v[k], j # 1
                PROVE  FALSE
    OBVIOUS
  <2>1. j \in 2 .. Len(v) /\ k \in 2 .. Len(v) /\ j - 1 # k - 1
    BY <1>11
  <2>2. /\ j - 1 \in 1 .. Len(rest) /\ v[j] = rest[j - 1]
        /\ k - 1 \in 1 .. Len(rest) /\ v[k] = rest[k - 1]
    BY <1>10, <2>1
  <2>3. rest[j - 1] = rest[k - 1]
    BY <2>2
  <2>4. \A a, b \in 1 .. Len(rest) : rest[a] = rest[b] => a = b
    BY <1>6
  <2>. QED BY <2>1, <2>2, <2>3, <2>4
<1>14. \E j \in 1 .. Len(v) : v[j] # v[1]
  <2>. SUFFICES ASSUME \A j \in 1 .. Len(v) : v[j] = v[1] PROVE FALSE
    OBVIOUS
  <2>1. DOMAIN v = 1 .. Len(v) /\ 1 \in 1 .. Len(v)
    BY <1>10, <1>11, LenProperties
  <2>2. ToSet(v) = {v[1]}
    BY <2>1 DEF ToSet
  <2>. QED BY <1>8, <2>2
<1>. QED BY <1>1, <1>10, <1>11, <1>12, <1>13, <1>14 DEF Visits, v

-----------------------------------------------------------------------------
(* How many measurements are made: the counters in each phase. *)

Effort ==
  LET plain == Len(LoopValues) * MeasuresPerBody
  IN /\ loop \in Loops /\ iteration_multiplier \in Factors
     /\ position \in 1 .. Len(LoopValues) /\ measured \in 0 .. MeasuresPerBody - 1
     /\ registered_measurements \in Nat /\ autorefining \in BOOLEAN
     /\ pc \in {"loop", "between", "body", "done"}
     /\ pc = "loop" => /\ ~autorefining
                       /\ registered_measurements = (position - 1) * MeasuresPerBody + measured
     /\ pc # "loop" /\ ~autorefining =>
          pc = "between" /\ measured = 0 /\ registered_measurements = plain
     /\ autorefining => regular_measurements = plain
     /\ autorefining /\ pc # "body" =>
          /\ measured = 0
          /\ registered_measurements <= imax2(plain, plain * iteration_multiplier + MeasuresPerBody - 1)
     /\ autorefining /\ pc = "body" =>
          registered_measurements - measured < plain * iteration_multiplier

LEMMA Sizes ==
  ASSUME loop \in Loops, iteration_multiplier \in Factors
  PROVE  /\ LoopValues \in Seq(Int) /\ Len(LoopValues) \in Nat \ {0}
         /\ MeasuresPerBody \in Nat \ {0} /\ iteration_multiplier \in Nat
         /\ Len(LoopValues) * MeasuresPerBody \in Nat
         /\ (Len(LoopValues) * MeasuresPerBody) * iteration_multiplier \in Nat
         /\ MeasuresPerBody - 1 \in Nat
<1>1. LoopValues \in Seq(Int) /\ Len(LoopValues) \in Nat \ {0}
  BY Values DEF LoopValues, Visits
<1>2. MeasuresPerBody \in Nat \ {0} /\ iteration_multiplier \in Nat
  BY SizesNatural
<1>3. \A a, b \in Nat : a * b \in Nat
  OBVIOUS
<1>4. Len(LoopValues) * MeasuresPerBody \in Nat
  BY <1>1, <1>2, <1>3
<1>5. (Len(LoopValues) * MeasuresPerBody) * iteration_multiplier \in Nat
  BY <1>2, <1>3, <1>4
<1>. QED BY <1>1, <1>2, <1>4, <1>5

LEMMA EffortInit == Init => Effort
<1>. SUFFICES ASSUME Init PROVE Effort
  OBVIOUS
<1>1. /\ loop \in Loops /\ iteration_multiplier \in Factors /\ pc = "loop" /\ position = 1
      /\ measured = 0 /\ autorefining = FALSE /\ registered_measurements = 0
  BY DEF Init
<1>2. /\ Len(LoopValues) \in Nat \ {0} /\ MeasuresPerBody \in Nat \ {0} /\ MeasuresPerBody - 1 \in Nat
  BY <1>1, Sizes
<1>3. (1 - 1) * MeasuresPerBody + 0 = 0
  BY <1>2
<1>4. registered_measurements = (position - 1) * MeasuresPerBody + measured
  BY <1>1, <1>3
<1>5. position \in 1 .. Len(LoopValues)
  BY <1>1, <1>2
<1>6. measured \in 0 .. MeasuresPerBody - 1
  BY <1>1, <1>2
<1>. HIDE DEF Init
<1>7. registered_measurements \in Nat
  BY <1>1
<1>. QED BY <1>1, <1>4, <1>5, <1>6, <1>7 DEF Effort

LEMMA EffortStep == Effort /\ [Next]_vars => Effort'
<1>. SUFFICES ASSUME Effort, [Next]_vars PROVE Effort'
  OBVIOUS
<1>. DEFINE L == Len(LoopValues)
            M == MeasuresPerBody
            plain == L * M
            most == plain * iteration_multiplier
<1>0. /\ loop \in Loops /\ iteration_multiplier \in Factors
      /\ position \in 1 .. L /\ measured \in 0 .. M - 1
      /\ registered_measurements \in Nat /\ autorefining \in BOOLEAN
      /\ pc \in {"loop", "between", "body", "done"}
      /\ pc = "loop" => /\ ~autorefining
                        /\ registered_measurements = (position - 1) * M + measured
      /\ pc # "loop" /\ ~autorefining =>
           pc = "between" /\ measured = 0 /\ registered_measurements = plain
      /\ autorefining => regular_measurements = plain
      /\ autorefining /\ pc # "body" =>
           measured = 0 /\ registered_measurements <= imax2(plain, most + M - 1)
      /\ autorefining /\ pc = "body" => registered_measurements - measured < most
  BY DEF Effort
<1>1. /\ L \in Nat \ {0} /\ M \in Nat \ {0} /\ plain \in Nat /\ most \in Nat /\ M - 1 \in Nat
  BY <1>0, Sizes
<1>2. \A a, b \in Nat : a <= imax2(a, b) /\ b <= imax2(a, b) /\ imax2(a, b) \in Nat
  BY DEF imax2
<1>3. most + M - 1 \in Nat /\ plain <= imax2(plain, most + M - 1)
      /\ most + M - 1 <= imax2(plain, most + M - 1) /\ imax2(plain, most + M - 1) \in Nat
  <2>1. most + M - 1 \in Nat
    <3>. HIDE DEF most, M
    <3>. QED BY <1>1
  <2>. HIDE DEF most, plain, M
  <2>. QED BY <1>1, <1>2, <2>1
<1>4. ASSUME loop' = loop, iteration_multiplier' = iteration_multiplier
      PROVE  LoopValues' = LoopValues /\ L' = L /\ plain' = plain /\ most' = most
  BY <1>4 DEF LoopValues
<1>. HIDE DEF most, plain, L
<1>5. CASE RegisterRegular
  <2>1. /\ pc = "loop" /\ ~autorefining /\ registered_measurements' = registered_measurements + 1
        /\ loop' = loop /\ iteration_multiplier' = iteration_multiplier
        /\ autorefining' = autorefining
    BY <1>5 DEF RegisterRegular
  <2>2. /\ IF measured + 1 < M THEN measured' = measured + 1 /\ pc' = pc
           ELSE measured' = 0 /\ pc' = IF position = L THEN "between" ELSE "loop"
        /\ IF measured + 1 = M /\ position < L THEN position' = position + 1 ELSE position' = position
    BY <1>5 DEF RegisterRegular, Measured, L
  <2>3. L' = L /\ plain' = plain /\ most' = most
    BY <1>4, <2>1
  <2>4. position \in Int /\ measured \in Int /\ (position - 1) * M \in Int
        /\ position * M = (position - 1) * M + M /\ (position + 1) - 1 = position
    <3>1. position \in Int /\ measured \in Int
      BY <1>0, <1>1
    <3>. QED BY <1>1, <3>1
  <2>5. registered_measurements = (position - 1) * M + measured
    BY <1>0, <2>1
  <2>6. CASE measured + 1 < M
    <3>1. measured' = measured + 1 /\ pc' = "loop" /\ position' = position
      BY <1>1, <2>1, <2>2, <2>6
    <3>2. registered_measurements' = (position - 1) * M + (measured + 1)
      <4>. DEFINE z == (position - 1) * M
      <4>. HIDE DEF z
      <4>. QED BY <2>1, <2>4, <2>5 DEF z
    <3>3. measured + 1 \in 0 .. M - 1 /\ registered_measurements' \in Nat
      BY <1>0, <1>1, <2>1, <2>6
    <3>. QED BY <1>0, <2>1, <2>3, <3>1, <3>2, <3>3 DEF Effort, L
  <2>7. CASE ~(measured + 1 < M)
    <3>1. measured + 1 = M /\ measured' = 0
      BY <1>0, <1>1, <2>2, <2>7
    <3>2. registered_measurements' = position * M /\ registered_measurements' \in Nat
      <4>. DEFINE z == (position - 1) * M
      <4>1. z \in Int /\ position * M = z + M /\ registered_measurements = z + measured
        BY <2>4, <2>5
      <4>. HIDE DEF z
      <4>2. registered_measurements' = z + M
        BY <1>1, <2>1, <2>4, <3>1, <4>1
      <4>. QED BY <1>0, <2>1, <4>1, <4>2
    <3>3. CASE position = L
      <4>1. pc' = "between" /\ position' = position /\ registered_measurements' = plain
        BY <1>0, <1>1, <2>2, <2>7, <3>1, <3>2, <3>3 DEF plain
      <4>. QED BY <1>0, <1>1, <2>1, <2>3, <3>1, <3>2, <4>1 DEF Effort, L, plain
    <3>4. CASE position # L
      <4>1. pc' = "loop" /\ position' = position + 1 /\ position + 1 \in 1 .. L
        BY <1>0, <1>1, <2>2, <2>7, <3>1, <3>4
      <4>2. registered_measurements' = (position' - 1) * M + 0
        <5>1. position' - 1 = position
          BY <2>4, <4>1
        <5>2. position * M \in Int /\ position * M + 0 = position * M
          BY <1>1, <2>4
        <5>. QED BY <3>2, <5>1, <5>2
      <4>. QED BY <1>0, <1>1, <2>1, <2>3, <3>1, <3>2, <4>1, <4>2 DEF Effort, L
    <3>. QED BY <3>3, <3>4
  <2>. QED BY <2>6, <2>7
<1>6. CASE SetNewLoopValues
  <2>. DEFINE R == RegularMeasurements
  <2>1. /\ pc = "between" /\ autorefining' = TRUE /\ regular_measurements' = R
        /\ loop' = loop /\ iteration_multiplier' = iteration_multiplier
        /\ position' = position /\ measured' = measured
        /\ registered_measurements' = registered_measurements
        /\ pc' = "done" \/ (pc' = "body" /\ registered_measurements < R * iteration_multiplier)
                        \/ pc' = "done"
    BY <1>6 DEF SetNewLoopValues
  <2>2. L' = L /\ plain' = plain /\ most' = most
    BY <1>4, <2>1
  <2>3. R = plain /\ measured = 0 /\ registered_measurements <= imax2(plain, most + M - 1)
    <3>1. CASE autorefining
      BY <1>0, <2>1, <3>1 DEF RegularMeasurements
    <3>2. CASE ~autorefining
      BY <1>0, <1>3, <2>1, <3>2 DEF RegularMeasurements
    <3>. QED BY <3>1, <3>2
  <2>. HIDE DEF R
  <2>4. CASE pc' = "done"
    BY <1>0, <2>1, <2>2, <2>3, <2>4 DEF Effort, L, plain, most
  <2>5. CASE pc' = "body" /\ registered_measurements < R * iteration_multiplier
    <3>1. registered_measurements - measured < most
      BY <1>0, <2>3, <2>5 DEF most
    <3>. QED BY <1>0, <2>1, <2>2, <2>3, <2>5, <3>1 DEF Effort, L, plain, most
  <2>. QED BY <2>1, <2>4, <2>5
<1>7. CASE RegisterRefined
  <2>1. /\ pc = "body" /\ registered_measurements' = registered_measurements + 1
        /\ loop' = loop /\ iteration_multiplier' = iteration_multiplier /\ position' = position
        /\ autorefining' = autorefining /\ regular_measurements' = regular_measurements
        /\ IF measured + 1 < M THEN measured' = measured + 1 /\ pc' = pc
           ELSE measured' = 0 /\ pc' = "between"
    BY <1>7 DEF RegisterRefined, Measured
  <2>2. L' = L /\ plain' = plain /\ most' = most
    BY <1>4, <2>1
  <2>3. autorefining /\ registered_measurements - measured < most /\ regular_measurements = plain
    BY <1>0, <2>1
  <2>4. CASE measured + 1 < M
    <3>1. /\ measured' \in 0 .. M - 1 /\ registered_measurements' \in Nat
          /\ registered_measurements' - measured' < most
      BY <1>0, <1>1, <2>1, <2>3, <2>4
    <3>. QED BY <1>0, <2>1, <2>2, <2>3, <2>4, <3>1 DEF Effort, L, plain, most
  <2>5. CASE ~(measured + 1 < M)
    <3>1. registered_measurements' <= most + M - 1 /\ registered_measurements' \in Nat
      BY <1>0, <1>1, <2>1, <2>3, <2>5
    <3>2. registered_measurements' <= imax2(plain, most + M - 1)
      BY <1>3, <3>1
    <3>. QED BY <1>0, <1>1, <2>1, <2>2, <2>3, <2>5, <3>1, <3>2 DEF Effort, L, plain, most
  <2>. QED BY <2>4, <2>5
<1>8. CASE UNCHANGED vars
  BY <1>8 DEF Effort, vars, lists, counts, LoopValues
<1>. QED BY <1>5, <1>6, <1>7, <1>8 DEF Next, Terminated

\* Refining ends after iteration_multiplier times the measurements of the plain
\* loop and the pass through the body that reaches them, whatever the lists hold:
\* set_new_loop_values compares the two counters.
THEOREM EffortBounded == Spec => []BoundedEffort
<1>1. Effort => BoundedEffort
  <2>. SUFFICES ASSUME Effort PROVE BoundedEffort
    OBVIOUS
  <2>. DEFINE L == Len(LoopValues)
              M == MeasuresPerBody
              plain == L * M
              most == plain * iteration_multiplier
  <2>0. /\ loop \in Loops /\ iteration_multiplier \in Factors
        /\ position \in 1 .. L /\ measured \in 0 .. M - 1
        /\ registered_measurements \in Nat /\ autorefining \in BOOLEAN
        /\ pc \in {"loop", "between", "body", "done"}
        /\ pc = "loop" => /\ ~autorefining
                          /\ registered_measurements = (position - 1) * M + measured
        /\ pc # "loop" /\ ~autorefining => registered_measurements = plain
        /\ autorefining /\ pc # "body" => registered_measurements <= imax2(plain, most + M - 1)
        /\ autorefining /\ pc = "body" => registered_measurements - measured < most
    BY DEF Effort
  <2>1. /\ L \in Nat \ {0} /\ M \in Nat \ {0} /\ plain \in Nat /\ most \in Nat /\ M - 1 \in Nat
    BY <2>0, Sizes
  <2>2. most + M - 1 \in Nat
    <3>. HIDE DEF most
    <3>. QED BY <2>1
  <2>3. plain <= imax2(plain, most + M - 1) /\ most + M - 1 <= imax2(plain, most + M - 1)
        /\ imax2(plain, most + M - 1) \in Nat
    <3>1. \A a, b \in Nat : a <= imax2(a, b) /\ b <= imax2(a, b) /\ imax2(a, b) \in Nat
      BY DEF imax2
    <3>. HIDE DEF plain, most
    <3>. QED BY <2>1, <2>2, <3>1
  <2>4. registered_measurements <= imax2(plain, most + M - 1)
    <3>1. CASE pc = "loop"
      <4>1. (position - 1) * M + M = position * M /\ position * M <= plain /\ (position - 1) * M \in Int
        <5>1. position \in Int /\ position <= L
          BY <2>0, <2>1
        <5>. QED BY <2>1, <5>1
      <4>. DEFINE z == (position - 1) * M
      <4>2. registered_measurements = z + measured /\ z + M <= plain /\ z \in Int
        BY <2>0, <3>1, <4>1
      <4>. HIDE DEF z, plain, most
      <4>. QED BY <2>0, <2>1, <2>2, <2>3, <4>2
    <3>2. CASE pc # "loop" /\ ~autorefining
      BY <2>0, <2>3, <3>2
    <3>3. CASE autorefining /\ pc = "body"
      <4>. HIDE DEF plain, most
      <4>. QED BY <2>0, <2>1, <2>2, <2>3, <3>3
    <3>4. CASE autorefining /\ pc # "body"
      BY <2>0, <3>4
    <3>. QED BY <2>0, <3>1, <3>2, <3>3, <3>4
  <2>. QED BY <2>4 DEF BoundedEffort
<1>2. Spec => []Effort
  BY EffortInit, EffortStep, PTL DEF Spec
<1>. QED BY <1>1, <1>2, PTL

-----------------------------------------------------------------------------
(* The lists through the whole loop, with one measurement in its body.  With  *)
(* more of them the second measurement of a refining pass is registered for   *)
(* the top of a queue that has changed already.                               *)

Visited(n) == {LoopValues[j] : j \in 1 .. n}

PlainLoop(n) ==
  /\ position \in 1 .. Len(LoopValues)
  /\ Plain(Lists) /\ Recorded(Lists, 1 .. Len(results), history)
  /\ DOMAIN history = Visited(n)
  /\ Len(node) # 0 => node[1].i = LoopValues[1]

Invariant ==
  /\ loop \in Loops /\ iteration_multiplier \in Factors /\ measured = 0
  /\ autorefining \in BOOLEAN /\ pc \in {"loop", "between", "body", "done"}
  /\ ~autorefining /\ pc = "loop" => PlainLoop(position - 1) /\ loopvar = LoopValues[position]
  /\ ~autorefining /\ pc # "loop" => PlainLoop(Len(LoopValues)) /\ pc = "between"
  /\ autorefining => Refining(Lists, Len(results) - 1, {}, history) /\ pc # "loop"
  /\ pc = "body" => candidates # << >> /\ loopvar = node[Head(candidates)].i

ListSet == [node : Seq(Nodes), results : Seq(Nat), candidates : Seq(Nat), multipleof : Nat \ {0}]

LEMMA Whole ==
  ASSUME NEW t, t \in ListSet, t.multipleof = loop.multipleof, loop' = loop,
         node' = t.node, results' = t.results, candidates' = t.candidates
  PROVE  Lists' = t
<1>1. Lists' = [node |-> t.node, results |-> t.results, candidates |-> t.candidates,
                multipleof |-> t.multipleof]
  BY DEF Lists
<1>2. t = [node |-> t.node, results |-> t.results, candidates |-> t.candidates,
           multipleof |-> t.multipleof]
  BY DEF ListSet
<1>. QED BY <1>1, <1>2

LEMMA Fields ==
  /\ Lists.node = node /\ Lists.results = results /\ Lists.candidates = candidates
  /\ Lists.multipleof = loop.multipleof
BY DEF Lists

LEMMA InvariantInit == Init => Invariant
<1>. SUFFICES ASSUME Init PROVE Invariant
  OBVIOUS
<1>1. /\ loop \in Loops /\ iteration_multiplier \in Factors /\ pc = "loop" /\ position = 1
      /\ measured = 0 /\ loopvar = LoopValues[1] /\ autorefining = FALSE
      /\ node = << >> /\ results = << >> /\ candidates = << >> /\ history = << >>
  BY DEF Init
<1>2. Visits(LoopValues, loop.multipleof) /\ loop.multipleof \in Nat \ {0}
  BY <1>1, Values DEF LoopValues
<1>3. Lists \in ListSet
  BY <1>1, <1>2 DEF Lists, ListSet
<1>4. Len(results) = 0 /\ Len(node) = 0 /\ DOMAIN results = {} /\ DOMAIN history = {}
  BY <1>1
<1>. HIDE DEF Init
<1>5. ListType(Lists)
  BY <1>1, <1>3, <1>4, Fields DEF ListType, ListSet, IsInjective
<1>6. ToSet(Lists.results) = 1 .. Len(Lists.node)
  BY <1>4, Fields DEF ToSet
<1>7. Plain(Lists)
  BY <1>1, <1>4, <1>5, <1>6, Fields DEF Plain, Multiples
<1>8. Recorded(Lists, 1 .. Len(results), history)
  BY <1>4 DEF Recorded
<1>9. position \in 1 .. Len(LoopValues) /\ Visited(position - 1) = {}
  BY <1>1, <1>2 DEF Visits, Visited
<1>10. PlainLoop(position - 1)
  BY <1>4, <1>7, <1>8, <1>9 DEF PlainLoop
<1>. QED BY <1>1, <1>10 DEF Invariant

LEMMA KeptByRegular ==
  ASSUME MeasuresPerBody = 1, Invariant, RegisterRegular
  PROVE  Invariant'
<1>. DEFINE n == position - 1
<1>0. /\ loop \in Loops /\ iteration_multiplier \in Factors /\ measured = 0
      /\ pc = "loop" /\ ~autorefining /\ PlainLoop(n) /\ loopvar = LoopValues[position]
  BY DEF Invariant, RegisterRegular
<1>1. PICK result \in Results :
        /\ Become([insert_element(Lists, loopvar).s EXCEPT
                     !.node[insert_element(Lists, loopvar).id].result = result])
        /\ Remember(result)
  BY DEF RegisterRegular
<1>2. /\ loop' = loop /\ iteration_multiplier' = iteration_multiplier
      /\ autorefining' = autorefining
      /\ Measured(IF position = Len(LoopValues) THEN "between" ELSE "loop")
      /\ IF measured + 1 = MeasuresPerBody /\ position < Len(LoopValues)
         THEN position' = position + 1 /\ loopvar' = LoopValues[position + 1]
         ELSE position' = position /\ loopvar' = loopvar
  BY DEF RegisterRegular
<1>3. LoopValues' = LoopValues /\ measured' = 0
      /\ pc' = IF position = Len(LoopValues) THEN "between" ELSE "loop"
  BY <1>0, <1>2 DEF LoopValues, Measured
<1>4. Visits(LoopValues, loop.multipleof) /\ loop.multipleof \in Nat \ {0}
  BY <1>0, Values DEF LoopValues
<1>5. position \in 1 .. Len(LoopValues) /\ position \in Int /\ Len(LoopValues) \in Nat
  BY <1>0, <1>4 DEF PlainLoop, Visits
<1>6. PICK el : el = insert_element(Lists, loopvar)
  OBVIOUS
<1>7. PICK t : t = [el.s EXCEPT !.node[el.id].result = result]
  OBVIOUS
<1>8. node' = t.node /\ results' = t.results /\ candidates' = t.candidates
  BY <1>1, <1>6, <1>7 DEF Become
<1>9. PICK h2 : h2 = Remembering(history, loopvar, result)
  OBVIOUS
<1>10. history' = h2 /\ DOMAIN h2 = {loopvar} \cup DOMAIN history
  BY <1>1, <1>9 DEF Remember, Remembering
<1>11. loopvar \in Int /\ Multiple(loopvar, loop.multipleof)
  BY <1>0, <1>4, <1>5 DEF Visits
<1>12. loopvar \in DOMAIN history => loopvar = node[1].i
  <2>. SUFFICES ASSUME loopvar \in DOMAIN history PROVE loopvar = node[1].i
    OBVIOUS
  <2>1. PICK j \in 1 .. n : loopvar = LoopValues[j]
    BY <1>0 DEF PlainLoop, Visited
  <2>2. j < position /\ j \in 1 .. Len(LoopValues)
    BY <1>5, <2>1
  <2>3. loopvar = LoopValues[1]
    BY <1>0, <1>4, <1>5, <2>1, <2>2 DEF Visits
  <2>4. PICK k \in 1 .. Len(results) : Value(Lists, k) = loopvar
    BY <1>0 DEF PlainLoop, Recorded
  <2>5. Lists.results[k] \in 1 .. Len(node)
    BY <1>0, <2>4, Fields DEF PlainLoop, Plain, ListType
  <2>6. Len(node) # 0
    BY <2>5
  <2>. QED BY <1>0, <2>3, <2>6 DEF PlainLoop
<1>13. RegisteredAt(Lists, t, loopvar, h2)
  <2>1. Plain(Lists) /\ Recorded(Lists, 1 .. Len(Lists.results), history)
    BY <1>0, Fields DEF PlainLoop
  <2>. QED BY <1>4, <1>6, <1>7, <1>9, <1>11, <1>12, <2>1, Fields, RegularRegistered
<1>14. t \in ListSet /\ t.multipleof = loop.multipleof
  BY <1>13, Fields DEF RegisteredAt, Plain, ListType, ListSet
<1>15. Lists' = t
  BY <1>2, <1>8, <1>14, Whole
<1>16. /\ Plain(t) /\ Recorded(t, 1 .. Len(t.results), h2)
       /\ t.node[1].i = IF Len(node) = 0 THEN loopvar ELSE node[1].i
  BY <1>13, Fields DEF RegisteredAt
<1>17. Plain(Lists') /\ Recorded(Lists', 1 .. Len(results'), history')
  BY <1>8, <1>10, <1>15, <1>16
<1>18. Len(node) = 0 => position = 1
  <2>. SUFFICES ASSUME Len(node) = 0, position # 1 PROVE FALSE
    OBVIOUS
  <2>1. LoopValues[1] \in DOMAIN history
    BY <1>0, <1>5 DEF PlainLoop, Visited
  <2>2. PICK k \in 1 .. Len(results) : Value(Lists, k) = LoopValues[1]
    BY <1>0, <2>1 DEF PlainLoop, Recorded
  <2>3. Lists.results[k] \in 1 .. Len(node)
    BY <1>0, <2>2, Fields DEF PlainLoop, Plain, ListType
  <2>. QED BY <2>3
<1>19. node'[1].i = LoopValues'[1]
  BY <1>0, <1>3, <1>8, <1>16, <1>18 DEF PlainLoop
<1>20. Visited(position) = Visited(n) \cup {loopvar}
  <2>1. 1 .. position = (1 .. n) \cup {position}
    BY <1>5
  <2>. QED BY <1>0, <2>1 DEF Visited
<1>21. DOMAIN history' = {LoopValues'[j] : j \in 1 .. position}
  BY <1>0, <1>3, <1>10, <1>20 DEF PlainLoop, Visited
<1>22. CASE position = Len(LoopValues)
  <2>1. pc' = "between" /\ position' = position /\ Len(LoopValues)' = position
    BY <1>2, <1>3, <1>22
  <2>2. PlainLoop(Len(LoopValues))'
    BY <1>5, <1>3, <1>17, <1>19, <1>21, <2>1 DEF PlainLoop, Visited
  <2>. QED BY <1>0, <1>2, <1>3, <2>1, <2>2 DEF Invariant
<1>23. CASE position # Len(LoopValues)
  <2>1. pc' = "loop" /\ position' = position + 1 /\ loopvar' = LoopValues'[position']
    BY <1>0, <1>2, <1>3, <1>5, <1>23
  <2>2. position' \in 1 .. Len(LoopValues') /\ position' - 1 = position
    BY <1>3, <1>5, <1>23, <2>1
  <2>3. PlainLoop(position - 1)'
    BY <1>17, <1>19, <1>21, <2>2 DEF PlainLoop, Visited
  <2>. QED BY <1>0, <1>2, <1>3, <2>1, <2>3 DEF Invariant
<1>. QED BY <1>22, <1>23

LEMMA KeptByNewValues ==
  ASSUME MeasuresPerBody = 1, Invariant, SetNewLoopValues
  PROVE  Invariant'
<1>0. /\ loop \in Loops /\ iteration_multiplier \in Factors /\ measured = 0 /\ pc = "between"
      /\ autorefining \in BOOLEAN
  BY DEF Invariant, SetNewLoopValues
<1>1. PICK s : s = IF autorefining THEN Lists ELSE init_candidates(Lists)
  OBVIOUS
<1>2. /\ node' = s.node /\ results' = s.results /\ candidates' = s.candidates
      /\ loop' = loop /\ iteration_multiplier' = iteration_multiplier
      /\ measured' = measured /\ autorefining' = TRUE /\ history' = history
      /\ \/ pc' = "done"
         \/ pc' = "body" /\ s.candidates # << >> /\ loopvar' = s.node[Head(s.candidates)].i
  BY <1>1 DEF SetNewLoopValues, Become
<1>3. Visits(LoopValues, loop.multipleof) /\ loop.multipleof \in Nat \ {0}
  BY <1>0, Values DEF LoopValues
<1>4. Refining(s, Len(s.results) - 1, {}, history) /\ s.multipleof = loop.multipleof
  <2>1. CASE autorefining
    BY <1>0, <1>1, <2>1, Fields DEF Invariant
  <2>2. CASE ~autorefining
    <3>1. /\ Plain(Lists) /\ Recorded(Lists, 1 .. Len(Lists.results), history)
          /\ DOMAIN history = Visited(Len(LoopValues))
      BY <1>0, <2>2, Fields DEF Invariant, PlainLoop
    <3>2. PICK j \in 1 .. Len(LoopValues) : LoopValues[j] # LoopValues[1]
      BY <1>3 DEF Visits
    <3>3. LoopValues[j] \in DOMAIN history /\ LoopValues[1] \in DOMAIN history
      BY <1>3, <3>1, <3>2 DEF Visited, Visits
    <3>4. PICK a \in 1 .. Len(Lists.results), b \in 1 .. Len(Lists.results) :
            Value(Lists, a) = LoopValues[j] /\ Value(Lists, b) = LoopValues[1]
      BY <3>1, <3>3 DEF Recorded
    <3>5. a # b
      BY <3>2, <3>4
    <3>6. Len(Lists.results) \in Nat
      BY <3>1, AtType DEF Plain
    <3>7. Len(Lists.results) >= 2
      BY <3>5, <3>6
    <3>. QED BY <1>1, <2>2, <3>1, <3>7, Initialised, Fields
  <2>. QED BY <1>0, <2>1, <2>2
<1>5. s \in ListSet
  BY <1>4 DEF Refining, Chain, ListType, ListSet
<1>6. Lists' = s
  BY <1>2, <1>4, <1>5, Whole
<1>7. Refining(Lists, Len(results) - 1, {}, history)'
  BY <1>2, <1>4, <1>6
<1>8. pc' = "body" => candidates' # << >> /\ loopvar' = node'[Head(candidates')].i
  BY <1>2
<1>. QED BY <1>0, <1>2, <1>7, <1>8 DEF Invariant

LEMMA KeptByRefined ==
  ASSUME MeasuresPerBody = 1, Invariant, RegisterRefined
  PROVE  Invariant'
<1>0. /\ loop \in Loops /\ iteration_multiplier \in Factors /\ measured = 0 /\ pc = "body"
      /\ autorefining \in BOOLEAN
      /\ candidates # << >> /\ loopvar = node[Head(candidates)].i
  BY DEF Invariant, RegisterRefined
<1>1. autorefining /\ Refining(Lists, Len(Lists.results) - 1, {}, history)
  BY <1>0, Fields DEF Invariant
<1>2. PICK result \in Results : Become(register_refined(Lists, result)) /\ Remember(result)
  BY DEF RegisterRefined
<1>3. PICK t : t = register_refined(Lists, result)
  OBVIOUS
<1>4. PICK h2 : h2 = Remembering(history, loopvar, result)
  OBVIOUS
<1>5. /\ node' = t.node /\ results' = t.results /\ candidates' = t.candidates /\ history' = h2
      /\ loop' = loop /\ iteration_multiplier' = iteration_multiplier
      /\ autorefining' = autorefining /\ measured' = 0 /\ pc' = "between"
  BY <1>0, <1>2, <1>3, <1>4 DEF RegisterRefined, Become, Remember, Remembering, Measured
<1>6. Refining(t, Len(t.results) - 1, {}, h2) /\ t.multipleof = loop.multipleof
  <2>1. Lists.candidates # << >> /\ loopvar = Lists.node[Head(Lists.candidates)].i
    BY <1>0, Fields
  <2>2. PICK s : s = Lists
    OBVIOUS
  <2>3. /\ Refining(s, Len(s.results) - 1, {}, history) /\ s.candidates # << >>
        /\ t = register_refined(s, result)
        /\ h2 = Remembering(history, s.node[Head(s.candidates)].i, result)
    BY <1>1, <1>3, <1>4, <2>1, <2>2
  <2>4. Refining(t, Len(t.results) - 1, {}, h2) /\ t.multipleof = s.multipleof
    BY <2>3, Registered
  <2>. QED BY <2>2, <2>4, Fields
<1>7. t \in ListSet
  BY <1>6 DEF Refining, Chain, ListType, ListSet
<1>8. Lists' = t
  BY <1>5, <1>6, <1>7, Whole
<1>9. Refining(Lists, Len(results) - 1, {}, history)'
  BY <1>5, <1>6, <1>8
<1>. QED BY <1>0, <1>1, <1>5, <1>9 DEF Invariant

LEMMA InvariantStep ==
  ASSUME MeasuresPerBody = 1, Invariant, [Next]_vars
  PROVE  Invariant'
<1>1. CASE UNCHANGED vars
  <2>1. Lists' = Lists /\ LoopValues' = LoopValues
    BY <1>1 DEF vars, lists, Lists, LoopValues
  <2>2. Invariant' <=> Invariant
    BY <1>1, <2>1 DEF vars, lists, counts, Invariant, PlainLoop, Visited
  <2>. QED BY <2>2
<1>. QED BY <1>1, KeptByRegular, KeptByNewValues, KeptByRefined DEF Next, Terminated

\* The list, the queue and the weights agree after every measurement, although one
\* result changes up to four weights and splits a gap that has a candidate.
THEOREM ListsStayConsistent ==
  ASSUME MeasuresPerBody = 1
  PROVE  Spec => []ListsConsistent
<1>1. Invariant => ListsConsistent
  <2>. SUFFICES ASSUME Invariant PROVE ListsConsistent
    OBVIOUS
  <2>0. autorefining \in BOOLEAN
    BY DEF Invariant
  <2>1. CASE autorefining
    <3>1. Chain(Lists, Len(results) - 1) /\ Fresh(Lists, {})
      BY <2>1 DEF Invariant, Refining
    <3>2. SortedByValue
      BY <2>1, <3>1, Fields DEF Chain, Sorted, Value, At, SortedByValue, Inner
    <3>3. QueueHoldsCandidates
      BY <3>1, Fields DEF Chain, Queued, CandidateIds, QueueHoldsCandidates
    <3>4. WeightsFresh
      BY <3>1, Fields DEF Fresh, Cand, WeightsFresh
    <3>. QED BY <3>2, <3>3, <3>4 DEF ListsConsistent
  <2>2. CASE ~autorefining
    <3>1. Plain(Lists)
      BY <2>2 DEF Invariant, PlainLoop
    <3>2. SortedByValue
      BY <2>2, <3>1, Fields DEF Plain, Value, At, SortedByValue, Inner
    <3>3. \A k \in 1 .. Len(results) : ~node[results[k]].is_candidate
      BY <3>1, Fields DEF Plain, Cand, At
    <3>4. ToSet(results) = {results[k] : k \in 1 .. Len(results)}
      <4>1. results \in Seq(Nat)
        BY <3>1, Fields DEF Plain, ListType
      <4>. QED BY <4>1 DEF ToSet
    <3>5. QueueHoldsCandidates
      <4>1. candidates = << >>
        BY <3>1, Fields DEF Plain
      <4>2. {id \in ToSet(results) : node[id].is_candidate} = {}
        BY <3>3, <3>4
      <4>. QED BY <4>1, <4>2 DEF QueueHoldsCandidates, IsInjective, ToSet
    <3>6. WeightsFresh
      BY <3>1, Fields DEF Plain, Cand, WeightsFresh
    <3>. QED BY <3>2, <3>5, <3>6 DEF ListsConsistent
  <2>. QED BY <2>0, <2>1, <2>2
<1>2. Spec => []Invariant
  BY InvariantInit, InvariantStep, PTL DEF Spec
<1>. QED BY <1>1, <1>2, PTL

\* No result is lost or put at another value when the list is searched from its
\* first node, when guards are put around it, or when a candidate becomes a result.
THEOREM ResultsStay ==
  ASSUME MeasuresPerBody = 1
  PROVE  Spec => []ResultsKept
<1>1. Invariant => ResultsKept
  <2>. SUFFICES ASSUME Invariant PROVE ResultsKept
    OBVIOUS
  <2>1. autorefining \in BOOLEAN
    BY DEF Invariant
  <2>2. Recorded(Lists, Inner, history)
    BY <2>1 DEF Invariant, PlainLoop, Refining, Inner
  <2>. QED BY <2>2 DEF Recorded, ResultsKept, Cand, Value
<1>2. Spec => []Invariant
  BY InvariantInit, InvariantStep, PTL DEF Spec
<1>. QED BY <1>1, <1>2, PTL

\* Refining cannot stop early: a gap is left without a candidate only if it is no
\* wider than multipleof.
THEOREM RangeExhausted ==
  ASSUME MeasuresPerBody = 1
  PROVE  Spec => []ExhaustsRange
<1>1. Invariant => ExhaustsRange
  <2>. SUFFICES ASSUME Invariant, autorefining, candidates = << >>,
                       NEW x \in node[results[1]].i .. node[results[Len(results)]].i,
                       x % loop.multipleof = 0
                PROVE  x \in DOMAIN history
    BY DEF ExhaustsRange
  <2>. DEFINE e == Len(results) - 1
              m == loop.multipleof
  <2>1. /\ Chain(Lists, e) /\ Guarded(Lists, e) /\ Tight(Lists, e, {})
        /\ Recorded(Lists, 2 .. e, history)
    BY DEF Invariant, Refining
  <2>2. ListType(Lists) /\ Len(results) \in Nat /\ Len(results) >= 3 /\ e >= 3 /\ m \in Nat \ {0}
        /\ Sorted(Lists, e) /\ Queued(Lists) /\ Multiples(Lists)
    BY <2>1, AtType, Fields DEF Chain, ListType
  <2>3. \A k \in 1 .. Len(results) : Value(Lists, k) \in Int /\ Multiple(Value(Lists, k), m)
    BY <2>2, AtType, Fields DEF Multiples
  <2>4. \A k \in 1 .. Len(results) : ~Cand(Lists, k)
    <3>. SUFFICES ASSUME NEW k \in 1 .. Len(results), Cand(Lists, k) PROVE FALSE
      OBVIOUS
    <3>1. results[k] \in ToSet(results)
      <4>1. results \in Seq(Nat)
        BY <2>2, Fields DEF ListType
      <4>. QED BY <4>1 DEF ToSet
    <3>2. results[k] \in ToSet(candidates)
      BY <2>2, <3>1, Fields DEF Queued, CandidateIds, Cand, At
    <3>. QED BY <3>2 DEF ToSet
  <2>5. Value(Lists, 2) <= x /\ x <= Value(Lists, e) /\ x \in Int
    <3>1. Value(Lists, 1) = node[results[1]].i /\ Value(Lists, Len(results)) = node[results[Len(results)]].i
      BY Fields DEF Value, At
    <3>2. Value(Lists, 1) = Value(Lists, 2) /\ Value(Lists, Len(results)) = Value(Lists, e)
      BY <2>1, Fields DEF Guarded
    <3>3. Value(Lists, 2) \in Int /\ Value(Lists, e) \in Int
      BY <2>2, <2>3
    <3>. QED BY <3>1, <3>2, <3>3
  <2>6. Multiple(x, m)
    BY <2>2, <2>5, MultipleMod
  <2>7. PICK j \in 2 .. e : Value(Lists, j) <= x /\ \A k \in 2 .. e : Value(Lists, k) <= x => k <= j
    <3>. DEFINE K == {k \in 2 .. e : Value(Lists, k) <= x}
    <3>1. K \in SUBSET Int /\ 2 \in K
      BY <2>2, <2>5
    <3>2. IsFiniteSet(K)
      <4>1. IsFiniteSet(2 .. e)
        BY <2>2, FS_Interval
      <4>. QED BY <4>1, FS_Subset
    <3>3. PICK j \in K : \A k \in K : j >= k
      <4>. HIDE DEF K
      <4>. QED BY <3>1, <3>2, GreatestElement
    <3>4. \A k \in 2 .. e : Value(Lists, k) <= x => k <= j
      BY <2>2, <3>1, <3>3
    <3>. QED BY <3>3, <3>4
  <2>8. Value(Lists, j) = x
    <3>1. CASE j = e
      BY <2>2, <2>3, <2>5, <2>7, <3>1
    <3>2. CASE j # e
      <4>1. j \in 2 .. e - 1 /\ j + 1 \in 2 .. e /\ j \in 1 .. Len(results) /\ j + 1 \in 1 .. Len(results)
        BY <2>2, <2>7, <3>2
      <4>2. Value(Lists, j + 1) > x /\ Value(Lists, j + 1) \in Int /\ Value(Lists, j) \in Int
        BY <2>3, <2>5, <2>7, <4>1
      <4>3. Value(Lists, j + 1) - Value(Lists, j) <= m
        BY <2>1, <2>4, <4>1, Fields DEF Tight
      <4>4. ASSUME Value(Lists, j) < x PROVE FALSE
        <5>1. Value(Lists, j) + m <= x
          BY <2>2, <2>3, <2>5, <2>6, <4>1, <4>2, <4>4, MultipleGap
        <5>2. x + m <= Value(Lists, j + 1)
          BY <2>2, <2>3, <2>5, <2>6, <4>1, <4>2, MultipleGap
        <5>. QED BY <2>2, <2>5, <4>2, <4>3, <5>1, <5>2
      <4>. QED BY <2>5, <2>7, <4>2, <4>4
    <3>. QED BY <3>1, <3>2
  <2>. QED BY <2>1, <2>2, <2>4, <2>7, <2>8 DEF Recorded
<1>2. Spec => []Invariant
  BY InvariantInit, InvariantStep, PTL DEF Spec
<1>. QED BY <1>1, <1>2, PTL
-----------------------------------------------------------------------------
(* The values that are refined. *)

\* x passes the test at the head of the loop.
Passes(l, x) == IF l.step > 0 THEN x <= l.last ELSE x >= l.last

\* Every value measured is between two values of the plain loop, or one of them.
Within ==
  \A x \in DOMAIN history : \E a, b \in 1 .. Len(LoopValues) :
    LoopValues[a] <= x /\ x <= LoopValues[b]

LEMMA PlainPasses ==
  ASSUME NEW l \in Loops, NEW j \in 1 .. Len(ValuesVisited(l))
  PROVE  ValuesVisited(l)[j] \in Int /\ l.last \in Int /\ Passes(l, ValuesVisited(l)[j])
<1>. DEFINE d == Abs(l.last - l.first)
            w == Abs(l.step)
            c == d \div w
            plain == [k \in 1 .. c |-> l.first + k * l.step]
            rest == IF plain # << >> /\ plain[1] = Clobbered THEN Tail(plain) ELSE plain
            v == ValuesVisited(l)
<1>1. /\ l.first \in Int /\ l.step \in Int /\ l.last \in Int /\ l.step # 0
      /\ (l.step > 0 <=> l.first < l.last)
  BY LoopsVisitMultiples
<1>2. Visits(v, l.multipleof)
  BY Values
<1>3. Passes(l, Clobbered) /\ v = <<Clobbered>> \o rest
  <2>1. v # << >>
    BY <1>2 DEF Visits
  <2>. QED BY <2>1 DEF ValuesVisited, Passes
<1>4. d \in Nat /\ w \in Nat \ {0} /\ c \in Nat /\ c * w <= d
  <2>1. d \in Nat /\ w \in Nat \ {0}
    BY <1>1 DEF Abs
  <2>2. \A x \in Nat, y \in Nat \ {0} : x \div y \in Nat /\ (x \div y) * y <= x
    OBVIOUS
  <2>. HIDE DEF d, w
  <2>. QED BY <2>1, <2>2
<1>5. ASSUME NEW k \in 1 .. c PROVE plain[k] \in Int /\ Passes(l, plain[k])
  <2>1. k \in Nat /\ k <= c /\ plain[k] = l.first + k * l.step
    BY <1>4
  <2>2. k * w \in Nat /\ k * w <= d
    <3>1. \A x, y, z \in Nat : x <= y => x * z \in Nat /\ x * z <= y * z
      OBVIOUS
    <3>2. k * w \in Nat /\ k * w <= c * w /\ c * w \in Nat
      <4>. HIDE DEF w, c
      <4>. QED BY <1>4, <2>1, <3>1
    <3>. HIDE DEF w, c, d
    <3>. QED BY <1>4, <3>2
  <2>3. CASE l.step > 0
    <3>1. w = l.step /\ d = l.last - l.first
      BY <1>1, <2>3 DEF Abs
    <3>2. k * l.step \in Int /\ k * l.step <= l.last - l.first
      <4>. HIDE DEF w, d
      <4>. QED BY <2>2, <3>1
    <3>3. l.first + k * l.step \in Int /\ l.first + k * l.step <= l.last
      <4>1. \A x \in Int : x <= l.last - l.first => l.first + x \in Int /\ l.first + x <= l.last
        BY <1>1
      <4>. QED BY <3>2, <4>1
    <3>. HIDE DEF plain, c
    <3>. QED BY <2>1, <2>3, <3>3 DEF Passes
  <2>4. CASE ~(l.step > 0)
    <3>1. w = -l.step /\ d = l.first - l.last
      BY <1>1, <2>4 DEF Abs
    <3>2. k * l.step \in Int /\ k * w = -(k * l.step)
      BY <1>1, <2>1, <3>1
    <3>3. -(k * l.step) <= l.first - l.last
      <4>. HIDE DEF w, d
      <4>. QED BY <2>2, <3>1, <3>2
    <3>4. l.first + k * l.step \in Int /\ l.first + k * l.step >= l.last
      <4>1. \A x \in Int : -x <= l.first - l.last => l.first + x \in Int /\ l.first + x >= l.last
        BY <1>1
      <4>. QED BY <3>2, <3>3, <4>1
    <3>. HIDE DEF plain, c
    <3>. QED BY <2>1, <2>4, <3>4 DEF Passes
  <2>. QED BY <2>3, <2>4
<1>6. ASSUME NEW k \in 1 .. Len(rest)
      PROVE  \E i \in 1 .. c : rest[k] = plain[i]
  <2>1. plain \in Seq(Int) /\ Len(plain) = c
    <3>1. \A k1 \in 1 .. c : plain[k1] \in Int
      BY <1>5
    <3>2. DOMAIN plain = 1 .. c /\ plain \in [1 .. c -> Int]
      BY <3>1
    <3>. HIDE DEF plain, c
    <3>. QED BY <1>4, <3>2
  <2>2. CASE plain # << >> /\ plain[1] = Clobbered
    <3>. HIDE DEF plain, c
    <3>1. rest = Tail(plain) /\ Len(rest) = c - 1 /\ rest[k] = plain[k + 1]
      BY <1>4, <1>6, <2>1, <2>2
    <3>. QED BY <1>4, <1>6, <3>1
  <2>3. CASE ~(plain # << >> /\ plain[1] = Clobbered)
    <3>. HIDE DEF plain, c
    <3>. QED BY <1>6, <2>1, <2>3
  <2>. QED BY <2>2, <2>3
<1>7. ASSUME NEW x \in 1 .. Len(v)
      PROVE  v[x] = Clobbered \/ \E k \in 1 .. Len(rest) : v[x] = rest[k]
  <2>1. rest \in Seq(Int)
    <3>1. \A k1 \in 1 .. c : plain[k1] \in Int
      BY <1>5
    <3>2. plain \in Seq(Int)
      <4>1. plain \in [1 .. c -> Int]
        BY <3>1
      <4>. HIDE DEF plain, c
      <4>. QED BY <1>4, <4>1
    <3>. HIDE DEF plain, c
    <3>. QED BY <3>2
  <2>2. <<Clobbered>> \in Seq(Int)
    BY DEF Clobbered
  <2>3. Len(rest) \in Nat /\ Len(v) = 1 + Len(rest) /\ v[x] = IF x = 1 THEN Clobbered ELSE rest[x - 1]
    <3>. HIDE DEF rest, v
    <3>1. Len(<<Clobbered>>) = 1 /\ <<Clobbered>>[1] = Clobbered
      OBVIOUS
    <3>2. /\ Len(v) = 1 + Len(rest)
          /\ \A i \in 1 .. 1 + Len(rest) : v[i] = IF i <= 1 THEN <<Clobbered>>[i] ELSE rest[i - 1]
      BY <1>3, <2>1, <2>2, <3>1, ConcatProperties
    <3>3. Len(rest) \in Nat
      BY <2>1, LenProperties
    <3>. QED BY <1>7, <3>1, <3>2, <3>3
  <2>. HIDE DEF rest, v
  <2>. QED BY <1>7, <2>3
<1>. HIDE DEF rest, plain, c, v
<1>8. v[j] \in Int /\ Passes(l, v[j])
  <2>1. j \in 1 .. Len(v)
    BY DEF v
  <2>2. CASE v[j] = Clobbered
    <3>1. Clobbered \in Int
      BY DEF Clobbered
    <3>. QED BY <1>3, <2>2, <3>1
  <2>3. CASE v[j] # Clobbered
    <3>1. PICK k \in 1 .. Len(rest) : v[j] = rest[k]
      BY <1>7, <2>1, <2>3
    <3>2. PICK i \in 1 .. c : rest[k] = plain[i]
      BY <1>6
    <3>. QED BY <1>5, <3>1, <3>2
  <2>. QED BY <2>2, <2>3
<1>. QED BY <1>1, <1>8 DEF v

\* The value of a refining pass.
LEMMA Chosen ==
  ASSUME Invariant, Within, pc = "body"
  PROVE  /\ loopvar \in Int /\ loopvar \notin DOMAIN history /\ Multiple(loopvar, loop.multipleof)
         /\ \E a, b \in 1 .. Len(LoopValues) : LoopValues[a] < loopvar /\ loopvar < LoopValues[b]
<1>. DEFINE N == Len(results)
            e == N - 1
            m == loop.multipleof
            V(k) == Value(Lists, k)
            C(k) == Cand(Lists, k)
<1>1. /\ Refining(Lists, e, {}, history) /\ candidates # << >>
      /\ loopvar = node[Head(candidates)].i /\ loop \in Loops
  BY DEF Invariant
<1>2. /\ ListType(Lists) /\ N \in Nat /\ N >= 3 /\ Sorted(Lists, e) /\ Spaced(Lists)
      /\ Queued(Lists) /\ Multiples(Lists) /\ Recorded(Lists, 2 .. e, history)
  BY <1>1, AtType, Fields DEF Refining, Chain
<1>3. \A k \in 1 .. N : V(k) \in Int /\ Multiple(V(k), m)
  BY <1>2, AtType, Fields DEF Multiples
<1>4. PICK k \in 1 .. N : C(k) /\ V(k) = loopvar
  <2>1. candidates \in Seq(Nat) /\ results \in Seq(Nat)
    BY <1>2, Fields DEF ListType
  <2>2. Head(candidates) \in ToSet(candidates)
    BY <1>1, <2>1 DEF ToSet
  <2>3. Head(candidates) \in ToSet(results) /\ node[Head(candidates)].is_candidate
    BY <1>2, <2>2, Fields DEF Queued, CandidateIds
  <2>4. PICK k \in 1 .. N : results[k] = Head(candidates)
    BY <2>1, <2>3 DEF ToSet
  <2>. QED BY <1>1, <2>3, <2>4, Fields DEF Cand, Value, At
<1>5. /\ k \in 3 .. N - 2 /\ ~C(k - 1) /\ ~C(k + 1)
      /\ k - 1 \in 2 .. e /\ k \in 2 .. e /\ k + 1 \in 2 .. e
  BY <1>2, <1>4, Fields DEF Spaced
<1>6. /\ V(k - 1) \in DOMAIN history /\ V(k + 1) \in DOMAIN history
      /\ \A x \in DOMAIN history : \E j \in 2 .. e : ~C(j) /\ V(j) = x
  BY <1>2, <1>5 DEF Recorded
<1>7. \A i, j \in 2 .. e : i < j => V(i) < V(j)
  BY <1>2, Fields DEF Sorted
<1>8. V(k - 1) < loopvar /\ loopvar < V(k + 1)
  BY <1>4, <1>5, <1>7
<1>. HIDE DEF V, C
<1>9. loopvar \notin DOMAIN history
  <2>. SUFFICES ASSUME NEW j \in 2 .. e, ~C(j), V(j) = loopvar PROVE FALSE
    BY <1>6
  <2>1. j # k
    BY <1>4
  <2>2. j < k \/ k < j
    BY <1>5, <2>1
  <2>3. V(j) < V(k) \/ V(k) < V(j)
    BY <1>5, <1>7, <2>2
  <2>4. V(k) \in Int
    BY <1>3
  <2>. QED BY <1>4, <2>3, <2>4
<1>10. PICK a \in 1 .. Len(LoopValues), b \in 1 .. Len(LoopValues) :
         LoopValues[a] <= V(k - 1) /\ V(k + 1) <= LoopValues[b]
  BY <1>6 DEF Within
<1>11. LoopValues[a] \in Int /\ LoopValues[b] \in Int
  BY <1>1, PlainPasses DEF LoopValues
<1>12. V(k - 1) \in Int /\ V(k + 1) \in Int /\ loopvar \in Int
  BY <1>3, <1>4, <1>5
<1>13. LoopValues[a] < loopvar /\ loopvar < LoopValues[b]
  BY <1>8, <1>10, <1>11, <1>12
<1>. QED BY <1>3, <1>4, <1>9, <1>12, <1>13

LEMMA WithinStep ==
  ASSUME MeasuresPerBody = 1, Invariant, Within, [Next]_vars
  PROVE  Within'
<1>1. LoopValues' = LoopValues
  BY DEF Next, RegisterRegular, SetNewLoopValues, RegisterRefined, Terminated, vars, LoopValues
<1>2. CASE history' = history
  BY <1>1, <1>2 DEF Within
<1>3. ASSUME NEW result, Remember(result),
             \E a, b \in 1 .. Len(LoopValues) : LoopValues[a] <= loopvar /\ loopvar <= LoopValues[b]
      PROVE  Within'
  <2>1. DOMAIN history' = {loopvar} \cup DOMAIN history
    BY <1>3 DEF Remember
  <2>. QED BY <1>1, <1>3, <2>1 DEF Within
<1>4. CASE RegisterRegular
  <2>1. /\ loop \in Loops /\ position \in 1 .. Len(LoopValues) /\ loopvar = LoopValues[position]
    BY <1>4 DEF Invariant, PlainLoop, RegisterRegular
  <2>2. LoopValues[position] \in Int
    BY <2>1, PlainPasses DEF LoopValues
  <2>3. LoopValues[position] <= loopvar /\ loopvar <= LoopValues[position]
    BY <2>1, <2>2
  <2>. QED BY <1>3, <1>4, <2>1, <2>3 DEF RegisterRegular
<1>5. CASE RegisterRefined
  <2>1. PICK a \in 1 .. Len(LoopValues), b \in 1 .. Len(LoopValues) :
          loopvar \in Int /\ LoopValues[a] < loopvar /\ loopvar < LoopValues[b]
    BY <1>5, Chosen DEF RegisterRefined
  <2>2. LoopValues[a] \in Int /\ LoopValues[b] \in Int
    BY PlainPasses DEF Invariant, LoopValues
  <2>3. LoopValues[a] <= loopvar /\ loopvar <= LoopValues[b]
    BY <2>1, <2>2
  <2>. QED BY <1>3, <1>5, <2>3 DEF RegisterRefined
<1>6. SetNewLoopValues \/ Terminated \/ UNCHANGED vars => history' = history
  BY DEF SetNewLoopValues, Terminated, vars
<1>. QED BY <1>2, <1>4, <1>5, <1>6 DEF Next

\* A refining pass measures a value that is a multiple of multipleof and has not been
\* measured yet, strictly between two values of the plain loop; so it passes the
\* loop's test, whatever the order of the measurements and their results.
RefinesInside ==
  pc = "body" =>
    /\ loopvar \notin DOMAIN history /\ loopvar % loop.multipleof = 0
    /\ \E a, b \in 1 .. Len(LoopValues) : LoopValues[a] < loopvar /\ loopvar < LoopValues[b]
    /\ IF loop.step > 0 THEN loopvar <= loop.last ELSE loopvar >= loop.last

\* set_new_loop_values stores what the queue gives without asking for the loop's test:
\* that the value passes it is what keeps a measurement's buffer large enough.
THEOREM RefinedInside ==
  ASSUME MeasuresPerBody = 1
  PROVE  Spec => []RefinesInside
<1>1. Invariant /\ Within => RefinesInside
  <2>. SUFFICES ASSUME Invariant, Within, pc = "body"
                PROVE  /\ loopvar \notin DOMAIN history /\ loopvar % loop.multipleof = 0
                       /\ \E a, b \in 1 .. Len(LoopValues) :
                            LoopValues[a] < loopvar /\ loopvar < LoopValues[b]
                       /\ IF loop.step > 0 THEN loopvar <= loop.last ELSE loopvar >= loop.last
    BY DEF RefinesInside
  <2>1. /\ loopvar \in Int /\ loopvar \notin DOMAIN history /\ Multiple(loopvar, loop.multipleof)
        /\ \E a, b \in 1 .. Len(LoopValues) : LoopValues[a] < loopvar /\ loopvar < LoopValues[b]
    BY Chosen
  <2>2. PICK a \in 1 .. Len(LoopValues), b \in 1 .. Len(LoopValues) :
          LoopValues[a] < loopvar /\ loopvar < LoopValues[b]
    BY <2>1
  <2>3. /\ loop \in Loops /\ loop.multipleof \in Nat \ {0} /\ loop.last \in Int
        /\ LoopValues[a] \in Int /\ Passes(loop, LoopValues[a])
        /\ LoopValues[b] \in Int /\ Passes(loop, LoopValues[b])
    BY PlainPasses, Values DEF Invariant, LoopValues
  <2>4. loopvar % loop.multipleof = 0
    BY <2>1, <2>3, ModMultiple
  <2>5. IF loop.step > 0 THEN loopvar <= loop.last ELSE loopvar >= loop.last
    BY <2>1, <2>2, <2>3 DEF Passes
  <2>. QED BY <2>1, <2>4, <2>5
<1>2. Init => Within
  <2>1. history = << >> => DOMAIN history = {}
    OBVIOUS
  <2>. QED BY <2>1 DEF Init, Within
<1>3. Spec => [](Invariant /\ Within)
  BY <1>2, InvariantInit, InvariantStep, WithinStep, PTL DEF Spec
<1>. QED BY <1>1, <1>3, PTL
=============================================================================
