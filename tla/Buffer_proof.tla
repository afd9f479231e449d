---------------------------- MODULE Buffer_proof ----------------------------
(***************************************************************************)
(* Proofs about Buffer, for all addresses, sizes, alignments and usages.   *)
(*                                                                         *)
(* Every run begins behind the areas of the first one or is the first one  *)
(* again (Cycled): with room for two copies there is always a second run   *)
(* before the memory begins anew, so that the new first run cannot touch   *)
(* the areas of the last.                                                  *)
(***************************************************************************)
EXTENDS Buffer, DataLemmas

Typed ==
  /\ skampi_buffer \in Nat /\ real_skampi_buffer \in Nat /\ fresh_ptr \in Nat
  /\ skampi_buffer_size \in Nat /\ skampi_real_buffer_size \in Nat
  /\ alignment \in [Side -> Nat \ {0}] /\ skampi_buffer_alignment \in Nat \ {0}
  /\ usage \in [Side -> Nat] /\ buffer \in [Side -> Nat]
  /\ buffer_cycling \in BOOLEAN /\ pc \in {"idle", "begun", "run"}

Allocated ==
  /\ real_skampi_buffer <= skampi_buffer
  /\ real_skampi_buffer = NULL => skampi_real_buffer_size = 0

Room == pc # "idle" => ~is_buffer_too_small(usage)

Cycled ==
  /\ pc = "begun" \/ (pc = "run" /\ ~buffer_cycling) => fresh_ptr = skampi_buffer
  /\ pc = "run" /\ buffer_cycling =>
       /\ fresh_ptr = buffer["recv"] + usage["recv"]
       /\ \/ /\ buffer["send"] = SendAt(skampi_buffer)
             /\ buffer["recv"] = RecvAt(skampi_buffer)
          \/ buffer["send"] >= EndAt(skampi_buffer)

IInv == Typed /\ Allocated /\ Room /\ AreasInBuffer /\ Cycled

-----------------------------------------------------------------------------
\* An alignment moves a position by less than twice its length.
LEMMA AlignmentFix ==
  ASSUME NEW p \in Nat, NEW a \in Nat \ {0}
  PROVE  alignment_fix(p, a) \in Nat /\ alignment_fix(p, a) <= 2 * a - 1
<1>1. p % a \in 0 .. a - 1
  OBVIOUS
<1>2. (a - (p % a)) % a \in 0 .. a - 1
  BY <1>1
<1>. QED BY <1>2 DEF alignment_fix

LEMMA AlignPtr ==
  ASSUME NEW p \in Nat, NEW a \in Nat \ {0}
  PROVE  align_ptr(p, a) \in Nat /\ p <= align_ptr(p, a) /\ align_ptr(p, a) <= p + 2 * a - 1
<1>1. alignment_fix(p, a) \in Nat /\ alignment_fix(p, a) <= 2 * a - 1
  BY AlignmentFix
<1>. QED BY <1>1 DEF align_ptr

\* Two numbers have a greatest common divisor.
LEMMA GcdExists ==
  ASSUME NEW a \in Nat \ {0}, NEW b \in Nat \ {0}
  PROVE  gcd(a, b) \in 1 .. a
<1>. DEFINE Common(d) == a % d = 0 /\ b % d = 0
            T == {k \in Nat : k < a /\ Common(a - k)}
<1>1. a - 1 \in T
  BY DEF Common
<1>2. PICK k \in T : \A y \in T : k <= y
  <2>1. T \subseteq Nat /\ T # {}
    BY <1>1
  <2>. HIDE DEF T
  <2>. QED BY <2>1, LeastElement
<1>3. \A y \in T : ~(y < k)
  <2>1. \A y \in T : y \in Nat /\ k \in Nat /\ k <= y
    BY <1>2
  <2>. QED BY <2>1
<1>4. a - k \in 1 .. a /\ Common(a - k)
  BY <1>2
<1>5. \A e \in a - k + 1 .. a : ~Common(e)
  <2>. SUFFICES ASSUME NEW e \in a - k + 1 .. a, Common(e) PROVE FALSE
    OBVIOUS
  <2>1. a - e \in Nat /\ a - e < a /\ a - (a - e) = e
    BY <1>2
  <2>2. a - e \in T
    BY <2>1
  <2>3. ~(a - e < k)
    BY <1>3, <2>2
  <2>4. k \in Nat
    BY <1>2
  <2>. QED BY <2>3, <2>4
<1>. QED BY <1>4, <1>5 DEF gcd, Common

LEMMA LcmPositive ==
  ASSUME NEW a \in Nat \ {0}, NEW b \in Nat \ {0}
  PROVE  lcm(a, b) \in Nat \ {0}
<1>1. gcd(a, b) \in 1 .. a
  BY GcdExists
<1>2. a * b \in Nat /\ a * b >= a
  OBVIOUS
<1>3. ASSUME NEW g \in Nat, NEW m \in Nat, 1 <= g, g <= m PROVE m \div g \in Nat \ {0}
  BY <1>3
<1>. QED BY <1>1, <1>2, <1>3 DEF lcm

-----------------------------------------------------------------------------
\* Where the areas lie: each begins less than twice its alignment behind what
\* is before it.
LEMMA Positions ==
  ASSUME Typed, NEW p \in Nat
  PROVE  /\ SendAt(p) \in Nat /\ RecvAt(p) \in Nat /\ EndAt(p) \in Nat
         /\ p <= SendAt(p) /\ SendAt(p) <= p + 2 * alignment["send"] - 1
         /\ SendAt(p) + usage["send"] <= RecvAt(p)
         /\ RecvAt(p) <= SendAt(p) + usage["send"] + 2 * alignment["recv"] - 1
         /\ EndAt(p) = RecvAt(p) + usage["recv"]
<1>1. /\ alignment["send"] \in Nat \ {0} /\ alignment["recv"] \in Nat \ {0}
      /\ usage["send"] \in Nat /\ usage["recv"] \in Nat
  BY DEF Typed, Side
<1>2. /\ SendAt(p) \in Nat
      /\ p <= SendAt(p) /\ SendAt(p) <= p + 2 * alignment["send"] - 1
  BY <1>1, AlignPtr DEF SendAt
<1>3. SendAt(p) + usage["send"] \in Nat
  BY <1>1, <1>2
<1>4. /\ RecvAt(p) \in Nat /\ SendAt(p) + usage["send"] <= RecvAt(p)
      /\ RecvAt(p) <= SendAt(p) + usage["send"] + 2 * alignment["recv"] - 1
  BY <1>1, <1>3, AlignPtr DEF RecvAt
<1>. QED BY <1>1, <1>2, <1>4 DEF EndAt

LEMMA InitIInv == Init => IInv
BY AlignmentsIntegers DEF Init, IInv, Typed, Allocated, Room, AreasInBuffer, Cycled, NULL

LEMMA AllocateTypes ==
  ASSUME NEW size \in Nat, NEW a \in Nat \ {0}, Allocate(size, a)
  PROVE  /\ skampi_buffer' \in Nat /\ real_skampi_buffer' \in Nat \ {0} /\ fresh_ptr' \in Nat
         /\ skampi_buffer_size' \in Nat /\ skampi_real_buffer_size' \in Nat
         /\ real_skampi_buffer' <= skampi_buffer'
<1>1. /\ real_skampi_buffer' \in Nat \ {0} /\ fresh_ptr' = skampi_buffer'
      /\ skampi_buffer' = real_skampi_buffer' + alignment_fix(real_skampi_buffer', a)
      /\ skampi_buffer_size' = size /\ skampi_real_buffer_size' = size + 8 * a
  BY BasesPositive DEF Allocate, align_ptr
<1>2. alignment_fix(real_skampi_buffer', a) \in Nat
  BY <1>1, AlignmentFix
<1>. QED BY <1>1, <1>2

LEMMA SetBufferIInv == ASSUME NEW n \in Size, IInv, set_skampi_buffer(n) PROVE IInv'
<1>1. n \in Nat /\ skampi_buffer_alignment \in Nat \ {0} /\ pc = "idle" /\ pc' = "idle"
      /\ Allocate(n, skampi_buffer_alignment)
      /\ UNCHANGED <<alignment, skampi_buffer_alignment, buffer_cycling, usage, buffer>>
  BY SizesNatural DEF set_skampi_buffer, IInv, Typed, areas
<1>2. Typed' /\ Allocated'
  BY <1>1, AllocateTypes DEF IInv, Typed, Allocated, NULL
<1>. QED BY <1>1, <1>2 DEF IInv, Room, AreasInBuffer, Cycled

LEMMA SetAlignmentIInv ==
  ASSUME NEW s \in Side, NEW a \in Alignment, IInv, set_buffer_alignment(s, a)
  PROVE  IInv'
<1>. DEFINE b == IF a < 1 THEN 1 ELSE a
<1>1. /\ b \in Nat \ {0} /\ pc = "idle" /\ pc' = "idle" /\ skampi_buffer_size \in Nat
      /\ alignment' = [alignment EXCEPT ![s] = b]
      /\ skampi_buffer_alignment' = lcm(alignment'["send"], alignment'["recv"])
      /\ UNCHANGED <<buffer_cycling, usage, buffer>>
  BY AlignmentsIntegers DEF set_buffer_alignment, IInv, Typed, areas
<1>2. alignment' \in [Side -> Nat \ {0}]
  BY <1>1 DEF IInv, Typed
<1>3. skampi_buffer_alignment' \in Nat \ {0}
  BY <1>1, <1>2, LcmPositive DEF Side
<1>4. Typed' /\ Allocated'
  <2>1. CASE Allocate(skampi_buffer_size, skampi_buffer_alignment')
    BY <2>1, <1>1, <1>2, <1>3, AllocateTypes DEF IInv, Typed, Allocated, NULL
  <2>2. CASE UNCHANGED <<skampi_buffer, real_skampi_buffer, skampi_buffer_size,
                         skampi_real_buffer_size, fresh_ptr>>
    BY <2>2, <1>1, <1>2, <1>3 DEF IInv, Typed, Allocated
  <2>. QED BY <2>1, <2>2 DEF set_buffer_alignment
<1>. QED BY <1>1, <1>4 DEF IInv, Room, AreasInBuffer, Cycled

LEMMA SwitchIInv == ASSUME NEW on \in BOOLEAN, IInv, switch_buffer_cycling(on) PROVE IInv'
BY DEF switch_buffer_cycling, settings, areas, IInv, Typed, Allocated, Room, AreasInBuffer, Cycled

LEMMA BeginIInv ==
  ASSUME NEW used \in [Side -> Usage], NEW sliced \in [Side -> SliceUsage], IInv,
         Begin(used, sliced)
  PROVE  IInv'
<1>1. /\ pc = "idle" /\ usage' = used /\ used \in [Side -> Nat]
      /\ UNCHANGED <<skampi_buffer, real_skampi_buffer, skampi_buffer_size, buffer,
                     skampi_real_buffer_size, alignment, skampi_buffer_alignment, buffer_cycling>>
  BY SizesNatural DEF Begin, settings
<1>2. \/ fresh_ptr' = fresh_ptr /\ pc' = "idle"
      \/ ~is_buffer_too_small(used) /\ fresh_ptr' = skampi_buffer /\ pc' = "begun"
  BY <1>1 DEF Begin
<1>3. Typed' /\ Allocated'
  BY <1>1, <1>2 DEF IInv, Typed, Allocated
<1>4. Room'
  BY <1>1, <1>2 DEF Room, is_buffer_too_small, OneCopy
<1>5. AreasInBuffer' /\ Cycled'
  BY <1>1, <1>2 DEF AreasInBuffer, Cycled
<1>. QED BY <1>3, <1>4, <1>5 DEF IInv

-----------------------------------------------------------------------------
\* A run takes what lies behind the run before, or begins anew: then the first
\* areas fit, and with cycling they end before the last areas begin.
LEMMA RunPlaced ==
  ASSUME IInv, Repeat
  PROVE  \E p \in Nat :
           /\ buffer' = [s \in Side |-> IF s = "send" THEN SendAt(p) ELSE RecvAt(p)]
           /\ fresh_ptr' = IF buffer_cycling THEN EndAt(p) ELSE p
           /\ skampi_buffer <= p
           /\ EndAt(p) <= skampi_buffer + skampi_real_buffer_size
           /\ \/ p = skampi_buffer
              \/ buffer_cycling /\ pc = "run" /\ p = fresh_ptr /\ p >= EndAt(skampi_buffer)
           /\ pc = "run" /\ buffer_cycling /\ p # fresh_ptr => EndAt(p) <= buffer["send"]
<1>. DEFINE p == IF Fits(fresh_ptr) THEN fresh_ptr ELSE skampi_buffer
            sk == skampi_buffer
            real == skampi_real_buffer_size
            one == OneCopy(usage)
<1>1. /\ buffer' = [s \in Side |-> IF s = "send" THEN SendAt(p) ELSE RecvAt(p)]
      /\ fresh_ptr' = IF buffer_cycling THEN EndAt(p) ELSE p
  BY DEF Repeat, check_buffer
<1>2. /\ sk \in Nat /\ real \in Nat /\ fresh_ptr \in Nat /\ p \in Nat
      /\ alignment["send"] \in Nat \ {0} /\ alignment["recv"] \in Nat \ {0}
      /\ usage["send"] \in Nat /\ usage["recv"] \in Nat
      /\ buffer["send"] \in Nat /\ buffer["recv"] \in Nat
      /\ buffer_cycling \in BOOLEAN
  BY DEF IInv, Typed, Side
<1>3. /\ one = usage["send"] + 2 * alignment["send"] + usage["recv"] + 2 * alignment["recv"]
      /\ one <= real /\ (buffer_cycling => 2 * one <= real)
  BY <1>2 DEF IInv, Room, Repeat, is_buffer_too_small, OneCopy
<1>4. /\ SendAt(sk) \in Nat /\ RecvAt(sk) \in Nat /\ EndAt(sk) \in Nat
      /\ sk <= SendAt(sk) /\ EndAt(sk) <= sk + one - 2
  <2>1. /\ SendAt(sk) \in Nat /\ RecvAt(sk) \in Nat /\ EndAt(sk) \in Nat /\ sk <= SendAt(sk)
        /\ SendAt(sk) <= sk + 2 * alignment["send"] - 1
        /\ RecvAt(sk) <= SendAt(sk) + usage["send"] + 2 * alignment["recv"] - 1
        /\ EndAt(sk) = RecvAt(sk) + usage["recv"]
    BY <1>2, Positions DEF IInv
  <2>. HIDE DEF one, sk
  <2>. QED BY <1>2, <1>3, <2>1
<1>5. CASE pc = "begun" \/ ~buffer_cycling
  <2>1. fresh_ptr = sk /\ p = sk /\ ~(pc = "run" /\ buffer_cycling)
    BY <1>5 DEF IInv, Cycled, Repeat
  <2>. QED BY <1>1, <1>2, <1>3, <1>4, <2>1
<1>6. CASE pc = "run" /\ buffer_cycling
  <2>1. /\ fresh_ptr = buffer["recv"] + usage["recv"]
        /\ \/ fresh_ptr = EndAt(sk)
           \/ buffer["send"] >= EndAt(sk) /\ fresh_ptr >= EndAt(sk)
    BY <1>2, <1>4, <1>6 DEF IInv, Cycled, AreasInBuffer, EndAt
  <2>2. CASE Fits(fresh_ptr)
    <3>1. EndAt(fresh_ptr) <= sk + real
      <4>1. RecvAt(fresh_ptr) \in Nat /\ EndAt(fresh_ptr) = RecvAt(fresh_ptr) + usage["recv"]
        BY <1>2, Positions DEF IInv
      <4>. QED BY <1>2, <2>2, <4>1 DEF Fits
    <3>2. p = fresh_ptr /\ fresh_ptr >= EndAt(sk) /\ sk <= fresh_ptr
      BY <1>2, <1>4, <2>1, <2>2, Positions, SMTT(30) DEF IInv
    <3>. QED BY <1>1, <1>2, <1>6, <3>1, <3>2
  <2>3. CASE ~Fits(fresh_ptr)
    <3>1. fresh_ptr # EndAt(sk)
      <4>. SUFFICES ASSUME fresh_ptr = EndAt(sk) PROVE Fits(fresh_ptr)
        BY <2>3
      <4>1. /\ SendAt(fresh_ptr) \in Nat /\ RecvAt(fresh_ptr) \in Nat
            /\ SendAt(fresh_ptr) <= fresh_ptr + 2 * alignment["send"] - 1
            /\ RecvAt(fresh_ptr) <= SendAt(fresh_ptr) + usage["send"] + 2 * alignment["recv"] - 1
        BY <1>2, Positions DEF IInv
      <4>2. 2 * one <= real /\ fresh_ptr <= sk + one - 2
        BY <1>3, <1>4, <1>6
      <4>. HIDE DEF one
      <4>3. /\ fresh_ptr - sk <= real - alignment["send"]
            /\ SendAt(fresh_ptr) - sk <= real - usage["send"] - alignment["recv"]
            /\ RecvAt(fresh_ptr) - sk <= real - usage["recv"]
        BY <1>2, <1>3, <4>1, <4>2
      <4>. QED BY <4>3 DEF Fits
    <3>2. p = sk /\ EndAt(sk) <= buffer["send"] /\ EndAt(sk) <= sk + real
      BY <1>2, <1>3, <1>4, <2>1, <2>3, <3>1
    <3>. QED BY <1>1, <1>2, <3>2
  <2>. QED BY <2>2, <2>3
<1>. QED BY <1>5, <1>6 DEF Repeat

LEMMA RepeatIInv == ASSUME IInv, Repeat PROVE IInv'
<1>1. PICK p \in Nat :
        /\ buffer' = [s \in Side |-> IF s = "send" THEN SendAt(p) ELSE RecvAt(p)]
        /\ fresh_ptr' = IF buffer_cycling THEN EndAt(p) ELSE p
        /\ skampi_buffer <= p
        /\ EndAt(p) <= skampi_buffer + skampi_real_buffer_size
        /\ \/ p = skampi_buffer
           \/ buffer_cycling /\ pc = "run" /\ p = fresh_ptr /\ p >= EndAt(skampi_buffer)
  BY RunPlaced
<1>2. /\ pc' = "run" /\ pc # "idle"
      /\ UNCHANGED <<skampi_buffer, real_skampi_buffer, skampi_buffer_size, usage,
                     skampi_real_buffer_size, alignment, skampi_buffer_alignment, buffer_cycling>>
  BY DEF Repeat, settings
<1>3. /\ SendAt(p) \in Nat /\ RecvAt(p) \in Nat /\ EndAt(p) \in Nat /\ p <= SendAt(p)
      /\ SendAt(p) + usage["send"] <= RecvAt(p) /\ EndAt(p) = RecvAt(p) + usage["recv"]
  BY Positions DEF IInv
<1>4. buffer'["send"] = SendAt(p) /\ buffer'["recv"] = RecvAt(p)
  BY <1>1 DEF Side
<1>5. Typed' /\ Allocated'
  BY <1>1, <1>2, <1>3 DEF IInv, Typed, Allocated
<1>6. Room'
  BY <1>2 DEF IInv, Room, is_buffer_too_small, OneCopy
<1>7. real_skampi_buffer # NULL
  <2>1. ~is_buffer_too_small(usage)
    BY <1>2 DEF IInv, Room
  <2>2. skampi_real_buffer_size # 0
    BY <2>1 DEF IInv, Typed, Side, is_buffer_too_small, OneCopy
  <2>. QED BY <2>2 DEF IInv, Allocated
<1>8. AreasInBuffer'
  <2>1. skampi_buffer \in Nat /\ real_skampi_buffer <= skampi_buffer
    BY DEF IInv, Typed, Allocated
  <2>. QED BY <1>1, <1>2, <1>3, <1>4, <1>7, <2>1 DEF IInv, Typed, AreasInBuffer, NULL
<1>9. Cycled'
  <2>1. SendAt(skampi_buffer)' = SendAt(skampi_buffer) /\ RecvAt(skampi_buffer)' = RecvAt(skampi_buffer)
        /\ EndAt(skampi_buffer)' = EndAt(skampi_buffer)
    BY <1>2 DEF SendAt, RecvAt, EndAt
  <2>2. EndAt(skampi_buffer) \in Nat
    BY Positions DEF IInv, Typed
  <2>3. CASE ~buffer_cycling
    BY <2>3, <1>1, <1>2 DEF Cycled
  <2>4. CASE buffer_cycling
    BY <2>4, <2>1, <2>2, <1>1, <1>2, <1>3, <1>4 DEF Cycled
  <2>. QED BY <2>3, <2>4
<1>. QED BY <1>5, <1>6, <1>8, <1>9 DEF IInv

\* What the other steps change is no part of the invariant.
LEMMA OthersIInv ==
  ASSUME IInv, (\E s \in Side : get_buffer_slice(s)) \/ End \/ UNCHANGED vars
  PROVE  IInv'
<1>1. /\ UNCHANGED <<settings, buffer_cycling, fresh_ptr, buffer, usage>>
      /\ pc' = pc \/ pc' = "idle"
  BY DEF get_buffer_slice, End, vars, areas
<1>2. Typed' /\ Allocated'
  BY <1>1 DEF IInv, Typed, Allocated, settings
<1>3. Room' /\ AreasInBuffer'
  BY <1>1 DEF IInv, Room, AreasInBuffer, is_buffer_too_small, OneCopy, settings
<1>4. Cycled'
  BY <1>1 DEF IInv, Cycled, SendAt, RecvAt, EndAt, settings
<1>. QED BY <1>2, <1>3, <1>4 DEF IInv

\* The inductive invariant holds in every behaviour.
THEOREM Invariance == Spec => []IInv
<1>1. IInv /\ [Next]_vars => IInv'
  <2>. SUFFICES ASSUME IInv, [Next]_vars PROVE IInv'
    OBVIOUS
  <2>1. ASSUME NEW n \in Size, set_skampi_buffer(n) PROVE IInv'
    BY <2>1, SetBufferIInv
  <2>2. ASSUME NEW s \in Side, NEW a \in Alignment, set_buffer_alignment(s, a) PROVE IInv'
    BY <2>2, SetAlignmentIInv
  <2>3. ASSUME NEW on \in BOOLEAN, switch_buffer_cycling(on) PROVE IInv'
    BY <2>3, SwitchIInv
  <2>4. ASSUME NEW used \in [Side -> Usage], NEW sliced \in [Side -> SliceUsage],
               Begin(used, sliced)
        PROVE  IInv'
    BY <2>4, BeginIInv
  <2>5. CASE Repeat
    BY <2>5, RepeatIInv
  <2>6. CASE (\E s \in Side : get_buffer_slice(s)) \/ End \/ UNCHANGED vars
    BY <2>6, OthersIInv
  <2>. QED BY <2>1, <2>2, <2>3, <2>4, <2>5, <2>6 DEF Next
<1>. QED BY <1>1, InitIInv, PTL DEF Spec

\* check_buffer keeps both areas between the aligned beginning of the buffer and the
\* end it counts with, for all sizes, alignments and usages that pass
\* is_buffer_too_small, after any number of runs and changes of the settings.
THEOREM AreasStayInside == Spec => []AreasInBuffer
<1>1. IInv => AreasInBuffer
  BY DEF IInv
<1>. QED BY <1>1, Invariance, PTL

\* With buffer cycling no run gets memory of the run before.
THEOREM CyclingIsFresh == Spec => FreshMemory
<1>1. ASSUME IInv, [Next]_vars, Repeat, pc = "run", buffer_cycling
      PROVE  \/ buffer'["send"] >= buffer["recv"] + usage["recv"]
             \/ buffer'["recv"] + usage["recv"] <= buffer["send"]
  <2>1. PICK p \in Nat :
          /\ buffer' = [s \in Side |-> IF s = "send" THEN SendAt(p) ELSE RecvAt(p)]
          /\ p # fresh_ptr => EndAt(p) <= buffer["send"]
    BY <1>1, RunPlaced
  <2>2. buffer'["send"] = SendAt(p) /\ buffer'["recv"] = RecvAt(p)
    BY <2>1 DEF Side
  <2>3. SendAt(p) \in Nat /\ p <= SendAt(p) /\ EndAt(p) = RecvAt(p) + usage["recv"]
    BY <1>1, Positions DEF IInv
  <2>4. fresh_ptr = buffer["recv"] + usage["recv"]
    BY <1>1 DEF IInv, Cycled
  <2>. QED BY <2>1, <2>2, <2>3, <2>4
<1>. QED BY <1>1, Invariance, PTL DEF Spec, FreshMemory

-----------------------------------------------------------------------------
(* Slices.  An aligned position is an odd multiple of the alignment; from   *)
(* one, the next slice is always the same distance away (SliceStep), which  *)
(* is what get_buffer_min_size multiplies.                                  *)

\* The remainder is the only one: it comes with one quotient.
LEMMA Remainder ==
  ASSUME NEW a \in Nat \ {0}, NEW q \in Nat, NEW r \in 0 .. a - 1
  PROVE  (q * a + r) % a = r
<1>. DEFINE p == q * a + r
            d == p \div a
            m == p % a
<1>1. p \in Nat /\ q * a \in Nat
  OBVIOUS
<1>2. d \in Int /\ m \in 0 .. a - 1 /\ p = a * d + m
  <2>. HIDE DEF p
  <2>. QED BY <1>1
<1>3. ASSUME NEW x \in Int, NEW y \in Int, x < y PROVE a * x + a <= a * y
  <2>1. y - x \in Nat /\ y - x >= 1
    BY <1>3
  <2>2. a * (y - x) >= a
    BY <2>1
  <2>3. a * (y - x) = a * y - a * x
    OBVIOUS
  <2>. QED BY <2>2, <2>3
<1>4. q * a = a * q
  OBVIOUS
<1>5. ~(d < q)
  <2>. SUFFICES ASSUME d < q PROVE FALSE
    OBVIOUS
  <2>1. a * d + a <= a * q
    BY <1>2, <1>3
  <2>. HIDE DEF d, m
  <2>. QED BY <1>1, <1>2, <1>4, <2>1
<1>6. ~(q < d)
  <2>. SUFFICES ASSUME q < d PROVE FALSE
    OBVIOUS
  <2>1. a * q + a <= a * d
    BY <1>2, <1>3
  <2>. HIDE DEF d, m
  <2>. QED BY <1>1, <1>2, <1>4, <2>1
<1>7. d = q
  <2>. HIDE DEF d
  <2>. QED BY <1>2, <1>5, <1>6
<1>8. m = r
  <2>. HIDE DEF d, m
  <2>. QED BY <1>1, <1>2, <1>4, <1>7
<1>. QED BY <1>8

\* The numbers that are a modulo 2 * a are the odd multiples of a.
LEMMA OddMultiple ==
  ASSUME NEW a \in Nat \ {0}, NEW x \in Nat
  PROVE  /\ x % (2 * a) = a => \E k \in Nat : x = k * (2 * a) + a
         /\ \A k \in Nat : x = k * (2 * a) + a => x % (2 * a) = a
<1>. DEFINE b == 2 * a
<1>1. b \in Nat \ {0} /\ a \in 0 .. b - 1
  OBVIOUS
<1>. HIDE DEF b
<1>2. x = b * (x \div b) + (x % b) /\ x \div b \in Nat
  BY <1>1
<1>3. b * (x \div b) = (x \div b) * b
  BY <1>2, <1>1
<1>4. x % b = a => \E k \in Nat : x = k * b + a
  BY <1>2, <1>3
<1>5. \A k \in Nat : x = k * b + a => x % b = a
  BY <1>1, Remainder
<1>. QED BY <1>4, <1>5 DEF b

\* Two of them that are less than 2 * a apart are the same.
LEMMA OddUnique ==
  ASSUME NEW a \in Nat \ {0}, NEW x \in Nat, NEW y \in Nat,
         x % (2 * a) = a, y % (2 * a) = a, x - y < 2 * a, y - x < 2 * a
  PROVE  x = y
<1>1. PICK k \in Nat : x = k * (2 * a) + a
  BY OddMultiple
<1>2. PICK j \in Nat : y = j * (2 * a) + a
  BY OddMultiple
<1>3. ASSUME NEW m \in Nat, NEW n \in Nat, m < n PROVE m * (2 * a) + 2 * a <= n * (2 * a)
  <2>1. n - m \in Nat /\ n - m >= 1
    BY <1>3
  <2>2. (n - m) * (2 * a) >= 2 * a
    BY <2>1
  <2>3. (n - m) * (2 * a) = n * (2 * a) - m * (2 * a)
    OBVIOUS
  <2>. QED BY <2>2, <2>3
<1>4. k * (2 * a) \in Nat /\ j * (2 * a) \in Nat
  OBVIOUS
<1>5. ~(k < j) /\ ~(j < k)
  BY <1>1, <1>2, <1>3, <1>4
<1>6. k = j
  BY <1>5
<1>. QED BY <1>1, <1>2, <1>6

\* align_ptr gives an odd multiple: the next one.
LEMMA AlignedOdd ==
  ASSUME NEW p \in Nat, NEW a \in Nat \ {0}
  PROVE  align_ptr(p, a) % (2 * a) = a
<1>. DEFINE q == p \div a
            r == p % a
            fix == (a - r) % a
            y == p + fix
<1>1. q \in Nat /\ r \in 0 .. a - 1 /\ p = a * q + r
  OBVIOUS
<1>2. \E c \in Nat : y = c * a
  <2>1. CASE r = 0
    <3>1. fix = 0
      BY <2>1
    <3>2. p = q * a
      <4>. HIDE DEF q, r
      <4>. QED BY <1>1, <2>1
    <3>3. y = q * a
      <4>. HIDE DEF q, fix
      <4>. QED BY <1>1, <3>1, <3>2
    <3>. HIDE DEF y, q
    <3>. QED BY <1>1, <3>3
  <2>2. CASE r # 0
    <3>1. fix = a - r
      <4>1. a - r \in 0 .. a - 1
        BY <1>1, <2>2
      <4>. HIDE DEF r
      <4>. QED BY <4>1, <1>1
    <3>2. y = (q + 1) * a
      <4>. HIDE DEF q, r, fix
      <4>. QED BY <1>1, <3>1
    <3>3. q + 1 \in Nat
      BY <1>1
    <3>. HIDE DEF y, q
    <3>. QED BY <3>2, <3>3
  <2>. QED BY <2>1, <2>2
<1>3. PICK c \in Nat : y = c * a
  BY <1>2
<1>4. PICK d \in Nat : c = 2 * d \/ c = 2 * d + 1
  <2>1. c \div 2 \in Nat /\ (c = 2 * (c \div 2) \/ c = 2 * (c \div 2) + 1)
    OBVIOUS
  <2>. QED BY <2>1
<1>5. align_ptr(p, a) = IF y % (2 * a) = 0 THEN y + a ELSE y
  <2>1. alignment_fix(p, a) = IF y % (2 * a) = 0 THEN fix + a ELSE fix
    BY DEF alignment_fix
  <2>2. fix \in Nat
    BY <1>1
  <2>. HIDE DEF fix
  <2>. QED BY <2>1, <2>2 DEF align_ptr
<1>6. CASE c = 2 * d
  <2>1. y = d * (2 * a) + 0
    BY <1>3, <1>6
  <2>. HIDE DEF y
  <2>2. y % (2 * a) = 0
    BY <2>1, Remainder, 2 * a \in Nat \ {0}, 0 \in 0 .. 2 * a - 1
  <2>3. align_ptr(p, a) = d * (2 * a) + a /\ align_ptr(p, a) \in Nat
    BY <1>5, <2>1, <2>2, AlignPtr
  <2>. QED BY <2>3, OddMultiple
<1>7. CASE c = 2 * d + 1
  <2>1. y = d * (2 * a) + a
    BY <1>3, <1>7
  <2>. HIDE DEF y
  <2>2. y \in Nat
    BY <2>1
  <2>3. y % (2 * a) = a
    BY <2>1, <2>2, OddMultiple
  <2>. QED BY <1>5, <2>3
<1>. QED BY <1>4, <1>6, <1>7

\* The distance from one slice of length w to the next.
SliceStep(w, a) == align_ptr(a + w, a) - a

LEMMA SliceStepType ==
  ASSUME NEW w \in Nat, NEW a \in Nat \ {0}
  PROVE  SliceStep(w, a) \in Nat /\ w <= SliceStep(w, a)
<1>1. a + w \in Nat
  OBVIOUS
<1>2. align_ptr(a + w, a) \in Nat /\ a + w <= align_ptr(a + w, a)
  BY <1>1, AlignPtr
<1>. QED BY <1>2 DEF SliceStep

LEMMA NextAligned ==
  ASSUME NEW p \in Nat, NEW w \in Nat, NEW a \in Nat \ {0}, p % (2 * a) = a
  PROVE  align_ptr(p + w, a) = p + SliceStep(w, a)
<1>. DEFINE x == align_ptr(p + w, a)
            st == SliceStep(w, a)
            z == align_ptr(a + w, a)
<1>1. /\ x \in Nat /\ p + w <= x /\ x <= p + w + 2 * a - 1 /\ x % (2 * a) = a
      /\ z \in Nat /\ a + w <= z /\ z <= a + w + 2 * a - 1 /\ z % (2 * a) = a
  BY AlignPtr, AlignedOdd, p + w \in Nat, a + w \in Nat
<1>2. st = z - a
  BY DEF SliceStep
<1>3. PICK k \in Nat : p = k * (2 * a) + a
  BY OddMultiple
<1>. HIDE DEF x, st, z
<1>4. PICK j \in Nat : z = j * (2 * a) + a
  BY <1>1, OddMultiple
<1>5. p + st = (k + j) * (2 * a) + a /\ p + st \in Nat
  <2>1. (k + j) * (2 * a) = k * (2 * a) + j * (2 * a)
    OBVIOUS
  <2>2. k * (2 * a) \in Nat /\ j * (2 * a) \in Nat
    OBVIOUS
  <2>3. k * (2 * a) + a + j * (2 * a) = k * (2 * a) + j * (2 * a) + a
    BY <2>2
  <2>4. p + st = k * (2 * a) + a + j * (2 * a)
    BY <1>1, <1>2, <1>3, <1>4, <2>2
  <2>. QED BY <2>1, <2>2, <2>3, <2>4
<1>6. (p + st) % (2 * a) = a
  BY <1>5, k + j \in Nat, OddMultiple
<1>7. x - (p + st) < 2 * a /\ (p + st) - x < 2 * a
  BY <1>1, <1>2
<1>8. x = p + st
  BY <1>1, <1>5, <1>6, <1>7, OddUnique
<1>. QED BY <1>8 DEF x, st

LEMMA MinSize ==
  ASSUME NEW s \in Side, NEW w \in Nat, NEW n \in Nat, alignment[s] \in Nat \ {0}
  PROVE  get_buffer_min_size(s, w, n) = SliceStep(w, alignment[s]) * n
<1>. DEFINE a == alignment[s]
            f == (a - (w % a)) % a
            g == (a - ((a + w) % a)) % a
<1>1. a \in Nat \ {0}
  OBVIOUS
<1>. HIDE DEF a
<1>2. (a + w) % a = w % a
  <2>. DEFINE q == w \div a
              r == w % a
  <2>1. q \in Nat /\ r \in 0 .. a - 1 /\ w = a * q + r
    BY <1>1
  <2>. HIDE DEF q, r
  <2>2. a + w = (q + 1) * a + r
    <3>1. (q + 1) * a = q * a + a /\ a * q = q * a /\ q * a \in Nat
      BY <1>1, <2>1
    <3>. QED BY <1>1, <2>1, <3>1
  <2>3. q + 1 \in Nat
    BY <2>1
  <2>4. ((q + 1) * a + r) % a = r
    BY <1>1, <2>1, <2>3, Remainder
  <2>. QED BY <2>2, <2>4 DEF r
<1>3. f = g
  BY <1>2
<1>4. f \in Nat
  <2>1. w % a \in 0 .. a - 1
    BY <1>1
  <2>. QED BY <1>1, <2>1
<1>. DEFINE h == IF (a + w + f) % (2 * a) = 0 THEN f + a ELSE f
<1>5. alignment_fix(a + w, a) = h
  BY <1>3 DEF alignment_fix
<1>6. h \in Nat
  BY <1>1, <1>4
<1>7. get_buffer_min_size(s, w, n) = (w + h) * n
  BY DEF get_buffer_min_size, a
<1>8. SliceStep(w, a) = w + h
  <2>1. SliceStep(w, a) = align_ptr(a + w, a) - a
    BY DEF SliceStep
  <2>2. align_ptr(a + w, a) = (a + w) + h
    BY <1>5 DEF align_ptr
  <2>. HIDE DEF h
  <2>. QED BY <1>1, <1>6, <2>1, <2>2
<1>. QED BY <1>7, <1>8 DEF a

\* While a run lasts: the areas are aligned, and the slices given so far are one
\* after the other, each a step behind the last; the one that was refused did not fit.
StepOf(s) == SliceStep(slice_usage[s], alignment[s])

SliceTypes ==
  /\ slice_usage \in [Side -> Nat] /\ slice \in [Side -> Nat]
  /\ given \in [Side -> SUBSET Nat]

AreaSliced(s) ==
  /\ buffer[s] % (2 * alignment[s]) = alignment[s]
  /\ IsFiniteSet(given[s])
  /\ \A p \in given[s] :
       /\ buffer[s] <= p /\ p + slice_usage[s] <= buffer[s] + usage[s]
       /\ p % (2 * alignment[s]) = alignment[s]
       /\ \A q \in given[s] \ {p} : p + slice_usage[s] <= q \/ q + slice_usage[s] <= p
  /\ slice[s] # NULL =>
       /\ slice[s] \in given[s] /\ \A p \in given[s] : p <= slice[s]
       /\ slice[s] + StepOf(s) = buffer[s] + StepOf(s) * Cardinality(given[s])
  /\ slice[s] = NULL /\ given[s] # {} =>
       StepOf(s) * (Cardinality(given[s]) + 1) > usage[s]

SInv == SliceTypes /\ (pc = "run" => \A s \in Side : AreaSliced(s))

LEMMA InitSInv == Init => SInv
BY DEF Init, SInv, SliceTypes, NULL

\* The steps outside a run.
LEMMA OutsideSInv ==
  ASSUME IInv, SInv, [Next]_vars, ~Repeat, ~(\E s \in Side : get_buffer_slice(s))
  PROVE  SInv'
<1>1. CASE End \/ UNCHANGED vars
  <2>1. /\ UNCHANGED <<slice, slice_usage, given, buffer, usage, alignment>>
        /\ pc' = pc \/ pc' = "idle"
    BY <1>1 DEF End, vars, areas, settings
  <2>2. SliceTypes'
    BY <2>1 DEF SInv, SliceTypes
  <2>3. ASSUME pc' = "run" PROVE \A s \in Side : AreaSliced(s)'
    BY <2>1, <2>3 DEF SInv, AreaSliced, StepOf
  <2>. QED BY <2>2, <2>3 DEF SInv
<1>2. CASE pc = "idle"
  <2>1. /\ UNCHANGED <<slice, given>> /\ pc' # "run"
        /\ \/ UNCHANGED slice_usage
           \/ \E used \in [Side -> Usage], sliced \in [Side -> SliceUsage] : slice_usage' = sliced
    BY <1>2 DEF Next, set_skampi_buffer, set_buffer_alignment, switch_buffer_cycling, Begin,
                Repeat, get_buffer_slice, End, areas, vars
  <2>2. SliceTypes'
    BY <2>1, SizesNatural DEF SInv, SliceTypes
  <2>. QED BY <2>1, <2>2 DEF SInv
<1>. QED BY <1>1, <1>2 DEF Next, set_skampi_buffer, set_buffer_alignment, switch_buffer_cycling, Begin

LEMMA RepeatSInv == ASSUME IInv, SInv, Repeat PROVE SInv'
<1>1. PICK p \in Nat : buffer' = [s \in Side |-> IF s = "send" THEN SendAt(p) ELSE RecvAt(p)]
  BY RunPlaced
<1>2. UNCHANGED <<alignment, usage, slice_usage>>
  BY DEF Repeat, settings
<1>3. slice' = [s \in Side |-> NULL] /\ given' = [s \in Side |-> {}]
  BY DEF Repeat
<1>4. SliceTypes'
  BY <1>2, <1>3 DEF SInv, SliceTypes, NULL
<1>5. ASSUME NEW s \in Side PROVE AreaSliced(s)'
  <2>1. /\ alignment["send"] \in Nat \ {0} /\ alignment["recv"] \in Nat \ {0}
        /\ usage["send"] \in Nat
    BY DEF IInv, Typed, Side
  <2>2. SendAt(p) \in Nat /\ SendAt(p) % (2 * alignment["send"]) = alignment["send"]
    BY <2>1, AlignPtr, AlignedOdd DEF SendAt
  <2>3. SendAt(p) + usage["send"] \in Nat
    BY <2>1, <2>2
  <2>4. RecvAt(p) % (2 * alignment["recv"]) = alignment["recv"]
    BY <2>1, <2>3, AlignedOdd DEF RecvAt
  <2>5. buffer'[s] % (2 * alignment[s]) = alignment[s]
    BY <1>1, <2>2, <2>4 DEF Side
  <2>6. slice'[s] = NULL /\ given'[s] = {} /\ alignment'[s] = alignment[s]
    BY <1>2, <1>3
  <2>. QED BY <2>5, <2>6, FS_EmptySet DEF AreaSliced
<1>. QED BY <1>4, <1>5 DEF SInv

\* One more slice, or none: what it does to its area.
LEMMA SliceGiven ==
  ASSUME IInv, SInv, NEW s \in Side, get_buffer_slice(s)
  PROVE  AreaSliced(s)' /\ slice'[s] \in Nat /\ given'[s] \subseteq Nat
<1>. DEFINE a == alignment[s]  w == slice_usage[s]  st == StepOf(s)
            b == buffer[s]  u == usage[s]  g == given[s]
            nx == NextSlice(s)
<1>1. /\ a \in Nat \ {0} /\ w \in Nat \ {0} /\ b \in Nat /\ u \in Nat /\ g \subseteq Nat
      /\ slice[s] \in Nat /\ AreaSliced(s)
  BY DEF IInv, Typed, SInv, SliceTypes, get_buffer_slice
<1>2. st \in Nat /\ w <= st
  BY <1>1, SliceStepType DEF StepOf
<1>3. UNCHANGED <<alignment, slice_usage, buffer, usage>> /\ st' = st
  BY DEF get_buffer_slice, settings, StepOf
<1>4. slice'[s] = IF nx - b <= u - w THEN nx ELSE NULL
  BY DEF get_buffer_slice, SInv, SliceTypes, InArea
<1>5. given'[s] = (IF slice[s] = NULL THEN {} ELSE g)
                    \cup (IF slice'[s] = NULL THEN {} ELSE {slice'[s]})
  BY DEF get_buffer_slice, SInv, SliceTypes
<1>6. b % (2 * a) = a /\ b # 0
  <2>1. b % (2 * a) = a
    BY <1>1 DEF AreaSliced
  <2>2. 0 % (2 * a) = 0
    BY <1>1, 2 * a \in Nat \ {0}
  <2>. QED BY <1>1, <2>1, <2>2
<1>7. CASE slice[s] = NULL
  <2>1. nx = b
    BY <1>7 DEF NextSlice
  <2>2. CASE b - b <= u - w
    <3>1. slice'[s] = b /\ given'[s] = {b} /\ b # NULL
      BY <1>4, <1>5, <1>6, <1>7, <2>1, <2>2 DEF NULL
    <3>2. Cardinality({b}) = 1 /\ IsFiniteSet({b})
      BY FS_Singleton
    <3>3. b + w <= b + u /\ b + st = b + st * 1
      BY <1>1, <1>2, <2>2
    <3>. QED BY <1>1, <1>3, <1>6, <3>1, <3>2, <3>3 DEF AreaSliced, NULL
  <2>3. CASE ~(b - b <= u - w)
    <3>1. slice'[s] = NULL /\ given'[s] = {}
      BY <1>4, <1>5, <1>7, <2>1, <2>3
    <3>. QED BY <1>3, <1>6, <3>1, FS_EmptySet DEF AreaSliced, NULL
  <2>. QED BY <2>2, <2>3
<1>8. CASE slice[s] # NULL
  <2>. DEFINE n == Cardinality(g)
  <2>1. /\ IsFiniteSet(g) /\ slice[s] \in g /\ (\A p \in g : p <= slice[s])
        /\ slice[s] + st = b + st * n
        /\ slice[s] % (2 * a) = a /\ b <= slice[s]
    BY <1>1, <1>8 DEF AreaSliced
  <2>2. n \in Nat /\ st * n \in Nat /\ st * (n + 1) = st * n + st
    <3>1. n \in Nat
      BY <2>1, FS_CardinalityType
    <3>. HIDE DEF n, st
    <3>. QED BY <1>2, <3>1
  <2>3. nx = slice[s] + st
    <3>1. nx = align_ptr(slice[s] + w, a)
      BY <1>8 DEF NextSlice
    <3>2. slice[s] % (2 * a) = a
      BY <2>1
    <3>. QED BY <1>1, <3>1, <3>2, NextAligned DEF StepOf
  <2>. HIDE DEF n, st, nx, a, w, b, u, g
  <2>4. CASE nx - b <= u - w
    <3>1. nx # NULL /\ nx \in Nat
      BY <1>1, <1>2, <2>3 DEF NULL
    <3>2. slice'[s] = nx /\ given'[s] = g \cup {nx}
      BY <1>4, <1>5, <1>8, <2>4, <3>1
    <3>3. \A p \in g : p \in Nat /\ p + w <= nx
      BY <1>1, <1>2, <2>1, <2>3
    <3>4. nx \notin g
      BY <1>1, <3>1, <3>3
    <3>5. Cardinality(given'[s]) = n + 1 /\ IsFiniteSet(given'[s])
      BY <2>1, <3>2, <3>4, FS_AddElement DEF n
    <3>6. nx + st = b + st * (n + 1)
      BY <1>1, <1>2, <2>1, <2>2, <2>3
    <3>7. b <= nx /\ nx + w <= b + u
      BY <1>1, <1>2, <2>1, <2>3, <2>4
    <3>8. nx % (2 * a) = a
      <4>1. slice[s] + w \in Nat
        BY <1>1
      <4>2. nx = align_ptr(slice[s] + w, a)
        BY <1>8 DEF nx, NextSlice, a, w
      <4>. QED BY <1>1, <4>1, <4>2, AlignedOdd
    <3>9. \A p \in g : /\ b <= p /\ p + w <= b + u
                       /\ p % (2 * a) = a
                       /\ \A q \in g \ {p} : p + w <= q \/ q + w <= p
      BY <1>1 DEF AreaSliced, a, w, b, u, g
    <3>10. \A p \in g \cup {nx} :
             /\ b <= p /\ p + w <= b + u
             /\ p % (2 * a) = a
             /\ \A q \in (g \cup {nx}) \ {p} : p + w <= q \/ q + w <= p
      BY <3>3, <3>7, <3>8, <3>9
    <3>11. \A p \in g \cup {nx} : p <= nx
      BY <1>1, <3>1, <3>3
    <3>12. slice'[s] # NULL /\ slice'[s] \in given'[s]
      BY <3>1, <3>2
    <3>13. AreaSliced(s)'
      BY <1>3, <1>6, <3>2, <3>5, <3>6, <3>10, <3>11, <3>12 DEF AreaSliced, a, w, b, u, st
    <3>. QED BY <1>1, <3>1, <3>2, <3>13 DEF g
  <2>5. CASE ~(nx - b <= u - w)
    <3>1. slice'[s] = NULL /\ given'[s] = g
      BY <1>4, <1>5, <1>8, <2>5
    <3>2. st * (n + 1) > u
      BY <1>1, <1>2, <2>1, <2>2, <2>3, <2>5
    <3>3. \A p \in g : /\ b <= p /\ p + w <= b + u
                       /\ p % (2 * a) = a
                       /\ \A q \in g \ {p} : p + w <= q \/ q + w <= p
      BY <1>1 DEF AreaSliced, a, w, b, u, g
    <3>4. AreaSliced(s)'
      BY <1>3, <1>6, <2>1, <3>1, <3>2, <3>3 DEF AreaSliced, a, w, b, u, st, n, NULL
    <3>. QED BY <1>1, <3>1, <3>4 DEF g, NULL
  <2>. QED BY <2>4, <2>5
<1>. QED BY <1>7, <1>8

LEMMA SliceSInv ==
  ASSUME IInv, SInv, NEW s \in Side, get_buffer_slice(s)
  PROVE  SInv'
<1>1. AreaSliced(s)' /\ slice'[s] \in Nat /\ given'[s] \subseteq Nat
  BY SliceGiven
<1>2. /\ UNCHANGED <<alignment, slice_usage, buffer, usage>> /\ pc = "run"
      /\ slice' = [slice EXCEPT ![s] = slice'[s]]
      /\ given' = [given EXCEPT ![s] = given'[s]]
  BY DEF get_buffer_slice, settings, SInv, SliceTypes
<1>3. SliceTypes'
  BY <1>1, <1>2 DEF SInv, SliceTypes
<1>4. ASSUME NEW t \in Side, t # s PROVE AreaSliced(t)'
  <2>1. slice'[t] = slice[t] /\ given'[t] = given[t]
    BY <1>2, <1>4 DEF SInv, SliceTypes
  <2>. QED BY <1>2, <2>1 DEF SInv, AreaSliced, StepOf
<1>. QED BY <1>1, <1>3, <1>4 DEF SInv

\* The slices a run has been given lie in their area, aligned and apart, and as many
\* fit as get_send_buffer_min_size promises: for all lengths and alignments.
THEOREM SlicesFit == Spec => []SlicesUsable
<1>1. IInv /\ SInv /\ [Next]_vars => SInv'
  BY OutsideSInv, RepeatSInv, SliceSInv
<1>2. ASSUME IInv, SInv PROVE SlicesUsable
  <2>. SUFFICES ASSUME pc = "run", NEW s \in Side
                PROVE  /\ \A p \in given[s] :
                            /\ buffer[s] <= p /\ p + slice_usage[s] <= buffer[s] + usage[s]
                            /\ p % (2 * alignment[s]) = alignment[s]
                            /\ \A q \in given[s] \ {p} :
                                 p + slice_usage[s] <= q \/ q + slice_usage[s] <= p
                       /\ slice[s] = NULL /\ given[s] # {} =>
                            get_buffer_min_size(s, slice_usage[s], Cardinality(given[s]) + 1)
                              > usage[s]
    BY DEF SlicesUsable
  <2>1. AreaSliced(s)
    BY <1>2 DEF SInv
  <2>2. /\ Cardinality(given[s]) + 1 \in Nat /\ slice_usage[s] \in Nat
        /\ alignment[s] \in Nat \ {0}
    BY <1>2, <2>1, FS_CardinalityType DEF IInv, Typed, SInv, SliceTypes, AreaSliced
  <2>3. get_buffer_min_size(s, slice_usage[s], Cardinality(given[s]) + 1)
          = StepOf(s) * (Cardinality(given[s]) + 1)
    BY <2>2, MinSize DEF StepOf
  <2>. QED BY <2>1, <2>3 DEF AreaSliced
<1>. QED BY <1>1, <1>2, InitSInv, Invariance, PTL DEF Spec
=============================================================================
