-------------------------- MODULE Interpreter_proof --------------------------
(***************************************************************************)
(* Proofs about Interpreter, for any ranks, programs, buffers and number   *)
(* of refining passes.                                                     *)
(*                                                                         *)
(* The stack of a rank has exactly the loops around its next statement     *)
(* (Stacked), so that an "end" belongs to the loop on top of it.  The      *)
(* values a loop has taken are kept in the history (Taken), and a set flag *)
(* says that the last statement was a measurement (Flagged).  With these a *)
(* loop that the program has passed has taken all its values (Passed).     *)
(*                                                                         *)
(* That ranks meet is a theorem about a kind of programs (Synchronous):    *)
(* for others it does not hold, since only the root of the last            *)
(* measurement initialises a refined loop.                                 *)
(***************************************************************************)
EXTENDS Interpreter, DataLemmas

Entry == [loop : Nat, internal : Int, passes : Int]
Points == {"run", "reduce", "choose", "failed"}

\* Loop k of the program pg is around statement number `at`.
IsLoop(pg, k) == k \in 1 .. Len(pg) /\ pg[k].op = "loop"
Open(pg, at, k) == IsLoop(pg, k) /\ k < at /\ at <= pg[k].end

\* The stack st has the loops around statement `at`, from the outermost on.
Stacked(pg, at, st) ==
  /\ st \in Seq(Entry)
  /\ \A i \in 1 .. Len(st) : Open(pg, at, st[i].loop)
  /\ \A i, j \in 1 .. Len(st) : i < j => st[i].loop < st[j].loop
  /\ \A k \in Nat : Open(pg, at, k) => \E i \in 1 .. Len(st) : st[i].loop = k

\* Loop k of pg has come to x = first + n step, and taken the values up to it.
ValueOf(s, i) == s.first + i * s.step
Taken(pg, k, x, ran) ==
  \E n \in Nat : /\ x = ValueOf(pg[k], n)
                 /\ \A i \in 0 .. n : <<k, ValueOf(pg[k], i)>> \in ran
TookAll(pg, k, ran) ==
  \A i \in Nat : Holds(pg[k], ValueOf(pg[k], i)) => <<k, ValueOf(pg[k], i)>> \in ran

\* A body has run only if the bodies around it have.
HasRun(ran, k) == \E body \in ran : body[1] = k
RunsInside(pg, ran) ==
  \A k, j \in Nat : Open(pg, k, j) /\ HasRun(ran, k) => HasRun(ran, j)

\* The loops of OnlyInnermostAborted: a measurement in the body of k is in a
\* loop in this body.
Unaborted(pg, k) ==
  /\ IsLoop(pg, k) /\ ~pg[k].refine /\ pg[k].last # NoLast
  /\ \A j \in k + 1 .. pg[k].end - 1 :
       (\A m \in k + 1 .. j - 1 : pg[m].op = "loop" => pg[m].end < j) => pg[j].op # "measure"
Reached(pg, k, ran) == \A j \in Nat : Open(pg, k, j) => HasRun(ran, j)

\* Of a loop that is reached all values have been taken, unless the rank is in
\* it, or still before it in the bodies around it.
Before(pg, at, k) == at <= k /\ \A j \in Nat : Open(pg, k, j) => j < at
Passed(pg, at, ran) ==
  \A k \in Nat : Unaborted(pg, k) /\ Reached(pg, k, ran)
                 => TookAll(pg, k, ran) \/ Open(pg, at, k) \/ Before(pg, at, k)

\* A set flag is that of the last statement, or left by the refining of a loop.
Flagged(pg, at, flag) ==
  flag => /\ at > 1
          /\ \/ pg[at - 1].op = "measure"
             \/ pg[at - 1].op = "loop" /\ pg[at - 1].refine

\* The loops on the stack have taken the values up to theirs, and begun: a
\* loop that is refined before its first value only when it chooses one.
Filled(pg, st, ran) ==
  \A i \in 1 .. Len(st) : ~pg[st[i].loop].refine =>
    st[i].passes = -1 /\ Taken(pg, st[i].loop, st[i].internal, ran)
Begun(st, pt, ran) ==
  \A i \in 1 .. Len(st) : i < Len(st) \/ pt \in {"run", "reduce"} => HasRun(ran, st[i].loop)

\* Where a rank can be.
Placed(pg, at, pt) ==
  /\ at \in Nat /\ 1 <= at /\ at <= Len(pg) + 1
  /\ pt = "reduce" => at <= Len(pg) /\ pg[at].op = "measure"
  /\ pt = "choose" => at <= Len(pg) /\ pg[at].op = "end" /\ pg[pg[at].loop].refine

\* All that holds of one rank, at point pt of statement `at`.
Sound(pg, at, pt, st, flag, ran) ==
  /\ Placed(pg, at, pt)
  /\ Stacked(pg, at, st)
  /\ Filled(pg, st, ran)
  /\ Begun(st, pt, ran)
  /\ Flagged(pg, at, flag)
  /\ RunsInside(pg, ran)
  /\ Passed(pg, at, ran)

IInv ==
  /\ program \in Programs
  /\ pc \in [Rank -> Nat] /\ point \in [Rank -> Points]
  /\ stack \in [Rank -> Seq(Entry)]
  /\ abort_inner_loop \in [Rank -> BOOLEAN]
  /\ entered \in [Rank -> SUBSET (Nat \X Int)]
  /\ \A p \in Rank : Sound(program, pc[p], point[p], stack[p], abort_inner_loop[p], entered[p])

-----------------------------------------------------------------------------
(* Statements. *)

\* What the assumptions say of one program.
LEMMA Shape ==
  ASSUME NEW pg \in Programs
  PROVE  /\ pg \in Seq(Statements) /\ Len(pg) \in Nat
         /\ \A k \in 1 .. Len(pg) : pg[k] \in Statements /\ pg[k].op \in {"measure", "loop", "end"}
         /\ \A k \in Nat : IsLoop(pg, k) =>
              /\ pg[k].var \in Var /\ pg[k].first \in Nat /\ pg[k].last \in Nat
              /\ pg[k].step \in Int \ {0} /\ pg[k].refine \in BOOLEAN
              /\ pg[k].end \in Nat /\ k < pg[k].end /\ pg[k].end <= Len(pg)
              /\ pg[pg[k].end].op = "end" /\ pg[pg[k].end].loop = k
              /\ (pg[k].last = NoLast => pg[k].step > 0)
         /\ \A k, j \in Nat : IsLoop(pg, k) /\ IsLoop(pg, j) /\ k < j /\ j < pg[k].end
              => pg[j].end < pg[k].end
         /\ \A k \in 1 .. Len(pg) : pg[k].op = "end" =>
              /\ IsLoop(pg, pg[k].loop) /\ pg[k].loop \in Nat
              /\ pg[pg[k].loop].end = k /\ pg[k].loop < k
<1>1. pg \in Seq(Statements) /\ Len(pg) \in Nat
  BY ProgramsTyped, LenProperties
<1>2. \A k \in 1 .. Len(pg) : pg[k] \in Statements
  BY <1>1, ElementOfSeq
<1>3. \A s \in Statements :
        /\ s.op \in {"measure", "loop", "end"}
        /\ s.op = "loop" => /\ s.var \in Var /\ s.first \in Nat /\ s.last \in Nat
                            /\ s.step \in Int \ {0} /\ s.refine \in BOOLEAN /\ s.end \in Nat
  BY DEF Statements
<1>4. \A k \in 1 .. Len(pg) :
        /\ pg[k].op = "loop" =>
          /\ pg[k].end \in k + 1 .. Len(pg) /\ pg[pg[k].end] = [op |-> "end", loop |-> k]
          /\ \A j \in k + 1 .. pg[k].end - 1 : pg[j].op = "loop" => pg[j].end < pg[k].end
          /\ pg[k].last = NoLast => pg[k].step > 0
        /\ pg[k].op = "end" =>
          pg[k].loop \in 1 .. k - 1 /\ pg[pg[k].loop].op = "loop" /\ pg[pg[k].loop].end = k
  BY ProgramsWellFormed
<1>5. \A k \in Nat : IsLoop(pg, k) =>
        /\ pg[k].var \in Var /\ pg[k].first \in Nat /\ pg[k].last \in Nat
        /\ pg[k].step \in Int \ {0} /\ pg[k].refine \in BOOLEAN
        /\ pg[k].end \in Nat /\ k < pg[k].end /\ pg[k].end <= Len(pg)
        /\ pg[pg[k].end].op = "end" /\ pg[pg[k].end].loop = k
        /\ (pg[k].last = NoLast => pg[k].step > 0)
  <2>. SUFFICES ASSUME NEW k \in Nat, IsLoop(pg, k)
                PROVE  /\ pg[k].var \in Var /\ pg[k].first \in Nat /\ pg[k].last \in Nat
                       /\ pg[k].step \in Int \ {0} /\ pg[k].refine \in BOOLEAN
                       /\ pg[k].end \in Nat /\ k < pg[k].end /\ pg[k].end <= Len(pg)
                       /\ pg[pg[k].end].op = "end" /\ pg[pg[k].end].loop = k
                       /\ (pg[k].last = NoLast => pg[k].step > 0)
    OBVIOUS
  <2>1. k \in 1 .. Len(pg) /\ pg[k].op = "loop"
    BY DEF IsLoop
  <2>2. /\ pg[k].var \in Var /\ pg[k].first \in Nat /\ pg[k].last \in Nat
        /\ pg[k].step \in Int \ {0} /\ pg[k].refine \in BOOLEAN
    BY <1>2, <1>3, <2>1
  <2>3. /\ pg[k].end \in k + 1 .. Len(pg) /\ pg[pg[k].end] = [op |-> "end", loop |-> k]
        /\ (pg[k].last = NoLast => pg[k].step > 0)
    BY <1>4, <2>1
  <2>4. pg[k].end \in Nat /\ k < pg[k].end /\ pg[k].end <= Len(pg)
    BY <1>1, <2>3
  <2>5. pg[pg[k].end].op = "end" /\ pg[pg[k].end].loop = k
    BY <2>3
  <2>. QED BY <2>2, <2>3, <2>4, <2>5
<1>6. ASSUME NEW k \in Nat, NEW j \in Nat, IsLoop(pg, k), IsLoop(pg, j), k < j, j < pg[k].end
      PROVE  pg[j].end < pg[k].end
  <2>1. pg[k].end \in Nat
    BY <1>5, <1>6
  <2>2. j \in k + 1 .. pg[k].end - 1
    BY <1>6, <2>1
  <2>. QED BY <1>4, <1>6, <2>2 DEF IsLoop
<1>7. ASSUME NEW k \in 1 .. Len(pg), pg[k].op = "end"
      PROVE  /\ IsLoop(pg, pg[k].loop) /\ pg[k].loop \in Nat
             /\ pg[pg[k].loop].end = k /\ pg[k].loop < k
  <2>1. pg[k].loop \in 1 .. k - 1 /\ pg[pg[k].loop].op = "loop" /\ pg[pg[k].loop].end = k
    BY <1>4, <1>7
  <2>2. pg[k].loop \in 1 .. Len(pg) /\ pg[k].loop \in Nat /\ pg[k].loop < k
    BY <1>1, <2>1
  <2>. QED BY <2>1, <2>2 DEF IsLoop
<1>. QED BY <1>1, <1>2, <1>3, <1>5, <1>6, <1>7

\* Which loops are around the statements before, in and behind a loop.
LEMMA AroundLoop ==
  ASSUME NEW pg \in Programs, NEW m \in Nat, IsLoop(pg, m), NEW k \in Nat
  PROVE  /\ Open(pg, m + 1, k) <=> Open(pg, m, k) \/ k = m
         /\ Open(pg, pg[m].end, k) <=> Open(pg, m, k) \/ k = m
         /\ Open(pg, pg[m].end + 1, k) <=> Open(pg, m, k)
         /\ Open(pg, m, k) => k < m
<1>1. /\ pg[m].end \in Nat /\ m < pg[m].end
      /\ pg[pg[m].end].op = "end" /\ pg[pg[m].end].loop = m /\ pg[m].op = "loop"
  BY Shape DEF IsLoop
<1>2. CASE ~IsLoop(pg, k)
  BY <1>2 DEF Open
<1>3. CASE IsLoop(pg, k)
  <2>1. /\ pg[k].end \in Nat /\ k < pg[k].end
        /\ pg[pg[k].end].op = "end" /\ pg[pg[k].end].loop = k
    BY <1>3, Shape
  <2>2. k < m /\ m < pg[k].end => pg[m].end < pg[k].end
    BY <1>3, Shape
  <2>3. m < k /\ k < pg[m].end => pg[k].end < pg[m].end
    BY <1>3, Shape
  <2>4. pg[k].end # m
    BY <1>1, <2>1
  <2>5. k # pg[m].end
    BY <1>1, <1>3 DEF IsLoop
  <2>6. k # m => pg[k].end # pg[m].end
    BY <1>1, <2>1
  <2>. QED BY <1>1, <1>3, <2>1, <2>2, <2>3, <2>4, <2>5, <2>6 DEF Open
<1>. QED BY <1>2, <1>3

\* A measurement is in the same loops as the statement behind it.
LEMMA AroundMeasure ==
  ASSUME NEW pg \in Programs, NEW m \in 1 .. Len(pg), pg[m].op = "measure", NEW k \in Nat
  PROVE  Open(pg, m + 1, k) <=> Open(pg, m, k)
<1>1. CASE ~IsLoop(pg, k)
  BY <1>1 DEF Open
<1>2. CASE IsLoop(pg, k)
  <2>1. pg[k].end \in Nat /\ pg[pg[k].end].op = "end" /\ m \in Nat
    BY <1>2, Shape
  <2>2. pg[k].end # m /\ k # m
    BY <1>2, <2>1 DEF IsLoop
  <2>. QED BY <1>2, <2>1, <2>2 DEF Open
<1>. QED BY <1>1, <1>2

-----------------------------------------------------------------------------
(* The stack. *)

LEMMA FrontOf ==
  ASSUME NEW S, NEW st \in Seq(S), st # << >>
  PROVE  /\ Len(st) \in Nat /\ Len(st) >= 1 /\ Last(st) = st[Len(st)] /\ Last(st) \in S
         /\ Front(st) \in Seq(S) /\ Len(Front(st)) = Len(st) - 1
         /\ \A i \in 1 .. Len(st) - 1 : Front(st)[i] = st[i]
<1>1. Len(st) \in Nat /\ Len(st) >= 1
  BY EmptySeq
<1>2. st[Len(st)] \in S
  BY <1>1, ElementOfSeq
<1>3. \A i \in 1 .. Len(st) - 1 : st[i] \in S
  <2>. SUFFICES ASSUME NEW i \in 1 .. Len(st) - 1 PROVE st[i] \in S
    OBVIOUS
  <2>. QED BY <1>1, i \in 1 .. Len(st), ElementOfSeq
<1>4. 1 \in Int /\ Len(st) - 1 \in Int
  BY <1>1
<1>5. /\ SubSeq(st, 1, Len(st) - 1) \in Seq(S)
      /\ Len(SubSeq(st, 1, Len(st) - 1)) = Len(st) - 1
      /\ \A i \in 1 .. Len(st) - 1 : SubSeq(st, 1, Len(st) - 1)[i] = st[i]
  <2>1. /\ SubSeq(st, 1, Len(st) - 1) \in Seq(S)
        /\ Len(SubSeq(st, 1, Len(st) - 1)) = IF 1 <= Len(st) - 1 THEN (Len(st) - 1) - 1 + 1 ELSE 0
        /\ \A i \in 1 .. (Len(st) - 1) - 1 + 1 : SubSeq(st, 1, Len(st) - 1)[i] = st[1 + i - 1]
    BY <1>3, <1>4, SubSeqProperties
  <2>. DEFINE n == Len(st) - 1
              s == SubSeq(st, 1, n)
  <2>2. n \in Nat
    BY <1>1
  <2>3. Len(s) = n
    <3>1. Len(s) = IF 1 <= n THEN n - 1 + 1 ELSE 0
      BY <2>1
    <3>. HIDE DEF s, n
    <3>. QED BY <2>2, <3>1
  <2>4. \A i \in 1 .. n : s[i] = st[i]
    <3>. HIDE DEF s
    <3>1. \A i \in 1 .. n - 1 + 1 : s[i] = st[1 + i - 1]
      BY <2>1 DEF s
    <3>2. n - 1 + 1 = n
      BY <2>2
    <3>3. \A i \in 1 .. n : 1 + i - 1 = i
      OBVIOUS
    <3>. QED BY <3>1, <3>2, <3>3
  <2>. QED BY <2>1, <2>3, <2>4
<1>. QED BY <1>1, <1>2, <1>5 DEF Front, Last

LEMMA LoopOfEntry ==
  ASSUME NEW st \in Seq(Entry)
  PROVE  \A i \in 1 .. Len(st) : st[i].loop \in Nat
<1>1. \A i \in 1 .. Len(st) : st[i] \in Entry
  BY ElementOfSeq
<1>. QED BY <1>1 DEF Entry

\* With the same loops around it, a statement has the same stack.
LEMMA StaysStacked ==
  ASSUME NEW pg, NEW at, NEW at2, NEW st, Stacked(pg, at, st),
         \A k \in Nat : Open(pg, at2, k) <=> Open(pg, at, k)
  PROVE  Stacked(pg, at2, st)
<1>1. \A i \in 1 .. Len(st) : st[i].loop \in Nat
  BY LoopOfEntry DEF Stacked
<1>. QED BY <1>1 DEF Stacked

LEMMA Restacked ==
  ASSUME NEW pg, NEW at, NEW st, Stacked(pg, at, st), NEW st2 \in Seq(Entry),
         Len(st2) = Len(st), \A i \in 1 .. Len(st) : st2[i].loop = st[i].loop
  PROVE  Stacked(pg, at, st2)
BY DEF Stacked

\* Into loop m, at its body or at its end.
LEMMA Pushed ==
  ASSUME NEW pg \in Programs, NEW m \in Nat, IsLoop(pg, m), NEW st, Stacked(pg, m, st),
         NEW e \in Entry, e.loop = m, NEW at \in {m + 1, pg[m].end}
  PROVE  Stacked(pg, at, Append(st, e))
<1>. DEFINE s == Append(st, e)
<1>1. st \in Seq(Entry) /\ Len(st) \in Nat
  BY LenProperties DEF Stacked
<1>2. /\ s \in Seq(Entry) /\ Len(s) = Len(st) + 1 /\ s[Len(st) + 1] = e
      /\ \A i \in 1 .. Len(st) : s[i] = st[i]
  BY <1>1, AppendProperties
<1>3. \A k \in Nat : (Open(pg, at, k) <=> Open(pg, m, k) \/ k = m) /\ (Open(pg, m, k) => k < m)
  BY AroundLoop
<1>4. \A i \in 1 .. Len(st) : st[i].loop \in Nat
  BY <1>1, LoopOfEntry
<1>. HIDE DEF s
<1>5. ASSUME NEW i \in 1 .. Len(s) PROVE Open(pg, at, s[i].loop)
  <2>1. i \in 1 .. Len(st) \/ i = Len(st) + 1
    BY <1>1, <1>2
  <2>. QED BY <1>2, <1>3, <1>4, <2>1 DEF Stacked
<1>6. ASSUME NEW i \in 1 .. Len(s), NEW j \in 1 .. Len(s), i < j PROVE s[i].loop < s[j].loop
  <2>1. i \in 1 .. Len(st) /\ (j \in 1 .. Len(st) \/ j = Len(st) + 1)
    BY <1>1, <1>2, <1>6
  <2>2. s[i].loop \in Nat /\ s[i].loop < m
    BY <1>2, <1>3, <1>4, <2>1 DEF Stacked
  <2>. QED BY <1>2, <1>6, <2>1, <2>2 DEF Stacked
<1>7. ASSUME NEW k \in Nat, Open(pg, at, k) PROVE \E i \in 1 .. Len(s) : s[i].loop = k
  <2>1. CASE k = m
    BY <1>1, <1>2, <2>1
  <2>2. CASE k # m
    <3>1. PICK i \in 1 .. Len(st) : st[i].loop = k
      BY <1>3, <1>7, <2>2 DEF Stacked
    <3>. QED BY <1>1, <1>2, <3>1
  <2>. QED BY <2>1, <2>2
<1>8. Stacked(pg, at, s)
  BY <1>2, <1>5, <1>6, <1>7 DEF Stacked
<1>. QED BY <1>8 DEF s

\* At the end of loop m, which is on top: below it are the loops around m.
LEMMA TopOfStack ==
  ASSUME NEW pg \in Programs, NEW m \in Nat, IsLoop(pg, m), NEW st, Stacked(pg, pg[m].end, st)
  PROVE  /\ st \in Seq(Entry) /\ st # << >> /\ Last(st) \in Entry /\ Last(st).loop = m
         /\ Stacked(pg, m, Front(st))
         /\ Stacked(pg, pg[m].end + 1, Front(st))
<1>1. st \in Seq(Entry) /\ Len(st) \in Nat
  BY LenProperties DEF Stacked
<1>2. \A k \in Nat : /\ Open(pg, pg[m].end, k) <=> Open(pg, m, k) \/ k = m
                     /\ Open(pg, pg[m].end + 1, k) <=> Open(pg, m, k)
                     /\ Open(pg, m, k) => k < m
  BY AroundLoop
<1>3. PICK i \in 1 .. Len(st) : st[i].loop = m
  BY <1>2 DEF Stacked
<1>4. st # << >>
  BY <1>1, <1>3, EmptySeq
<1>5. \A j \in 1 .. Len(st) : st[j].loop \in Nat /\ (st[j].loop = m \/ Open(pg, m, st[j].loop))
  BY <1>1, <1>2, LoopOfEntry DEF Stacked
<1>6. i = Len(st)
  <2>. SUFFICES ASSUME i # Len(st) PROVE FALSE
    OBVIOUS
  <2>1. Len(st) \in 1 .. Len(st) /\ i < Len(st)
    BY <1>1
  <2>2. m < st[Len(st)].loop
    BY <1>3, <2>1 DEF Stacked
  <2>3. st[Len(st)].loop <= m
    BY <1>2, <1>5, <2>1
  <2>. QED BY <1>5, <2>1, <2>2, <2>3
<1>7. Last(st) \in Entry /\ Last(st).loop = m
  BY <1>1, <1>3, <1>4, <1>6, FrontOf
<1>. DEFINE s == Front(st)
<1>8. /\ s \in Seq(Entry) /\ Len(s) = Len(st) - 1 /\ Len(st) >= 1
      /\ \A j \in 1 .. Len(st) - 1 : s[j] = st[j]
  BY <1>1, <1>4, FrontOf
<1>. HIDE DEF s
<1>9. \A j \in 1 .. Len(s) : j \in 1 .. Len(st) /\ j < Len(st) /\ s[j] = st[j]
  BY <1>1, <1>8
<1>10. ASSUME NEW j \in 1 .. Len(s) PROVE Open(pg, m, s[j].loop)
  <2>1. Len(st) \in 1 .. Len(st) /\ st[j].loop < m
    BY <1>1, <1>3, <1>6, <1>9 DEF Stacked
  <2>2. st[j].loop # m
    BY <1>5, <1>9, <2>1
  <2>. QED BY <1>5, <1>9, <2>2
<1>11. \A j, k \in 1 .. Len(s) : j < k => s[j].loop < s[k].loop
  BY <1>9 DEF Stacked
<1>12. ASSUME NEW k \in Nat, Open(pg, m, k) PROVE \E j \in 1 .. Len(s) : s[j].loop = k
  <2>1. k # m /\ Open(pg, pg[m].end, k)
    BY <1>2, <1>12
  <2>2. PICK j \in 1 .. Len(st) : st[j].loop = k
    BY <2>1 DEF Stacked
  <2>3. j # Len(st)
    BY <1>3, <1>6, <2>1, <2>2
  <2>4. j \in 1 .. Len(s)
    BY <1>1, <1>8, <2>3
  <2>. QED BY <1>9, <2>2, <2>4
<1>13. Stacked(pg, m, s)
  BY <1>8, <1>10, <1>11, <1>12 DEF Stacked
<1>14. Stacked(pg, pg[m].end + 1, s)
  BY <1>2, <1>13, StaysStacked
<1>. QED BY <1>1, <1>4, <1>7, <1>13, <1>14 DEF s

-----------------------------------------------------------------------------
(* What the loops have taken. *)

LEMMA Product ==
  ASSUME NEW n \in Nat, NEW i \in Nat, n <= i, NEW d \in Int
  PROVE  /\ n * d \in Int /\ i * d \in Int
         /\ d > 0 => n * d <= i * d
         /\ d < 0 => n * d >= i * d
<1>1. n * d \in Int /\ i * d \in Int /\ (i - n) * d \in Int /\ i * d = n * d + (i - n) * d
  OBVIOUS
<1>2. d > 0 => (i - n) * d >= 0
  OBVIOUS
<1>3. d < 0 => (i - n) * d <= 0
  OBVIOUS
<1>. QED BY <1>1, <1>2, <1>3

\* A loop that has come to its last value has no other behind it.
LEMMA HoldsBefore ==
  ASSUME NEW pg \in Programs, NEW m \in Nat, IsLoop(pg, m),
         NEW n \in Nat, NEW i \in Nat, n <= i, Holds(pg[m], ValueOf(pg[m], i))
  PROVE  Holds(pg[m], ValueOf(pg[m], n))
<1>1. pg[m].first \in Nat /\ pg[m].last \in Nat /\ pg[m].step \in Int \ {0}
  BY Shape
<1>2. /\ n * pg[m].step \in Int /\ i * pg[m].step \in Int
      /\ pg[m].step > 0 => n * pg[m].step <= i * pg[m].step
      /\ pg[m].step < 0 => n * pg[m].step >= i * pg[m].step
  BY <1>1, Product
<1>. QED BY <1>1, <1>2 DEF Holds, ValueOf

LEMMA ValueIsInt ==
  ASSUME NEW pg \in Programs, NEW m \in Nat, IsLoop(pg, m), NEW n \in Nat
  PROVE  /\ ValueOf(pg[m], n) \in Int
         /\ ValueOf(pg[m], n) + pg[m].step = ValueOf(pg[m], n + 1)
         /\ ValueOf(pg[m], 0) = pg[m].first
<1>1. pg[m].first \in Nat /\ pg[m].step \in Int
  BY Shape
<1>2. /\ n * pg[m].step \in Int /\ (n + 1) * pg[m].step = n * pg[m].step + pg[m].step
      /\ 0 * pg[m].step = 0
  BY <1>1
<1>. QED BY <1>1, <1>2 DEF ValueOf

\* The first value.
LEMMA TakenFirst ==
  ASSUME NEW pg \in Programs, NEW m \in Nat, IsLoop(pg, m), NEW ran
  PROVE  Taken(pg, m, pg[m].first, ran \cup {<<m, pg[m].first>>})
<1>1. ValueOf(pg[m], 0) = pg[m].first
  BY ValueIsInt
<1>2. \A i \in 0 .. 0 : <<m, ValueOf(pg[m], i)>> \in ran \cup {<<m, pg[m].first>>}
  BY <1>1
<1>. QED BY <1>1, <1>2 DEF Taken

\* The next one.
LEMMA TakenNext ==
  ASSUME NEW pg \in Programs, NEW m \in Nat, IsLoop(pg, m), NEW ran, NEW x, Taken(pg, m, x, ran)
  PROVE  Taken(pg, m, x + pg[m].step, ran \cup {<<m, x + pg[m].step>>})
<1>1. PICK n \in Nat : /\ x = ValueOf(pg[m], n)
                       /\ \A i \in 0 .. n : <<m, ValueOf(pg[m], i)>> \in ran
  BY DEF Taken
<1>2. x + pg[m].step = ValueOf(pg[m], n + 1)
  BY <1>1, ValueIsInt
<1>3. \A i \in 0 .. n + 1 : <<m, ValueOf(pg[m], i)>> \in ran \cup {<<m, x + pg[m].step>>}
  <2>. SUFFICES ASSUME NEW i \in 0 .. n + 1
                PROVE  <<m, ValueOf(pg[m], i)>> \in ran \cup {<<m, x + pg[m].step>>}
    OBVIOUS
  <2>1. i \in 0 .. n \/ i = n + 1
    OBVIOUS
  <2>. QED BY <1>1, <1>2, <2>1
<1>4. n + 1 \in Nat
  OBVIOUS
<1>. QED BY <1>2, <1>3, <1>4 DEF Taken

LEMMA TakenMore ==
  ASSUME NEW pg, NEW m, NEW x, NEW ran, NEW ran2, ran \subseteq ran2, Taken(pg, m, x, ran)
  PROVE  Taken(pg, m, x, ran2)
BY DEF Taken

\* When the value behind those taken is not in the loop any more, they are all.
LEMMA TakenAll ==
  ASSUME NEW pg \in Programs, NEW m \in Nat, IsLoop(pg, m), NEW ran, NEW x, Taken(pg, m, x, ran),
         ~Holds(pg[m], x + pg[m].step)
  PROVE  TookAll(pg, m, ran)
<1>1. PICK n \in Nat : /\ x = ValueOf(pg[m], n)
                       /\ \A i \in 0 .. n : <<m, ValueOf(pg[m], i)>> \in ran
  BY DEF Taken
<1>2. ~Holds(pg[m], ValueOf(pg[m], n + 1)) /\ n + 1 \in Nat
  BY <1>1, ValueIsInt
<1>3. ASSUME NEW i \in Nat, Holds(pg[m], ValueOf(pg[m], i))
      PROVE  <<m, ValueOf(pg[m], i)>> \in ran
  <2>1. ~(n + 1 <= i)
    BY <1>2, <1>3, HoldsBefore
  <2>2. i \in 0 .. n
    BY <2>1
  <2>. QED BY <1>1, <2>2
<1>. QED BY <1>3 DEF TookAll

\* A loop left at once has no values.
LEMMA TookNone ==
  ASSUME NEW pg \in Programs, NEW m \in Nat, IsLoop(pg, m), NEW ran, ~Holds(pg[m], pg[m].first)
  PROVE  TookAll(pg, m, ran)
<1>1. ~Holds(pg[m], ValueOf(pg[m], 0))
  BY ValueIsInt
<1>2. ASSUME NEW i \in Nat PROVE ~Holds(pg[m], ValueOf(pg[m], i))
  BY <1>1, HoldsBefore, 0 <= i
<1>. QED BY <1>2 DEF TookAll

LEMMA HasRunMore ==
  ASSUME NEW ran, NEW m, NEW x, NEW k
  PROVE  HasRun(ran \cup {<<m, x>>}, k) <=> HasRun(ran, k) \/ k = m
<1>1. <<m, x>>[1] = m
  OBVIOUS
<1>2. <<m, x>> \in ran \cup {<<m, x>>}
  OBVIOUS
<1>3. \A body \in ran \cup {<<m, x>>} : body \in ran \/ body = <<m, x>>
  OBVIOUS
<1>4. CASE k = m
  BY <1>1, <1>2, <1>4 DEF HasRun
<1>5. CASE k # m
  <2>1. ASSUME NEW body \in ran \cup {<<m, x>>}, body[1] = k PROVE HasRun(ran, k)
    <3>1. body # <<m, x>>
      BY <1>1, <1>5, <2>1
    <3>. QED BY <1>3, <2>1, <3>1 DEF HasRun
  <2>2. HasRun(ran, k) => HasRun(ran \cup {<<m, x>>}, k)
    BY DEF HasRun
  <2>. QED BY <1>5, <2>1, <2>2 DEF HasRun
<1>. QED BY <1>4, <1>5

-----------------------------------------------------------------------------
(* Which loops have been passed, for each way from statement to statement. *)

LEMMA PassedMeasure ==
  ASSUME NEW pg \in Programs, NEW m \in 1 .. Len(pg), pg[m].op = "measure", NEW ran,
         Passed(pg, m, ran)
  PROVE  Passed(pg, m + 1, ran)
<1>. SUFFICES ASSUME NEW k \in Nat, Unaborted(pg, k), Reached(pg, k, ran)
              PROVE  TookAll(pg, k, ran) \/ Open(pg, m + 1, k) \/ Before(pg, m + 1, k)
  BY DEF Passed
<1>1. TookAll(pg, k, ran) \/ Open(pg, m, k) \/ Before(pg, m, k)
  BY DEF Passed
<1>2. k # m /\ m \in Nat
  BY DEF Unaborted, IsLoop
<1>3. Before(pg, m, k) => Before(pg, m + 1, k)
  BY <1>2 DEF Before
<1>. QED BY <1>1, <1>3, AroundMeasure

\* Into the body of loop m, from its head or its end.
LEMMA PassedBody ==
  ASSUME NEW pg \in Programs, NEW m \in Nat, IsLoop(pg, m), NEW at \in {m, pg[m].end},
         NEW ran, NEW x, RunsInside(pg, ran), Reached(pg, m, ran), Passed(pg, at, ran)
  PROVE  /\ RunsInside(pg, ran \cup {<<m, x>>})
         /\ Passed(pg, m + 1, ran \cup {<<m, x>>})
<1>. DEFINE ran2 == ran \cup {<<m, x>>}
<1>1. \A k \in Nat : HasRun(ran2, k) <=> HasRun(ran, k) \/ k = m
  BY HasRunMore
<1>2. \A k \in Nat : TookAll(pg, k, ran) => TookAll(pg, k, ran2)
  BY DEF TookAll
<1>. HIDE DEF ran2
<1>3. RunsInside(pg, ran2)
  BY <1>1 DEF RunsInside, Reached
<1>4. pg[m].end \in Nat /\ m < pg[m].end
  BY Shape
<1>5. \A k \in Nat : /\ Open(pg, m + 1, k) <=> Open(pg, m, k) \/ k = m
                     /\ Open(pg, pg[m].end, k) <=> Open(pg, m, k) \/ k = m
  BY AroundLoop
<1>6. ASSUME NEW k \in Nat, Unaborted(pg, k), Reached(pg, k, ran2)
      PROVE  TookAll(pg, k, ran2) \/ Open(pg, m + 1, k) \/ Before(pg, m + 1, k)
  <2>. SUFFICES ASSUME k # m PROVE TookAll(pg, k, ran2) \/ Open(pg, m + 1, k) \/ Before(pg, m + 1, k)
    BY <1>5
  <2>1. CASE Reached(pg, k, ran)
    <3>1. CASE TookAll(pg, k, ran)
      BY <1>2, <3>1
    <3>2. CASE Open(pg, at, k)
      BY <1>5, <3>2
    <3>3. CASE Before(pg, at, k)
      <4>1. m + 1 <= k
        BY <1>4, <3>3 DEF Before
      <4>2. ASSUME NEW j \in Nat, Open(pg, k, j) PROVE j < m + 1
        <5>1. j < at /\ at <= k /\ k <= pg[j].end
          BY <3>3, <4>2 DEF Before, Open
        <5>2. IsLoop(pg, j) /\ pg[j].end \in Nat
          BY <4>2, Shape DEF Open
        <5>3. m < j /\ j < pg[m].end => pg[j].end < pg[m].end
          BY <5>2, Shape
        <5>. QED BY <1>4, <5>1, <5>2, <5>3
      <4>. QED BY <4>1, <4>2 DEF Before
    <3>. QED BY <2>1, <1>6, <3>1, <3>2, <3>3 DEF Passed
  <2>2. CASE ~Reached(pg, k, ran)
    <3>1. PICK j \in Nat : Open(pg, k, j) /\ ~HasRun(ran, j)
      BY <2>2 DEF Reached
    <3>2. j = m
      BY <1>1, <1>6, <3>1 DEF Reached
    <3>3. m < k /\ k <= pg[m].end
      BY <3>1, <3>2 DEF Open
    <3>4. ASSUME NEW i \in Nat, Open(pg, k, i) PROVE i < m + 1
      <4>. SUFFICES ASSUME m < i PROVE FALSE
        OBVIOUS
      <4>1. HasRun(ran, i)
        BY <1>1, <1>6, <3>4 DEF Reached
      <4>2. i < k
        BY <3>4 DEF Open
      <4>3. Open(pg, i, m)
        BY <1>4, <3>3, <4>2 DEF Open
      <4>. QED BY <3>1, <3>2, <4>1, <4>3 DEF RunsInside
    <3>. QED BY <3>3, <3>4 DEF Before
  <2>. QED BY <2>1, <2>2
<1>7. Passed(pg, m + 1, ran2)
  BY <1>6 DEF Passed
<1>. QED BY <1>3, <1>7 DEF ran2

\* To the end of a loop that is refined before it has taken a value.
LEMMA PassedChoose ==
  ASSUME NEW pg \in Programs, NEW m \in Nat, IsLoop(pg, m), pg[m].refine, NEW ran,
         Passed(pg, m, ran)
  PROVE  Passed(pg, pg[m].end, ran)
<1>1. pg[m].end \in Nat /\ m < pg[m].end /\ pg[pg[m].end].op = "end"
  BY Shape
<1>. SUFFICES ASSUME NEW k \in Nat, Unaborted(pg, k), Reached(pg, k, ran)
              PROVE  TookAll(pg, k, ran) \/ Open(pg, pg[m].end, k) \/ Before(pg, pg[m].end, k)
  BY DEF Passed
<1>2. k # m /\ k # pg[m].end
  BY <1>1 DEF Unaborted, IsLoop
<1>3. Open(pg, m, k) => Open(pg, pg[m].end, k)
  BY AroundLoop
<1>4. CASE Before(pg, m, k)
  <2>1. ~(k < pg[m].end)
    BY <1>1, <1>2, <1>4 DEF Before, Open
  <2>2. pg[m].end <= k
    BY <1>1, <2>1
  <2>3. \A j \in Nat : Open(pg, k, j) => j < pg[m].end
    BY <1>1, <1>4 DEF Before
  <2>. QED BY <2>2, <2>3 DEF Before
<1>. QED BY <1>3, <1>4 DEF Passed

\* Past a loop, from its head or its end, that has taken all its values.
LEMMA PassedLoop ==
  ASSUME NEW pg \in Programs, NEW m \in Nat, IsLoop(pg, m), NEW at \in {m, pg[m].end}, NEW ran,
         Passed(pg, at, ran), Unaborted(pg, m) => TookAll(pg, m, ran)
  PROVE  Passed(pg, pg[m].end + 1, ran)
<1>1. pg[m].end \in Nat /\ m < pg[m].end /\ pg[pg[m].end].op = "end"
  BY Shape
<1>. SUFFICES ASSUME NEW k \in Nat, Unaborted(pg, k), Reached(pg, k, ran), k # m
              PROVE  TookAll(pg, k, ran) \/ Open(pg, pg[m].end + 1, k)
                       \/ Before(pg, pg[m].end + 1, k)
  BY DEF Passed
<1>2. k # pg[m].end
  BY <1>1 DEF Unaborted, IsLoop
<1>3. Open(pg, at, k) => Open(pg, pg[m].end + 1, k)
  BY AroundLoop
<1>4. CASE Before(pg, at, k)
  <2>1. m < k
    BY <1>1, <1>4 DEF Before
  <2>2. pg[m].end < k
    <3>1. CASE at = m
      <4>1. ~(k < pg[m].end)
        BY <1>1, <1>4, <2>1, <3>1 DEF Before, Open
      <4>. QED BY <1>1, <1>2, <4>1
    <3>2. CASE at = pg[m].end
      BY <1>1, <1>2, <1>4, <3>2 DEF Before
    <3>. QED BY <3>1, <3>2
  <2>3. \A j \in Nat : Open(pg, k, j) => j < pg[m].end + 1
    BY <1>1, <1>4 DEF Before
  <2>. QED BY <1>1, <2>2, <2>3 DEF Before
<1>. QED BY <1>3, <1>4 DEF Passed

-----------------------------------------------------------------------------
(* What a rank is after each way from statement to statement. *)

LEMMA ReachedHere ==
  ASSUME NEW pg, NEW m \in Nat, NEW st, Stacked(pg, m, st), NEW ran,
         \A i \in 1 .. Len(st) : HasRun(ran, st[i].loop)
  PROVE  Reached(pg, m, ran)
BY DEF Reached, Stacked

LEMMA FrontEntries ==
  ASSUME NEW pg, NEW st \in Seq(Entry), st # << >>, NEW pt, NEW ran,
         Filled(pg, st, ran), Begun(st, pt, ran)
  PROVE  /\ Filled(pg, Front(st), ran)
         /\ \A i \in 1 .. Len(Front(st)) : HasRun(ran, Front(st)[i].loop)
         /\ ~pg[Last(st).loop].refine =>
              Last(st).passes = -1 /\ Taken(pg, Last(st).loop, Last(st).internal, ran)
<1>. DEFINE s == Front(st)
<1>1. /\ Len(st) \in Nat /\ Len(st) >= 1 /\ Last(st) = st[Len(st)]
      /\ Len(s) = Len(st) - 1
      /\ \A i \in 1 .. Len(st) - 1 : s[i] = st[i]
  BY FrontOf
<1>. HIDE DEF s
<1>2. \A i \in 1 .. Len(s) : i \in 1 .. Len(st) /\ i < Len(st) /\ s[i] = st[i]
  BY <1>1
<1>3. Filled(pg, s, ran)
  BY <1>2 DEF Filled
<1>4. \A i \in 1 .. Len(s) : HasRun(ran, s[i].loop)
  BY <1>2 DEF Begun
<1>5. Len(st) \in 1 .. Len(st)
  BY <1>1
<1>6. ~pg[Last(st).loop].refine =>
        Last(st).passes = -1 /\ Taken(pg, Last(st).loop, Last(st).internal, ran)
  BY <1>1, <1>5 DEF Filled
<1>. QED BY <1>3, <1>4, <1>6 DEF s

LEMMA PushedEntry ==
  ASSUME NEW pg, NEW st \in Seq(Entry), NEW e \in Entry, NEW pt, NEW ran, NEW ran2,
         ran \subseteq ran2, Filled(pg, st, ran),
         \A i \in 1 .. Len(st) : HasRun(ran, st[i].loop),
         ~pg[e.loop].refine => e.passes = -1 /\ Taken(pg, e.loop, e.internal, ran2),
         pt \in {"run", "reduce"} => HasRun(ran2, e.loop)
  PROVE  Filled(pg, Append(st, e), ran2) /\ Begun(Append(st, e), pt, ran2)
<1>. DEFINE s == Append(st, e)
<1>1. /\ Len(st) \in Nat /\ Len(s) = Len(st) + 1 /\ s[Len(st) + 1] = e
      /\ \A i \in 1 .. Len(st) : s[i] = st[i]
  BY AppendProperties, LenProperties
<1>. HIDE DEF s
<1>2. \A i \in 1 .. Len(s) : (i \in 1 .. Len(st) /\ s[i] = st[i]) \/ (i = Len(s) /\ s[i] = e)
  BY <1>1
<1>3. Filled(pg, s, ran2)
  <2>. SUFFICES ASSUME NEW i \in 1 .. Len(s), ~pg[s[i].loop].refine
                PROVE  s[i].passes = -1 /\ Taken(pg, s[i].loop, s[i].internal, ran2)
    BY DEF Filled
  <2>1. CASE i \in 1 .. Len(st) /\ s[i] = st[i]
    BY <2>1, TakenMore DEF Filled
  <2>2. CASE i = Len(s) /\ s[i] = e
    BY <2>2
  <2>. QED BY <1>2, <2>1, <2>2
<1>4. Begun(s, pt, ran2)
  <2>1. \A i \in 1 .. Len(st) : HasRun(ran2, st[i].loop)
    BY DEF HasRun
  <2>2. Len(s) \in Nat
    BY <1>1
  <2>. QED BY <1>2, <2>1, <2>2 DEF Begun
<1>. QED BY <1>3, <1>4 DEF s

\* A measurement begins, ends, or an error stops the rank.
LEMMA SoundMeasure ==
  ASSUME NEW pg \in Programs, NEW at, NEW st, NEW flag, NEW ran,
         Sound(pg, at, "run", st, flag, ran), at <= Len(pg), pg[at].op = "measure"
  PROVE  Sound(pg, at, "reduce", st, flag, ran)
BY DEF Sound, Placed, Begun

LEMMA SoundReduced ==
  ASSUME NEW pg \in Programs, NEW at, NEW st, NEW flag, NEW flag2 \in BOOLEAN, NEW ran,
         Sound(pg, at, "reduce", st, flag, ran)
  PROVE  Sound(pg, at + 1, "run", st, flag2, ran)
<1>1. /\ at \in Nat /\ 1 <= at /\ at <= Len(pg) /\ pg[at].op = "measure"
      /\ Stacked(pg, at, st) /\ Passed(pg, at, ran) /\ Len(pg) \in Nat
  BY Shape DEF Sound, Placed
<1>2. at \in 1 .. Len(pg)
  BY <1>1
<1>3. Stacked(pg, at + 1, st)
  BY <1>1, <1>2, AroundMeasure, StaysStacked
<1>4. Passed(pg, at + 1, ran)
  BY <1>1, <1>2, PassedMeasure
<1>5. Placed(pg, at + 1, "run") /\ Flagged(pg, at + 1, flag2)
  BY <1>1 DEF Placed, Flagged
<1>6. Begun(st, "run", ran)
  BY DEF Sound, Begun
<1>. QED BY <1>3, <1>4, <1>5, <1>6 DEF Sound

LEMMA SoundFailed ==
  ASSUME NEW pg, NEW at, NEW pt, NEW st, NEW flag, NEW ran, Sound(pg, at, pt, st, flag, ran)
  PROVE  Sound(pg, at, "failed", st, flag, ran)
BY DEF Sound, Placed, Begun

\* Into a body, from the head of the loop (at = m) or from its end.
LEMMA SoundBody ==
  ASSUME NEW pg \in Programs, NEW m \in Nat, IsLoop(pg, m), NEW at \in {m, pg[m].end},
         NEW st, Stacked(pg, m, st), NEW ran, NEW x \in Int, NEW e \in Entry, NEW flag,
         e.loop = m, Filled(pg, st, ran), \A i \in 1 .. Len(st) : HasRun(ran, st[i].loop),
         RunsInside(pg, ran), Passed(pg, at, ran),
         ~pg[m].refine => e.passes = -1 /\ Taken(pg, m, e.internal, ran \cup {<<m, x>>}),
         flag => pg[m].refine
  PROVE  Sound(pg, m + 1, "run", Append(st, e), flag, ran \cup {<<m, x>>})
<1>. DEFINE ran2 == ran \cup {<<m, x>>}
<1>1. st \in Seq(Entry)
  BY DEF Stacked
<1>2. HasRun(ran2, m)
  BY HasRunMore
<1>3. Filled(pg, Append(st, e), ran2) /\ Begun(Append(st, e), "run", ran2)
  <2>1. ran \subseteq ran2
    OBVIOUS
  <2>. HIDE DEF ran2
  <2>2. ~pg[e.loop].refine => e.passes = -1 /\ Taken(pg, e.loop, e.internal, ran2)
    BY DEF ran2
  <2>. QED BY <1>1, <1>2, <2>1, <2>2, PushedEntry
<1>4. Stacked(pg, m + 1, Append(st, e))
  BY Pushed
<1>5. Reached(pg, m, ran)
  BY ReachedHere
<1>6. RunsInside(pg, ran2) /\ Passed(pg, m + 1, ran2)
  BY <1>5, PassedBody
<1>7. pg[m].end \in Nat /\ m < pg[m].end /\ pg[m].end <= Len(pg) /\ Len(pg) \in Nat
  BY Shape
<1>8. Placed(pg, m + 1, "run")
  BY <1>7 DEF Placed
<1>9. Flagged(pg, m + 1, flag)
  <2>1. m + 1 - 1 = m /\ m \in 1 .. Len(pg) /\ m + 1 > 1 /\ pg[m].op = "loop"
    BY DEF IsLoop
  <2>. QED BY <2>1 DEF Flagged
<1>. HIDE DEF ran2
<1>10. Sound(pg, m + 1, "run", Append(st, e), flag, ran2)
  BY <1>3, <1>4, <1>6, <1>8, <1>9 DEF Sound
<1>. QED BY <1>10 DEF ran2

\* To the choice of a first value to refine, from the head of the loop or from
\* its end: pt2 = "failed" is for a rank that has no place to store it.
LEMMA SoundTop ==
  ASSUME NEW pg \in Programs, NEW m \in Nat, IsLoop(pg, m), pg[m].refine,
         NEW at \in {m, pg[m].end}, NEW st, Stacked(pg, m, st), NEW ran, NEW e \in Entry,
         NEW flag, NEW pt2 \in {"choose", "failed"},
         e.loop = m, Filled(pg, st, ran), \A i \in 1 .. Len(st) : HasRun(ran, st[i].loop),
         RunsInside(pg, ran), Passed(pg, at, ran), Flagged(pg, pg[m].end, flag)
  PROVE  Sound(pg, pg[m].end, pt2, Append(st, e), flag, ran)
<1>1. st \in Seq(Entry)
  BY DEF Stacked
<1>2. Filled(pg, Append(st, e), ran) /\ Begun(Append(st, e), pt2, ran)
  BY <1>1, PushedEntry
<1>3. Stacked(pg, pg[m].end, Append(st, e))
  BY Pushed
<1>4. Passed(pg, pg[m].end, ran)
  BY PassedChoose
<1>5. /\ pg[m].end \in Nat /\ m < pg[m].end /\ pg[m].end <= Len(pg) /\ Len(pg) \in Nat
      /\ pg[pg[m].end].op = "end" /\ pg[pg[m].end].loop = m
  BY Shape
<1>6. Placed(pg, pg[m].end, pt2)
  BY <1>5 DEF Placed
<1>. QED BY <1>2, <1>3, <1>4, <1>6 DEF Sound

\* A refined pass is over.
LEMMA SoundPassOver ==
  ASSUME NEW pg, NEW at, NEW st, NEW flag, NEW ran, Sound(pg, at, "run", st, flag, ran),
         at <= Len(pg), pg[at].op = "end", pg[pg[at].loop].refine
  PROVE  Sound(pg, at, "choose", st, flag, ran)
BY DEF Sound, Placed, Begun

\* Past a loop that has no value.
LEMMA SoundSkip ==
  ASSUME NEW pg \in Programs, NEW m, NEW st, NEW flag, NEW ran,
         Sound(pg, m, "run", st, flag, ran), IsLoop(pg, m), ~Holds(pg[m], pg[m].first)
  PROVE  Sound(pg, pg[m].end + 1, "run", st, FALSE, ran)
<1>1. m \in Nat /\ Stacked(pg, m, st) /\ Passed(pg, m, ran)
  BY DEF Sound, Placed
<1>2. pg[m].end \in Nat /\ m < pg[m].end /\ pg[m].end <= Len(pg) /\ Len(pg) \in Nat
  BY <1>1, Shape
<1>3. Stacked(pg, pg[m].end + 1, st)
  BY <1>1, AroundLoop, StaysStacked
<1>4. Passed(pg, pg[m].end + 1, ran)
  BY <1>1, TookNone, PassedLoop
<1>5. Placed(pg, pg[m].end + 1, "run") /\ Flagged(pg, pg[m].end + 1, FALSE)
  BY <1>2 DEF Placed, Flagged
<1>. QED BY <1>3, <1>4, <1>5 DEF Sound

\* Out of a loop.
LEMMA SoundLeave ==
  ASSUME NEW pg \in Programs, NEW m \in Nat, IsLoop(pg, m), NEW pt, NEW st, NEW flag, NEW ran,
         Sound(pg, pg[m].end, pt, st, flag, ran), Unaborted(pg, m) => TookAll(pg, m, ran)
  PROVE  Sound(pg, pg[m].end + 1, "run", Front(st), FALSE, ran)
<1>1. Stacked(pg, pg[m].end, st) /\ Passed(pg, pg[m].end, ran)
  BY DEF Sound
<1>2. pg[m].end \in Nat /\ m < pg[m].end /\ pg[m].end <= Len(pg) /\ Len(pg) \in Nat
  BY Shape
<1>3. st \in Seq(Entry) /\ st # << >> /\ Stacked(pg, pg[m].end + 1, Front(st))
  BY <1>1, TopOfStack
<1>4. /\ Filled(pg, Front(st), ran)
      /\ \A i \in 1 .. Len(Front(st)) : HasRun(ran, Front(st)[i].loop)
  BY <1>3, FrontEntries DEF Sound
<1>5. Passed(pg, pg[m].end + 1, ran)
  BY <1>1, PassedLoop
<1>6. Placed(pg, pg[m].end + 1, "run") /\ Flagged(pg, pg[m].end + 1, FALSE)
  BY <1>2 DEF Placed, Flagged
<1>. QED BY <1>3, <1>4, <1>5, <1>6 DEF Sound, Begun

\* The flag at the end of a plain loop is that of a measurement of its own.
LEMMA FlagOfOwn ==
  ASSUME NEW pg \in Programs, NEW m \in Nat, IsLoop(pg, m), ~pg[m].refine,
         Flagged(pg, pg[m].end, TRUE)
  PROVE  ~Unaborted(pg, m)
<1>. DEFINE j == pg[m].end - 1
<1>1. pg[m].end \in Nat /\ m < pg[m].end /\ pg[m].end <= Len(pg) /\ Len(pg) \in Nat
      /\ pg[m].op = "loop" /\ m >= 1
  BY Shape DEF IsLoop
<1>2. pg[j].op = "measure" \/ (pg[j].op = "loop" /\ pg[j].refine)
  BY DEF Flagged
<1>3. j \in Nat /\ j >= m /\ j \in 1 .. Len(pg) /\ j < pg[m].end
  BY <1>1
<1>4. j # m
  BY <1>1, <1>2
<1>5. m < j
  BY <1>3, <1>4
<1>6. pg[j].op # "loop"
  <2>. SUFFICES ASSUME pg[j].op = "loop" PROVE FALSE
    OBVIOUS
  <2>1. IsLoop(pg, j)
    BY <1>3 DEF IsLoop
  <2>2. pg[j].end < pg[m].end /\ j < pg[j].end /\ pg[j].end \in Nat
    BY <1>3, <1>5, <2>1, Shape
  <2>. QED BY <1>1, <2>2
<1>7. pg[j].op = "measure"
  BY <1>2, <1>6
<1>8. ASSUME NEW i \in m + 1 .. j - 1, pg[i].op = "loop" PROVE pg[i].end < j
  <2>1. i \in Nat /\ IsLoop(pg, i) /\ m < i /\ i < pg[m].end
    BY <1>1, <1>3, <1>8 DEF IsLoop
  <2>2. /\ pg[i].end < pg[m].end /\ pg[i].end \in Nat
        /\ pg[pg[i].end].op = "end"
    BY <2>1, Shape
  <2>3. pg[i].end # j
    BY <1>7, <2>2
  <2>. QED BY <1>1, <2>2, <2>3
<1>9. j \in m + 1 .. pg[m].end - 1
  BY <1>1, <1>3, <1>5
<1>. QED BY <1>7, <1>8, <1>9 DEF Unaborted

-----------------------------------------------------------------------------
(* The invariant, action by action. *)

LEMMA ReplaceTop ==
  ASSUME NEW st \in Seq(Entry), st # << >>, NEW n \in Int
  PROVE  /\ [Last(st) EXCEPT !.passes = n] \in Entry
         /\ [Last(st) EXCEPT !.passes = n].loop = Last(st).loop
         /\ [st EXCEPT ![Len(st)].passes = n]
              = Append(Front(st), [Last(st) EXCEPT !.passes = n])
<1>. DEFINE e == [Last(st) EXCEPT !.passes = n]
            a == [st EXCEPT ![Len(st)] = e]
            b == Append(Front(st), e)
<1>1. /\ Len(st) \in Nat /\ Len(st) >= 1 /\ Last(st) = st[Len(st)] /\ Last(st) \in Entry
      /\ Front(st) \in Seq(Entry) /\ Len(Front(st)) = Len(st) - 1
      /\ \A i \in 1 .. Len(st) - 1 : Front(st)[i] = st[i]
  BY FrontOf
<1>2. e \in Entry /\ e.loop = Last(st).loop
  BY <1>1 DEF Entry
<1>3. [st EXCEPT ![Len(st)].passes = n] = a
  BY <1>1
<1>. HIDE DEF e
<1>4. /\ a \in Seq(Entry) /\ Len(a) = Len(st)
      /\ \A i \in 1 .. Len(st) : a[i] = IF i = Len(st) THEN e ELSE st[i]
  BY <1>1, <1>2, Len(st) \in 1 .. Len(st), ExceptSeq
<1>5. /\ b \in Seq(Entry) /\ Len(b) = Len(st) - 1 + 1 /\ b[Len(st) - 1 + 1] = e
      /\ \A i \in 1 .. Len(st) - 1 : b[i] = Front(st)[i]
  BY <1>1, <1>2, AppendProperties
<1>. HIDE DEF a, b
<1>6. Len(b) = Len(a) /\ \A i \in 1 .. Len(a) : a[i] = b[i]
  BY <1>1, <1>4, <1>5
<1>7. a = b
  BY <1>4, <1>5, <1>6, SeqEqual
<1>. QED BY <1>2, <1>3, <1>7 DEF e, b

\* The members of a communicator, and its root.
LEMMA Members ==
  ASSUME program \in Programs, NEW c \in Comms
  PROVE  ToSet(c) \subseteq Rank /\ Head(c) \in ToSet(c)
<1>1. PICK k \in 1 .. Len(program) : program[k].op = "measure" /\ c = program[k].comm
  BY DEF Comms
<1>2. program[k] \in Statements
  BY Shape
<1>3. c \in Seq(Rank) /\ c # << >>
  BY <1>1, <1>2 DEF Statements
<1>4. Len(c) \in Nat \ {0} /\ DOMAIN c = 1 .. Len(c) /\ \A i \in 1 .. Len(c) : c[i] \in Rank
  BY <1>3, EmptySeq, LenProperties, ElementOfSeq
<1>5. Head(c) = c[1] /\ 1 \in 1 .. Len(c)
  BY <1>3, <1>4
<1>. QED BY <1>4, <1>5 DEF ToSet

\* A rank at the end of a loop.
LEMMA AtEnd ==
  ASSUME IInv, NEW p \in Rank, NEW m, pc[p] <= Len(program), Statement(p).op = "end",
         m = Statement(p).loop
  PROVE  /\ m \in Nat /\ IsLoop(program, m) /\ pc[p] = program[m].end
         /\ stack[p] \in Seq(Entry) /\ stack[p] # << >>
         /\ InnerLoop(p) \in Entry /\ InnerLoop(p).loop = m
         /\ Stacked(program, m, Front(stack[p]))
         /\ Filled(program, Front(stack[p]), entered[p])
         /\ \A i \in 1 .. Len(Front(stack[p])) : HasRun(entered[p], Front(stack[p])[i].loop)
         /\ ~program[m].refine => /\ InnerLoop(p).passes = -1
                                  /\ Taken(program, m, InnerLoop(p).internal, entered[p])
         /\ RunsInside(program, entered[p]) /\ Passed(program, pc[p], entered[p])
         /\ Flagged(program, pc[p], abort_inner_loop[p])
<1>1. Sound(program, pc[p], point[p], stack[p], abort_inner_loop[p], entered[p])
  BY DEF IInv
<1>2. pc[p] \in 1 .. Len(program) /\ program \in Programs
  BY <1>1 DEF IInv, Sound, Placed
<1>3. m \in Nat /\ IsLoop(program, m) /\ pc[p] = program[m].end
  BY <1>2, Shape DEF Statement
<1>4. /\ stack[p] \in Seq(Entry) /\ stack[p] # << >>
      /\ Last(stack[p]) \in Entry /\ Last(stack[p]).loop = m
      /\ Stacked(program, m, Front(stack[p]))
  BY <1>1, <1>2, <1>3, TopOfStack DEF Sound
<1>5. /\ Filled(program, Front(stack[p]), entered[p])
      /\ \A i \in 1 .. Len(Front(stack[p])) : HasRun(entered[p], Front(stack[p])[i].loop)
      /\ ~program[Last(stack[p]).loop].refine =>
           /\ Last(stack[p]).passes = -1
           /\ Taken(program, Last(stack[p]).loop, Last(stack[p]).internal, entered[p])
  BY <1>1, <1>4, FrontEntries DEF Sound
<1>. QED BY <1>1, <1>3, <1>4, <1>5 DEF Sound, InnerLoop

\* A step of one rank leaves the others as they are.
LEMMA OneRank ==
  ASSUME IInv, NEW p \in Rank, program' = program,
         NEW at \in Nat, pc' = [pc EXCEPT ![p] = at],
         NEW pt \in Points, point' = [point EXCEPT ![p] = pt],
         NEW st \in Seq(Entry), stack' = [stack EXCEPT ![p] = st],
         NEW flag \in BOOLEAN, abort_inner_loop' = [abort_inner_loop EXCEPT ![p] = flag],
         NEW ran \in SUBSET (Nat \X Int), entered' = [entered EXCEPT ![p] = ran],
         Sound(program, at, pt, st, flag, ran)
  PROVE  IInv'
<1>1. /\ pc' \in [Rank -> Nat] /\ point' \in [Rank -> Points]
      /\ stack' \in [Rank -> Seq(Entry)]
      /\ abort_inner_loop' \in [Rank -> BOOLEAN]
      /\ entered' \in [Rank -> SUBSET (Nat \X Int)]
  BY DEF IInv
<1>2. ASSUME NEW q \in Rank
      PROVE  Sound(program, pc'[q], point'[q], stack'[q], abort_inner_loop'[q], entered'[q])
  <2>1. CASE q = p
    BY <2>1 DEF IInv
  <2>2. CASE q # p
    <3>1. /\ pc'[q] = pc[q] /\ point'[q] = point[q] /\ stack'[q] = stack[q]
          /\ abort_inner_loop'[q] = abort_inner_loop[q] /\ entered'[q] = entered[q]
      BY <2>2 DEF IInv
    <3>. QED BY <3>1 DEF IInv
  <2>. QED BY <2>1, <2>2
<1>. QED BY <1>1, <1>2 DEF IInv

LEMMA RankTyped ==
  ASSUME IInv, NEW p \in Rank
  PROVE  /\ program \in Programs /\ Len(program) \in Nat
         /\ pc[p] \in Nat /\ 1 <= pc[p] /\ point[p] \in Points /\ stack[p] \in Seq(Entry)
         /\ abort_inner_loop[p] \in BOOLEAN /\ entered[p] \in SUBSET (Nat \X Int)
         /\ pc = [pc EXCEPT ![p] = pc[p]] /\ point = [point EXCEPT ![p] = point[p]]
         /\ stack = [stack EXCEPT ![p] = stack[p]]
         /\ abort_inner_loop = [abort_inner_loop EXCEPT ![p] = abort_inner_loop[p]]
         /\ entered = [entered EXCEPT ![p] = entered[p]]
         /\ Sound(program, pc[p], point[p], stack[p], abort_inner_loop[p], entered[p])
BY Shape DEF IInv, Sound, Placed

LEMMA EnterLoopSound ==
  ASSUME IInv, NEW p \in Rank, EnterLoop(p)
  PROVE  IInv'
<1>. DEFINE s == Statement(p)
            k == pc[p]
            x == FirstValue(p, s)
            E(n) == [loop |-> k, internal |-> s.first, passes |-> n]
<1>1. /\ program \in Programs /\ k \in Nat /\ 1 <= k /\ point[p] \in Points
      /\ stack[p] \in Seq(Entry) /\ entered[p] \in SUBSET (Nat \X Int)
      /\ Sound(program, k, point[p], stack[p], abort_inner_loop[p], entered[p])
      /\ entered = [entered EXCEPT ![p] = entered[p]]
      /\ stack = [stack EXCEPT ![p] = stack[p]] /\ point = [point EXCEPT ![p] = point[p]]
  BY RankTyped
<1>2. /\ point[p] = "run" /\ IsLoop(program, k) /\ s = program[k]
  BY <1>1 DEF EnterLoop, IsAt, Statement, IsLoop
<1>3. /\ s.first \in Nat /\ s.refine \in BOOLEAN /\ s.end \in Nat /\ k < s.end
  BY <1>1, <1>2, Shape
<1>4. x \in Int /\ (~s.refine => x = s.first)
  BY <1>3 DEF FirstValue, Clobbered
<1>5. program' = program /\ abort_inner_loop' = [abort_inner_loop EXCEPT ![p] = FALSE]
  BY DEF EnterLoop, input, ResetAbort
<1>6. E(-1) \in Entry /\ E(0) \in Entry
  BY <1>1, <1>3 DEF Entry
<1>7. /\ Stacked(program, k, stack[p]) /\ Filled(program, stack[p], entered[p])
      /\ \A i \in 1 .. Len(stack[p]) : HasRun(entered[p], stack[p][i].loop)
      /\ RunsInside(program, entered[p]) /\ Passed(program, k, entered[p])
  BY <1>1, <1>2 DEF Sound, Begun
<1>8. CASE /\ Holds(s, x) /\ EnterBody(p, k, x)
           /\ stack' = [stack EXCEPT ![p] = Append(stack[p], E(-1))] /\ UNCHANGED point
  <2>. DEFINE ran == entered[p] \cup {<<k, x>>}
  <2>1. ~s.refine => Taken(program, k, s.first, ran)
    <3>1. ~s.refine => x = s.first
      BY <1>4
    <3>2. Taken(program, k, s.first, entered[p] \cup {<<k, s.first>>})
      <4>. HIDE DEF x, k
      <4>. QED BY <1>1, <1>2, TakenFirst
    <3>. HIDE DEF x, s, k
    <3>. QED BY <3>1, <3>2
  <2>2. Sound(program, k + 1, "run", Append(stack[p], E(-1)), FALSE, ran)
    <3>1. /\ E(-1).loop = k /\ E(-1).internal = s.first /\ E(-1).passes = -1
          /\ k \in {k, program[k].end}
      OBVIOUS
    <3>2. program \in Programs /\ k \in Nat /\ IsLoop(program, k) /\ x \in Int /\ E(-1) \in Entry
      BY <1>1, <1>2, <1>4, <1>6
    <3>3. ~program[k].refine => E(-1).passes = -1 /\ Taken(program, k, E(-1).internal, ran)
      BY <1>2, <2>1, <3>1
    <3>. HIDE DEF E, x, s, k
    <3>. QED BY <1>7, <3>1, <3>2, <3>3, SoundBody
  <2>3. /\ Append(stack[p], E(-1)) \in Seq(Entry) /\ ran \in SUBSET (Nat \X Int) /\ k + 1 \in Nat
    BY <1>1, <1>4, <1>6, AppendProperties
  <2>4. /\ pc' = [pc EXCEPT ![p] = k + 1] /\ entered' = [entered EXCEPT ![p] = ran]
        /\ point' = [point EXCEPT ![p] = "run"]
    BY <1>1, <1>2, <1>8 DEF EnterBody, Goto
  <2>5. stack' = [stack EXCEPT ![p] = Append(stack[p], E(-1))]
    BY <1>8
  <2>. HIDE DEF E, x, s, k, ran
  <2>. QED BY <1>5, <2>2, <2>3, <2>4, <2>5, OneRank DEF Points
<1>9. CASE /\ ~Holds(s, x) /\ s.refine /\ Goto(p, s.end)
           /\ stack' = [stack EXCEPT ![p] = Append(stack[p], E(0))]
           /\ point' = [point EXCEPT ![p] = "choose"] /\ UNCHANGED entered
  <2>1. Flagged(program, s.end, FALSE)
    BY DEF Flagged
  <2>2. Sound(program, s.end, "choose", Append(stack[p], E(0)), FALSE, entered[p])
    <3>1. E(0).loop = k /\ k \in {k, program[k].end}
      OBVIOUS
    <3>. HIDE DEF E, x, s, k
    <3>. QED BY <1>1, <1>2, <1>6, <1>7, <1>9, <2>1, <3>1, SoundTop
  <2>3. Append(stack[p], E(0)) \in Seq(Entry)
    BY <1>1, <1>6, AppendProperties
  <2>4. pc' = [pc EXCEPT ![p] = s.end] /\ entered' = [entered EXCEPT ![p] = entered[p]]
    BY <1>1, <1>9 DEF Goto
  <2>5. /\ stack' = [stack EXCEPT ![p] = Append(stack[p], E(0))]
        /\ point' = [point EXCEPT ![p] = "choose"]
    BY <1>9
  <2>. HIDE DEF E, x, s, k
  <2>. QED BY <1>1, <1>3, <1>5, <2>2, <2>3, <2>4, <2>5, OneRank DEF Points
<1>10. CASE /\ ~Holds(s, x) /\ ~s.refine /\ Goto(p, s.end + 1)
            /\ UNCHANGED <<stack, point, entered>>
  <2>1. Sound(program, s.end + 1, "run", stack[p], FALSE, entered[p])
    <3>1. ~Holds(s, s.first)
      BY <1>4, <1>10
    <3>2. Sound(program, k, "run", stack[p], abort_inner_loop[p], entered[p])
      BY <1>1, <1>2
    <3>3. program \in Programs
      BY <1>1
    <3>. HIDE DEF x, s, k
    <3>. QED BY <1>2, <3>1, <3>2, <3>3, SoundSkip
  <2>2. /\ pc' = [pc EXCEPT ![p] = s.end + 1] /\ entered' = [entered EXCEPT ![p] = entered[p]]
        /\ stack' = [stack EXCEPT ![p] = stack[p]] /\ point' = [point EXCEPT ![p] = "run"]
    BY <1>1, <1>2, <1>10 DEF Goto
  <2>3. s.end + 1 \in Nat
    BY <1>3
  <2>. HIDE DEF E, x, s, k
  <2>. QED BY <1>1, <1>5, <2>1, <2>2, <2>3, OneRank DEF Points
<1>. QED BY <1>8, <1>9, <1>10 DEF EnterLoop

LEMMA NextValueSound ==
  ASSUME IInv, NEW p \in Rank, NextValue(p)
  PROVE  IInv'
<1>. DEFINE k == Statement(p).loop
            s == program[k]
            x == InnerLoop(p).internal + s.step
            again == ~abort_inner_loop[p] /\ Holds(s, x)
            E(n) == [loop |-> k, internal |-> x, passes |-> n]
            ran == entered[p] \cup {<<k, x>>}
            front == Front(stack[p])
<1>1. /\ program \in Programs /\ pc[p] \in Nat /\ abort_inner_loop[p] \in BOOLEAN
      /\ entered[p] \in SUBSET (Nat \X Int)
      /\ Sound(program, pc[p], point[p], stack[p], abort_inner_loop[p], entered[p])
      /\ pc = [pc EXCEPT ![p] = pc[p]] /\ entered = [entered EXCEPT ![p] = entered[p]]
      /\ point = [point EXCEPT ![p] = point[p]]
      /\ abort_inner_loop = [abort_inner_loop EXCEPT ![p] = abort_inner_loop[p]]
  BY RankTyped
<1>2. point[p] = "run" /\ pc[p] <= Len(program) /\ Statement(p).op = "end"
  BY DEF NextValue, IsAt
<1>3. /\ k \in Nat /\ IsLoop(program, k) /\ pc[p] = s.end
      /\ stack[p] \in Seq(Entry) /\ stack[p] # << >>
      /\ InnerLoop(p) \in Entry /\ InnerLoop(p).loop = k
      /\ Stacked(program, k, front)
      /\ Filled(program, front, entered[p])
      /\ \A i \in 1 .. Len(front) : HasRun(entered[p], front[i].loop)
      /\ ~s.refine => Taken(program, k, InnerLoop(p).internal, entered[p])
      /\ RunsInside(program, entered[p]) /\ Passed(program, pc[p], entered[p])
      /\ Flagged(program, pc[p], abort_inner_loop[p])
  BY <1>2, AtEnd
<1>4. s.step \in Int /\ s.refine \in BOOLEAN /\ InnerLoop(p).internal \in Int /\ x \in Int
  BY <1>1, <1>3, Shape DEF Entry
<1>5. E(-1) \in Entry /\ E(0) \in Entry /\ front \in Seq(Entry)
  <2>1. front \in Seq(Entry)
    BY <1>3, FrontOf
  <2>. HIDE DEF k, x
  <2>2. E(-1) \in Entry /\ E(0) \in Entry
    BY <1>3, <1>4 DEF Entry
  <2>. QED BY <2>1, <2>2
<1>6. program' = program
  BY DEF NextValue, input
<1>7. CASE /\ again /\ EnterBody(p, k, x)
           /\ stack' = [stack EXCEPT ![p] = Append(Front(@), E(-1))]
           /\ UNCHANGED <<point, flags>>
  <2>1. ~s.refine => Taken(program, k, x, ran)
    BY <1>1, <1>3, TakenNext
  <2>2. Sound(program, k + 1, "run", Append(front, E(-1)), FALSE, ran)
    <3>1. E(-1).loop = k /\ E(-1).internal = x /\ E(-1).passes = -1 /\ pc[p] \in {k, program[k].end}
      BY <1>3
    <3>. HIDE DEF E, x, front, k
    <3>. QED BY <1>1, <1>3, <1>4, <1>5, <2>1, <3>1, SoundBody
  <2>3. Append(front, E(-1)) \in Seq(Entry) /\ ran \in SUBSET (Nat \X Int) /\ k + 1 \in Nat
    BY <1>1, <1>3, <1>4, <1>5, AppendProperties
  <2>4. /\ pc' = [pc EXCEPT ![p] = k + 1] /\ entered' = [entered EXCEPT ![p] = ran]
        /\ point' = [point EXCEPT ![p] = "run"]
        /\ abort_inner_loop' = [abort_inner_loop EXCEPT ![p] = FALSE]
    BY <1>1, <1>2, <1>7 DEF EnterBody, Goto, flags
  <2>5. stack' = [stack EXCEPT ![p] = Append(front, E(-1))]
    BY <1>7
  <2>. HIDE DEF E, x, s, k, ran, front
  <2>. QED BY <1>6, <2>2, <2>3, <2>4, <2>5, OneRank DEF Points
<1>8. CASE /\ ~again /\ s.refine
           /\ point' = [point EXCEPT ![p] = "choose"]
           /\ stack' = [stack EXCEPT ![p] = Append(Front(@), E(0))]
           /\ UNCHANGED <<pc, flags, entered>>
  <2>1. Sound(program, pc[p], "choose", Append(front, E(0)), abort_inner_loop[p], entered[p])
    <3>1. E(0).loop = k /\ pc[p] \in {k, program[k].end}
      BY <1>3
    <3>. HIDE DEF E, x, front, k
    <3>. QED BY <1>1, <1>3, <1>5, <1>8, <3>1, SoundTop
  <2>2. Append(front, E(0)) \in Seq(Entry)
    BY <1>5, AppendProperties
  <2>3. /\ pc' = [pc EXCEPT ![p] = pc[p]] /\ entered' = [entered EXCEPT ![p] = entered[p]]
        /\ point' = [point EXCEPT ![p] = "choose"]
        /\ abort_inner_loop' = [abort_inner_loop EXCEPT ![p] = abort_inner_loop[p]]
    BY <1>1, <1>8 DEF flags
  <2>4. stack' = [stack EXCEPT ![p] = Append(front, E(0))]
    BY <1>8
  <2>. DEFINE at == pc[p]
              flag == abort_inner_loop[p]
              st == Append(front, E(0))
              body == entered[p]
  <2>5. /\ Sound(program, at, "choose", st, flag, body)
        /\ st \in Seq(Entry) /\ at \in Nat /\ flag \in BOOLEAN /\ body \in SUBSET (Nat \X Int)
        /\ pc' = [pc EXCEPT ![p] = at] /\ entered' = [entered EXCEPT ![p] = body]
        /\ stack' = [stack EXCEPT ![p] = st]
        /\ abort_inner_loop' = [abort_inner_loop EXCEPT ![p] = flag]
    BY <1>1, <2>1, <2>2, <2>3, <2>4
  <2>. HIDE DEF E, x, s, k, ran, front, at, flag, st, body
  <2>6. point' = [point EXCEPT ![p] = "choose"] /\ "choose" \in Points
    BY <2>3 DEF Points
  <2>. QED BY <1>6, <2>5, <2>6, OneRank
<1>9. CASE /\ ~again /\ ~s.refine /\ Goto(p, pc[p] + 1)
           /\ stack' = [stack EXCEPT ![p] = Front(@)] /\ ResetAbort(p)
           /\ UNCHANGED <<point, local_abort_inner_loop, entered>>
  <2>1. Unaborted(program, k) => TookAll(program, k, entered[p])
    <3>1. CASE abort_inner_loop[p]
      <4>1. abort_inner_loop[p] = TRUE
        BY <1>1, <3>1
      <4>2. Flagged(program, program[k].end, TRUE)
        BY <1>3, <4>1
      <4>. QED BY <1>1, <1>3, <1>9, <4>2, FlagOfOwn
    <3>2. CASE ~Holds(s, x)
      BY <1>1, <1>3, <1>9, <3>2, TakenAll
    <3>. QED BY <1>9, <3>1, <3>2
  <2>2. Sound(program, pc[p] + 1, "run", front, FALSE, entered[p])
    <3>. HIDE DEF k, x
    <3>. QED BY <1>1, <1>3, <2>1, SoundLeave
  <2>3. /\ pc' = [pc EXCEPT ![p] = pc[p] + 1] /\ entered' = [entered EXCEPT ![p] = entered[p]]
        /\ point' = [point EXCEPT ![p] = "run"]
        /\ abort_inner_loop' = [abort_inner_loop EXCEPT ![p] = FALSE]
        /\ pc[p] + 1 \in Nat
    BY <1>1, <1>2, <1>9 DEF Goto, ResetAbort
  <2>4. stack' = [stack EXCEPT ![p] = front]
    BY <1>9
  <2>. HIDE DEF E, x, s, k, ran, front
  <2>. QED BY <1>1, <1>5, <1>6, <2>2, <2>3, <2>4, OneRank DEF Points
<1>. QED BY <1>7, <1>8, <1>9 DEF NextValue

\* Steps that only change where in its statement a rank is.
LEMMA PointMoves ==
  ASSUME IInv, NEW p \in Rank, NEW pt \in Points,
         UNCHANGED <<program, pc, stack, abort_inner_loop, entered>>,
         point' = [point EXCEPT ![p] = pt],
         Sound(program, pc[p], pt, stack[p], abort_inner_loop[p], entered[p])
  PROVE  IInv'
<1>1. point' \in [Rank -> Points]
  BY DEF IInv
<1>2. ASSUME NEW q \in Rank
      PROVE  Sound(program, pc[q], point'[q], stack[q], abort_inner_loop[q], entered[q])
  <2>1. CASE q = p
    BY <2>1 DEF IInv
  <2>2. CASE q # p
    <3>1. point'[q] = point[q]
      BY <2>2 DEF IInv
    <3>. QED BY <3>1 DEF IInv
  <2>. QED BY <2>1, <2>2
<1>. QED BY <1>1, <1>2 DEF IInv

LEMMA NestedRefineSound ==
  ASSUME IInv, NEW p \in Rank, NestedRefine(p)
  PROVE  IInv'
<1>1. Sound(program, pc[p], "failed", stack[p], abort_inner_loop[p], entered[p])
  BY RankTyped, SoundFailed
<1>2. UNCHANGED <<program, pc, stack, abort_inner_loop, entered>>
  BY DEF NestedRefine, input, flags
<1>3. point' = [point EXCEPT ![p] = "failed"] /\ "failed" \in Points
  BY DEF NestedRefine, Points
<1>. QED BY <1>1, <1>2, <1>3, PointMoves

LEMMA NoCandidatesSound ==
  ASSUME IInv, NEW p \in Rank, NoCandidates(p)
  PROVE  IInv'
<1>1. Sound(program, pc[p], "failed", stack[p], abort_inner_loop[p], entered[p])
  BY RankTyped, SoundFailed
<1>2. UNCHANGED <<program, pc, stack, abort_inner_loop, entered>>
  BY DEF NoCandidates, input, flags
<1>3. point' = [point EXCEPT ![p] = "failed"] /\ "failed" \in Points
  BY DEF NoCandidates, Points
<1>. QED BY <1>1, <1>2, <1>3, PointMoves

LEMMA EndOfPassSound ==
  ASSUME IInv, NEW p \in Rank, EndOfPass(p)
  PROVE  IInv'
<1>1. point[p] = "run" /\ pc[p] <= Len(program) /\ Statement(p).op = "end" /\ InnerLoop(p).passes >= 0
  BY DEF EndOfPass, IsAt
<1>2. ~program[Statement(p).loop].refine => InnerLoop(p).passes = -1
  BY <1>1, AtEnd
<1>3. program[Statement(p).loop].refine
  BY <1>1, <1>2
<1>4. Sound(program, pc[p], "choose", stack[p], abort_inner_loop[p], entered[p])
  BY <1>1, <1>3, RankTyped, SoundPassOver DEF Statement
<1>5. UNCHANGED <<program, pc, stack, abort_inner_loop, entered>>
  BY DEF EndOfPass, input, flags
<1>6. point' = [point EXCEPT ![p] = "choose"] /\ "choose" \in Points
  BY DEF EndOfPass, Points
<1>. QED BY <1>4, <1>5, <1>6, PointMoves

LEMMA NotMemberSound ==
  ASSUME IInv, NEW p \in Rank, NotMember(p)
  PROVE  IInv'
<1>1. point[p] = "run" /\ pc[p] <= Len(program) /\ Statement(p).op = "measure"
  BY DEF NotMember, IsAt
<1>2. Sound(program, pc[p], "reduce", stack[p], abort_inner_loop[p], entered[p])
  BY <1>1, RankTyped, SoundMeasure DEF Statement
<1>3. UNCHANGED <<program, pc, stack, abort_inner_loop, entered>>
  BY DEF NotMember, input
<1>4. point' = [point EXCEPT ![p] = "reduce"] /\ "reduce" \in Points
  BY DEF NotMember, Points
<1>. QED BY <1>2, <1>3, <1>4, PointMoves

LEMMA MeasureSound ==
  ASSUME IInv, NEW c \in Comms, Measure(c)
  PROVE  IInv'
<1>1. UNCHANGED <<program, pc, stack, abort_inner_loop, entered>>
  BY DEF Measure, input
<1>2. point' = [p \in Rank |-> IF p \in ToSet(c) THEN "reduce" ELSE point[p]]
  BY DEF Measure
<1>3. point' \in [Rank -> Points]
  BY <1>2 DEF IInv, Points
<1>4. ASSUME NEW p \in Rank
      PROVE  Sound(program, pc[p], point'[p], stack[p], abort_inner_loop[p], entered[p])
  <2>1. CASE p \in ToSet(c)
    <3>1. point[p] = "run" /\ pc[p] <= Len(program) /\ Statement(p).op = "measure"
      BY <2>1 DEF Measure, IsAt
    <3>2. Sound(program, pc[p], "reduce", stack[p], abort_inner_loop[p], entered[p])
      BY <3>1, RankTyped, SoundMeasure DEF Statement
    <3>. QED BY <1>2, <2>1, <3>2
  <2>2. CASE p \notin ToSet(c)
    BY <1>2, <2>2, RankTyped
  <2>. QED BY <2>1, <2>2
<1>. QED BY <1>1, <1>3, <1>4 DEF IInv

LEMMA ReduceSound ==
  ASSUME IInv, Reduce
  PROVE  IInv'
<1>1. UNCHANGED <<program, stack, entered>>
  BY DEF Reduce, input
<1>2. /\ abort_inner_loop' = [p \in Rank |-> Abort(p)]
      /\ pc' = [p \in Rank |-> pc[p] + 1]
      /\ point' = [p \in Rank |-> "run"]
  BY DEF Reduce
<1>3. \A p \in Rank : Abort(p) \in BOOLEAN
  BY DEF Abort
<1>4. /\ pc' \in [Rank -> Nat] /\ point' \in [Rank -> Points]
      /\ abort_inner_loop' \in [Rank -> BOOLEAN]
  BY <1>2, <1>3 DEF IInv, Points
<1>5. ASSUME NEW p \in Rank
      PROVE  Sound(program, pc'[p], point'[p], stack[p], abort_inner_loop'[p], entered[p])
  <2>1. Sound(program, pc[p] + 1, "run", stack[p], Abort(p), entered[p])
    <3>1. point[p] = "reduce" /\ Abort(p) \in BOOLEAN
      BY <1>3 DEF Reduce
    <3>. QED BY <3>1, RankTyped, SoundReduced
  <2>. QED BY <1>2, <2>1
<1>. QED BY <1>1, <1>4, <1>5 DEF IInv

\* What is needed of a rank that waits for the next value of its refined loop.
LEMMA AtChoice ==
  ASSUME IInv, NEW p \in Rank, point[p] = "choose", NEW m, m = InnerLoop(p).loop
  PROVE  /\ m \in Nat /\ IsLoop(program, m) /\ pc[p] = program[m].end /\ program[m].refine
         /\ stack[p] \in Seq(Entry) /\ stack[p] # << >> /\ InnerLoop(p) \in Entry
         /\ Stacked(program, m, Front(stack[p]))
         /\ Filled(program, Front(stack[p]), entered[p])
         /\ \A i \in 1 .. Len(Front(stack[p])) : HasRun(entered[p], Front(stack[p])[i].loop)
         /\ RunsInside(program, entered[p]) /\ Passed(program, pc[p], entered[p])
         /\ Flagged(program, pc[p], abort_inner_loop[p])
<1>1. /\ pc[p] <= Len(program) /\ Statement(p).op = "end"
      /\ program[Statement(p).loop].refine
  BY RankTyped DEF Sound, Placed, Statement
<1>2. InnerLoop(p).loop = Statement(p).loop
  BY <1>1, AtEnd
<1>. QED BY <1>1, <1>2, AtEnd

LEMMA RefineLoopSound ==
  ASSUME IInv, NEW c \in Comms, RefineLoop(c)
  PROVE  IInv'
<1>. DEFINE members == ToSet(c)
            lost == {p \in members : loopvar[p] = NULL}
            n == InnerLoop(Head(c)).passes + 1
<1>1. program \in Programs /\ members \subseteq Rank /\ Head(c) \in members
  BY Members DEF IInv
<1>2. \A p \in members : point[p] = "choose"
  BY DEF RefineLoop, Choosing
<1>3. n \in Int
  <2>1. InnerLoop(Head(c)) \in Entry
    BY <1>1, <1>2, AtChoice
  <2>. QED BY <2>1 DEF Entry
<1>4. PICK x \in Candidates(program[InnerLoop(Head(c)).loop]) :
        entered' = [p \in Rank |-> IF p \in members \ lost
          THEN entered[p] \cup {<<InnerLoop(p).loop, x>>} ELSE entered[p]]
  BY DEF RefineLoop
<1>5. x \in Int
  BY <1>4 DEF Candidates
<1>6. /\ program' = program /\ abort_inner_loop' = abort_inner_loop
      /\ point' = [p \in Rank |-> IF p \in lost THEN "failed"
                                  ELSE IF p \in members THEN "run" ELSE point[p]]
      /\ pc' = [p \in Rank |-> IF p \in members \ lost THEN InnerLoop(p).loop + 1 ELSE pc[p]]
      /\ stack' = [p \in Rank |-> IF p \in members
           THEN [stack[p] EXCEPT ![Len(stack[p])].passes = n] ELSE stack[p]]
  BY DEF RefineLoop, input, flags
<1>. HIDE DEF members, n
<1>7. ASSUME NEW p \in members
      PROVE  /\ pc'[p] \in Nat /\ point'[p] \in Points /\ stack'[p] \in Seq(Entry)
             /\ entered'[p] \in SUBSET (Nat \X Int)
             /\ Sound(program, pc'[p], point'[p], stack'[p], abort_inner_loop[p], entered'[p])
  <2>. DEFINE m == InnerLoop(p).loop
              front == Front(stack[p])
              e == [InnerLoop(p) EXCEPT !.passes = n]
              ran == entered[p] \cup {<<m, x>>}
  <2>1. p \in Rank
    BY <1>1
  <2>2. /\ m \in Nat /\ IsLoop(program, m) /\ pc[p] = program[m].end /\ program[m].refine
        /\ stack[p] \in Seq(Entry) /\ stack[p] # << >>
        /\ Stacked(program, m, front) /\ Filled(program, front, entered[p])
        /\ \A i \in 1 .. Len(front) : HasRun(entered[p], front[i].loop)
        /\ RunsInside(program, entered[p]) /\ Passed(program, pc[p], entered[p])
        /\ Flagged(program, pc[p], abort_inner_loop[p])
    BY <1>2, <2>1, AtChoice
  <2>3. /\ e \in Entry /\ e.loop = m
        /\ [stack[p] EXCEPT ![Len(stack[p])].passes = n] = Append(front, e)
    BY <1>3, <2>2, ReplaceTop DEF InnerLoop
  <2>4. stack'[p] = Append(front, e)
    BY <1>6, <2>1, <2>3
  <2>5. Append(front, e) \in Seq(Entry)
    BY <2>2, <2>3, FrontOf, AppendProperties
  <2>6. entered[p] \in SUBSET (Nat \X Int) /\ abort_inner_loop[p] \in BOOLEAN /\ pc[p] \in Nat
    BY <2>1, RankTyped
  <2>7. CASE p \in lost
    <3>1. pc'[p] = pc[p] /\ point'[p] = "failed" /\ entered'[p] = entered[p]
      BY <1>4, <1>6, <2>1, <2>7
    <3>2. Sound(program, pc[p], "failed", Append(front, e), abort_inner_loop[p], entered[p])
      <4>1. pc[p] \in {m, program[m].end} /\ Flagged(program, program[m].end, abort_inner_loop[p])
        BY <2>2
      <4>. HIDE DEF e, m, front
      <4>. QED BY <1>1, <2>2, <2>3, <4>1, SoundTop
    <3>. HIDE DEF e, m, front
    <3>. QED BY <2>4, <2>5, <2>6, <3>1, <3>2 DEF Points
  <2>8. CASE p \notin lost
    <3>1. pc'[p] = m + 1 /\ point'[p] = "run" /\ entered'[p] = ran
      BY <1>4, <1>6, <2>1, <2>8
    <3>2. Sound(program, m + 1, "run", Append(front, e), abort_inner_loop[p], ran)
      <4>1. pc[p] \in {m, program[m].end}
        BY <2>2
      <4>. HIDE DEF e, m, front
      <4>. QED BY <1>1, <1>5, <2>2, <2>3, <4>1, SoundBody
    <3>3. ran \in SUBSET (Nat \X Int) /\ m + 1 \in Nat
      BY <1>5, <2>2, <2>6
    <3>. HIDE DEF e, m, front, ran
    <3>. QED BY <2>4, <2>5, <3>1, <3>2, <3>3 DEF Points
  <2>. QED BY <2>7, <2>8
<1>8. ASSUME NEW p \in Rank, p \notin members
      PROVE  /\ pc'[p] = pc[p] /\ point'[p] = point[p] /\ stack'[p] = stack[p]
             /\ entered'[p] = entered[p]
  BY <1>4, <1>6, <1>8
<1>9. ASSUME NEW p \in Rank
      PROVE  /\ pc'[p] \in Nat /\ point'[p] \in Points /\ stack'[p] \in Seq(Entry)
             /\ entered'[p] \in SUBSET (Nat \X Int)
             /\ Sound(program, pc'[p], point'[p], stack'[p], abort_inner_loop[p], entered'[p])
  BY <1>7, <1>8, RankTyped
<1>10. /\ pc' \in [Rank -> Nat] /\ point' \in [Rank -> Points]
       /\ stack' \in [Rank -> Seq(Entry)] /\ entered' \in [Rank -> SUBSET (Nat \X Int)]
  BY <1>4, <1>6, <1>9
<1>. QED BY <1>6, <1>9, <1>10 DEF IInv

LEMMA LeaveRefinedSound ==
  ASSUME IInv, NEW c \in Comms, LeaveRefined(c)
  PROVE  IInv'
<1>. DEFINE members == ToSet(c)
<1>1. program \in Programs /\ members \subseteq Rank
  BY Members DEF IInv
<1>2. \A p \in members : point[p] = "choose"
  BY DEF LeaveRefined, Choosing
<1>3. /\ program' = program /\ entered' = entered
      /\ point' = [p \in Rank |-> IF p \in members THEN "run" ELSE point[p]]
      /\ pc' = [p \in Rank |-> IF p \in members THEN pc[p] + 1 ELSE pc[p]]
      /\ stack' = [p \in Rank |-> IF p \in members THEN Front(stack[p]) ELSE stack[p]]
      /\ abort_inner_loop' = [p \in Rank |-> IF p \in members THEN FALSE ELSE abort_inner_loop[p]]
  BY DEF LeaveRefined, input
<1>. HIDE DEF members
<1>4. ASSUME NEW p \in members
      PROVE  /\ pc'[p] \in Nat /\ point'[p] \in Points /\ stack'[p] \in Seq(Entry)
             /\ abort_inner_loop'[p] \in BOOLEAN
             /\ Sound(program, pc'[p], point'[p], stack'[p], abort_inner_loop'[p], entered[p])
  <2>. DEFINE m == InnerLoop(p).loop
  <2>1. p \in Rank
    BY <1>1
  <2>2. /\ m \in Nat /\ IsLoop(program, m) /\ pc[p] = program[m].end /\ program[m].refine
        /\ stack[p] \in Seq(Entry) /\ stack[p] # << >>
    BY <1>2, <2>1, AtChoice
  <2>3. /\ Sound(program, pc[p], "choose", stack[p], abort_inner_loop[p], entered[p])
        /\ pc[p] \in Nat
    BY <1>2, <2>1, RankTyped
  <2>4. Unaborted(program, m) => TookAll(program, m, entered[p])
    BY <2>2 DEF Unaborted
  <2>5. Sound(program, pc[p] + 1, "run", Front(stack[p]), FALSE, entered[p])
    <3>. HIDE DEF m
    <3>. QED BY <1>1, <2>2, <2>3, <2>4, SoundLeave
  <2>6. Front(stack[p]) \in Seq(Entry)
    BY <2>2, FrontOf
  <2>7. /\ pc'[p] = pc[p] + 1 /\ point'[p] = "run" /\ stack'[p] = Front(stack[p])
        /\ abort_inner_loop'[p] = FALSE
    BY <1>3, <2>1
  <2>8. pc[p] + 1 \in Nat /\ "run" \in Points /\ FALSE \in BOOLEAN
    BY <2>3 DEF Points
  <2>. QED BY <2>5, <2>6, <2>7, <2>8
<1>5. ASSUME NEW p \in Rank, p \notin members
      PROVE  /\ pc'[p] = pc[p] /\ point'[p] = point[p] /\ stack'[p] = stack[p]
             /\ abort_inner_loop'[p] = abort_inner_loop[p]
  BY <1>3, <1>5
<1>6. ASSUME NEW p \in Rank
      PROVE  /\ pc'[p] \in Nat /\ point'[p] \in Points /\ stack'[p] \in Seq(Entry)
             /\ abort_inner_loop'[p] \in BOOLEAN
             /\ Sound(program, pc'[p], point'[p], stack'[p], abort_inner_loop'[p], entered[p])
  BY <1>4, <1>5, RankTyped
<1>7. /\ pc' \in [Rank -> Nat] /\ point' \in [Rank -> Points]
      /\ stack' \in [Rank -> Seq(Entry)] /\ abort_inner_loop' \in [Rank -> BOOLEAN]
  BY <1>3, <1>6
<1>. QED BY <1>3, <1>6, <1>7 DEF IInv

-----------------------------------------------------------------------------
LEMMA InitSound == Init => IInv
<1>. SUFFICES ASSUME Init PROVE IInv
  OBVIOUS
<1>1. program \in Programs /\ Len(program) \in Nat /\ << >> \in Seq(Entry) /\ Len(<< >>) = 0
  BY Shape, EmptySeq DEF Init
<1>2. \A k \in Nat : ~Open(program, 1, k)
  BY DEF Open, IsLoop
<1>3. Stacked(program, 1, << >>)
  BY <1>1, <1>2 DEF Stacked
<1>4. \A k \in Nat : ~HasRun({}, k)
  BY DEF HasRun
<1>5. RunsInside(program, {})
  BY <1>4 DEF RunsInside
<1>6. Passed(program, 1, {})
  <2>. SUFFICES ASSUME NEW k \in Nat, Unaborted(program, k), Reached(program, k, {})
                PROVE  Before(program, 1, k)
    BY DEF Passed
  <2>1. 1 <= k
    BY DEF Unaborted, IsLoop
  <2>2. \A j \in Nat : ~Open(program, k, j)
    BY <1>4 DEF Reached
  <2>. QED BY <2>1, <2>2 DEF Before
<1>7. Placed(program, 1, "run") /\ Flagged(program, 1, FALSE)
  BY <1>1 DEF Placed, Flagged
<1>8. Filled(program, << >>, {}) /\ Begun(<< >>, "run", {})
  BY <1>1 DEF Filled, Begun
<1>9. Sound(program, 1, "run", << >>, FALSE, {})
  BY <1>3, <1>5, <1>6, <1>7, <1>8 DEF Sound
<1>. QED BY <1>1, <1>9 DEF IInv, Init, Points

LEMMA NextSound == IInv /\ [Next]_vars => IInv'
<1>. SUFFICES ASSUME IInv, [Next]_vars PROVE IInv'
  OBVIOUS
<1>1. ASSUME NEW p \in Rank, RankStep(p) PROVE IInv'
  BY <1>1, EnterLoopSound, NestedRefineSound, NextValueSound, EndOfPassSound,
     NotMemberSound, NoCandidatesSound DEF RankStep
<1>2. ASSUME NEW c \in Comms, CommStep(c) PROVE IInv'
  BY <1>2, MeasureSound, RefineLoopSound, LeaveRefinedSound DEF CommStep
<1>3. CASE Reduce
  BY <1>3, ReduceSound
<1>4. CASE UNCHANGED vars
  BY <1>4 DEF vars, input, flags, IInv
<1>. QED BY <1>1, <1>2, <1>3, <1>4 DEF Next, Terminated

\* execute_statement finds its way: whatever loops, refined or not, and errors a
\* program has, the stack of each rank has the loops around its statement, and
\* the values and bodies are those the loops say.
THEOREM RanksSound == Spec => []IInv
<1>1. Init => IInv
  BY InitSound
<1>2. IInv /\ [Next]_vars => IInv'
  BY NextSound
<1>. QED BY <1>1, <1>2, PTL DEF Spec

LEMMA PassedAtEnd == IInv => OnlyInnermostAborted
<1>. SUFFICES ASSUME IInv, NEW p \in Rank, Finished(p),
                     NEW k \in 1 .. Len(program),
                     program[k].op = "loop", ~program[k].refine, program[k].last # NoLast,
                     \A j \in Own(k) : program[j].op # "measure",
                     \A j \in Enclosing(k) : \E body \in entered[p] : body[1] = j,
                     NEW i \in 0 .. program[k].first + program[k].last,
                     Holds(program[k], program[k].first + i * program[k].step)
              PROVE  <<k, program[k].first + i * program[k].step>> \in entered[p]
  BY DEF OnlyInnermostAborted
<1>1. /\ program \in Programs /\ Len(program) \in Nat /\ pc[p] \in Nat /\ pc[p] > Len(program)
      /\ Passed(program, pc[p], entered[p]) /\ k \in Nat /\ IsLoop(program, k)
  BY RankTyped DEF Sound, Finished, IsLoop
<1>2. Unaborted(program, k)
  BY <1>1 DEF Unaborted, Own
<1>3. Reached(program, k, entered[p])
  <2>. SUFFICES ASSUME NEW j \in Nat, Open(program, k, j) PROVE HasRun(entered[p], j)
    BY DEF Reached
  <2>1. j \in Enclosing(k)
    BY <1>1 DEF Enclosing, Open, IsLoop
  <2>. QED BY <2>1 DEF HasRun
<1>4. program[k].end \in Nat /\ program[k].end <= Len(program)
  BY <1>1, Shape
<1>5. ~Open(program, pc[p], k) /\ ~Before(program, pc[p], k)
  BY <1>1, <1>4 DEF Open, Before
<1>6. TookAll(program, k, entered[p])
  BY <1>1, <1>2, <1>3, <1>5 DEF Passed
<1>7. i \in Nat
  OBVIOUS
<1>. QED BY <1>6, <1>7 DEF TookAll, ValueOf

\* A measurement that does not fit the buffer ends the loop it stands in and no
\* other, for all programs: abort_inner_loop is reset at each head and end of a
\* loop, so that it is never left set for the test of a loop around (exec.c).
THEOREM AbortsInnermost == Spec => []OnlyInnermostAborted
BY RanksSound, PassedAtEnd, PTL

-----------------------------------------------------------------------------
(* The variable of a refined loop.                                         *)

IsRefined(pg, k) == IsLoop(pg, k) /\ pg[k].refine

\* Loop k is the first of pg to be refined, all of them have its variable, and
\* the program comes to it before any measurement.
Leads(pg, k) ==
  /\ IsRefined(pg, k)
  /\ \A j \in 1 .. Len(pg) : IsRefined(pg, j) => k <= j /\ pg[j].var = pg[k].var
  /\ \A j \in 1 .. k - 1 : /\ pg[j].op # "measure"
                           /\ Open(pg, k, j) => Holds(pg[j], pg[j].first)

RefinedFirst ==
  \A pg \in Programs : \A m \in 1 .. Len(pg) : IsRefined(pg, m) => \E k \in 1 .. m : Leads(pg, k)

\* A rank behind the head of the first refined loop has its variable, and so has
\* one that has measured and may no longer take itself for the root.
Aimed ==
  /\ IInv
  /\ loopvar \in [Rank -> Var \cup {NULL}]
  /\ \A k \in Nat : Leads(program, k) =>
       \A p \in Rank : pc[p] > k \/ measurement_comm[p] # << >> => loopvar[p] = program[k].var

\* A measurement is behind the first refined loop, and so is the end of a loop
\* unless all of this loop is before it.
LEMMA Behind ==
  ASSUME IInv, NEW k \in Nat, Leads(program, k), NEW p \in Rank, pc[p] <= Len(program),
         \/ program[pc[p]].op = "measure"
         \/ program[pc[p]].op = "end" /\ k <= pc[p]
  PROVE  pc[p] > k
<1>1. /\ pc[p] \in Nat /\ 1 <= pc[p] /\ Len(program) \in Nat
      /\ k \in 1 .. Len(program) /\ program[k].op = "loop"
  BY RankTyped DEF Leads, IsRefined, IsLoop
<1>2. pc[p] # k
  BY <1>1
<1>3. ~(pc[p] \in 1 .. k - 1 /\ program[pc[p]].op = "measure")
  BY DEF Leads
<1>. QED BY <1>1, <1>2, <1>3

\* At a choice, the rank is behind the head of the loop that is refined.
LEMMA BehindAtChoice ==
  ASSUME IInv, NEW k \in Nat, Leads(program, k), NEW p \in Rank, point[p] = "choose"
  PROVE  /\ pc[p] > k /\ pc[p] <= Len(program) /\ program[pc[p]].op = "end"
         /\ IsRefined(program, InnerLoop(p).loop)
<1>1. /\ pc[p] \in Nat /\ 1 <= pc[p] /\ Len(program) \in Nat /\ program \in Programs
      /\ pc[p] <= Len(program) /\ program[pc[p]].op = "end"
      /\ program[program[pc[p]].loop].refine
  BY RankTyped DEF Sound, Placed
<1>. DEFINE m == Statement(p).loop
<1>2. m \in Nat /\ IsLoop(program, m) /\ pc[p] = program[m].end /\ InnerLoop(p).loop = m
  BY <1>1, AtEnd DEF Statement
<1>3. IsRefined(program, m) /\ m < program[m].end /\ m \in 1 .. Len(program)
  BY <1>1, <1>2, Shape DEF IsRefined, Statement, IsLoop
<1>4. k <= m
  BY <1>3 DEF Leads
<1>5. pc[p] > k
  BY <1>1, <1>2, <1>3, <1>4
<1>. QED BY <1>1, <1>2, <1>3, <1>5

LEMMA EnterLoopAimed ==
  ASSUME Aimed, IInv', NEW p \in Rank, EnterLoop(p)
  PROVE  Aimed'
<1>. DEFINE m == pc[p]
            s == Statement(p)
<1>1. /\ IInv /\ program \in Programs /\ m \in Nat /\ 1 <= m /\ Len(program) \in Nat
      /\ pc \in [Rank -> Nat]
  BY RankTyped DEF Aimed, IInv
<1>2. IsLoop(program, m) /\ m <= Len(program) /\ s = program[m]
  BY <1>1 DEF EnterLoop, IsAt, Statement, IsLoop
<1>3. /\ s.first \in Nat /\ s.refine \in BOOLEAN /\ s.end \in Nat /\ m < s.end
      /\ s.end <= Len(program) /\ s.var \in Var
  BY <1>1, <1>2, Shape
<1>4. program' = program /\ measurement_comm' = measurement_comm /\ init_autorefine(p, s)
  BY DEF EnterLoop, input
<1>5. loopvar' \in [Rank -> Var \cup {NULL}]
  BY <1>3, <1>4 DEF init_autorefine, refinement, Aimed
<1>6. ASSUME NEW k \in Nat, Leads(program, k), NEW q \in Rank,
             pc'[q] > k \/ measurement_comm[q] # << >>
      PROVE  loopvar'[q] = program[k].var
  <2>1. pc[q] > k \/ measurement_comm[q] # << >> => loopvar[q] = program[k].var
    BY <1>6 DEF Aimed
  <2>2. CASE q # p
    <3>1. pc'[q] = pc[q]
      BY <1>1, <2>2 DEF EnterLoop, EnterBody, Goto
    <3>2. loopvar'[q] = loopvar[q]
      BY <1>4, <2>2 DEF init_autorefine, refinement, Aimed
    <3>. QED BY <1>6, <2>1, <3>1, <3>2
  <2>3. CASE q = p /\ s.refine
    <3>1. IsRefined(program, m) /\ m \in 1 .. Len(program)
      BY <1>2, <2>3 DEF IsRefined, IsLoop
    <3>2. s.var = program[k].var
      BY <1>2, <1>6, <3>1 DEF Leads
    <3>3. CASE lrootproc(p)
      BY <1>4, <2>3, <3>2, <3>3 DEF init_autorefine, Aimed
    <3>4. CASE ~lrootproc(p)
      <4>1. measurement_comm[p] # << >>
        BY <3>4 DEF lrootproc
      <4>2. loopvar' = loopvar
        BY <1>4, <3>4 DEF init_autorefine, refinement
      <4>. QED BY <2>1, <2>3, <4>1, <4>2
    <3>. QED BY <3>3, <3>4
  <2>4. CASE q = p /\ ~s.refine
    <3>1. loopvar' = loopvar
      BY <1>4, <2>4 DEF init_autorefine, refinement
    <3>2. k \in 1 .. Len(program) /\ program[k].refine
      BY <1>6 DEF Leads, IsRefined, IsLoop
    <3>3. m # k
      BY <1>2, <2>4, <3>2
    <3>4. ASSUME pc'[p] > k, m < k PROVE FALSE
      <4>1. CASE pc' = [pc EXCEPT ![p] = m + 1]
        BY <1>1, <3>4, <4>1
      <4>2. CASE pc' = [pc EXCEPT ![p] = s.end + 1] /\ ~Holds(s, FirstValue(p, s))
        <5>1. k <= s.end
          BY <1>1, <1>3, <3>4, <4>2
        <5>2. Open(program, k, m) /\ m \in 1 .. k - 1
          BY <1>1, <1>2, <3>4, <5>1 DEF Open
        <5>3. Holds(s, s.first)
          BY <1>2, <1>6, <5>2 DEF Leads
        <5>. QED BY <2>4, <4>2, <5>3 DEF FirstValue
      <4>. QED BY <2>4, <4>1, <4>2 DEF EnterLoop, EnterBody, Goto
    <3>. QED BY <1>1, <1>6, <2>1, <2>4, <3>1, <3>2, <3>3, <3>4
  <2>. QED BY <2>2, <2>3, <2>4
<1>. QED BY <1>4, <1>5, <1>6 DEF Aimed

\* Steps that leave the variables to refine and the communicators as they are,
\* and pass the head of no refined loop.
LEMMA AimKept ==
  ASSUME Aimed, IInv', UNCHANGED <<program, loopvar>>,
         \A k \in Nat : Leads(program, k) =>
           \A p \in Rank : pc'[p] > k \/ measurement_comm'[p] # << >>
                          => pc[p] > k \/ measurement_comm[p] # << >>
  PROVE  Aimed'
BY DEF Aimed

LEMMA NextValueAimed ==
  ASSUME Aimed, IInv', NEW p \in Rank, NextValue(p)
  PROVE  Aimed'
<1>. DEFINE m == Statement(p).loop
<1>1. /\ IInv /\ program \in Programs /\ pc \in [Rank -> Nat]
      /\ pc[p] <= Len(program) /\ Statement(p).op = "end"
  BY DEF Aimed, IInv, NextValue, IsAt
<1>2. m \in Nat /\ IsLoop(program, m) /\ pc[p] = program[m].end
  BY <1>1, AtEnd
<1>3. m < pc[p] /\ pc[p] \in Nat
  BY <1>1, <1>2, Shape
<1>4. \/ pc' = [pc EXCEPT ![p] = m + 1] \/ pc' = pc \/ pc' = [pc EXCEPT ![p] = pc[p] + 1]
  BY DEF NextValue, EnterBody, Goto
<1>5. ASSUME NEW k \in Nat, Leads(program, k), NEW q \in Rank, pc'[q] > k PROVE pc[q] > k
  <2>1. CASE q # p
    BY <1>1, <1>4, <1>5, <2>1
  <2>2. CASE q = p
    <3>1. pc'[p] = m + 1 \/ pc'[p] = pc[p] \/ pc'[p] = pc[p] + 1
      BY <1>1, <1>4
    <3>2. k <= pc[p]
      <4>. HIDE DEF m
      <4>. QED BY <1>2, <1>3, <1>5, <2>2, <3>1
    <3>. QED BY <1>1, <1>5, <2>2, <3>2, Behind DEF Statement
  <2>. QED BY <2>1, <2>2
<1>6. UNCHANGED <<program, loopvar, measurement_comm>>
  BY DEF NextValue, input, refinement
<1>. QED BY <1>5, <1>6, AimKept

LEMMA CommStepAimed ==
  ASSUME Aimed, IInv', NEW c \in Comms, CommStep(c)
  PROVE  Aimed'
<1>1. IInv /\ pc \in [Rank -> Nat]
  BY DEF Aimed, IInv
<1>2. UNCHANGED <<program, loopvar>>
  BY DEF CommStep, Measure, RefineLoop, LeaveRefined, input, refinement
<1>. SUFFICES ASSUME NEW k \in Nat, Leads(program, k), NEW q \in Rank,
                     pc'[q] > k \/ measurement_comm'[q] # << >>
              PROVE  pc[q] > k \/ measurement_comm[q] # << >>
  BY <1>2, AimKept
<1>3. CASE Measure(c)
  <2>1. pc' = pc
    BY <1>3 DEF Measure
  <2>2. CASE q \in ToSet(c)
    <3>1. IsAt(q, "measure")
      BY <1>3, <2>2 DEF Measure
    <3>. QED BY <1>1, <3>1, Behind DEF IsAt, Statement
  <2>3. CASE q \notin ToSet(c)
    BY <1>3, <2>1, <2>3 DEF Measure
  <2>. QED BY <2>2, <2>3
<1>4. CASE RefineLoop(c) \/ LeaveRefined(c)
  <2>1. measurement_comm' = measurement_comm
    BY <1>4 DEF RefineLoop, LeaveRefined
  <2>2. CASE q \in ToSet(c)
    <3>1. point[q] = "choose"
      BY <1>4, <2>2 DEF RefineLoop, LeaveRefined, Choosing
    <3>. QED BY <1>1, <3>1, BehindAtChoice
  <2>3. CASE q \notin ToSet(c)
    <3>1. pc'[q] = pc[q]
      BY <1>1, <1>4, <2>3 DEF RefineLoop, LeaveRefined
    <3>. QED BY <2>1, <3>1
  <2>. QED BY <2>2, <2>3
<1>. QED BY <1>3, <1>4 DEF CommStep

LEMMA ReduceAimed ==
  ASSUME Aimed, IInv', Reduce
  PROVE  Aimed'
<1>1. ASSUME NEW k \in Nat, Leads(program, k), NEW q \in Rank PROVE pc[q] > k
  <2>1. pc[q] <= Len(program) /\ program[pc[q]].op = "measure"
    BY RankTyped DEF Aimed, Reduce, Sound, Placed
  <2>. QED BY <1>1, <2>1, Behind DEF Aimed
<1>2. UNCHANGED <<program, loopvar>>
  BY DEF Reduce, input, refinement
<1>. QED BY <1>1, <1>2, AimKept

LEMMA InitAimed == Init => Aimed
<1>. SUFFICES ASSUME Init PROVE Aimed
  OBVIOUS
<1>1. IInv /\ loopvar \in [Rank -> Var \cup {NULL}]
  BY InitSound DEF Init
<1>2. ASSUME NEW k \in Nat, Leads(program, k), NEW p \in Rank
      PROVE  ~(pc[p] > k) /\ measurement_comm[p] = << >>
  <2>1. k >= 1
    BY <1>2 DEF Leads, IsRefined, IsLoop
  <2>. QED BY <2>1 DEF Init
<1>. QED BY <1>1, <1>2 DEF Aimed

LEMMA NextAimed == Aimed /\ [Next]_vars => Aimed'
<1>. SUFFICES ASSUME Aimed, [Next]_vars PROVE Aimed'
  OBVIOUS
<1>1. IInv'
  BY NextSound DEF Aimed
<1>2. ASSUME UNCHANGED <<program, pc, measurement_comm, loopvar>> PROVE Aimed'
  BY <1>1, <1>2, AimKept
<1>3. ASSUME NEW p \in Rank, RankStep(p) PROVE Aimed'
  <2>1. CASE EnterLoop(p)
    BY <1>1, <2>1, EnterLoopAimed
  <2>2. CASE NextValue(p)
    BY <1>1, <2>2, NextValueAimed
  <2>3. CASE NestedRefine(p) \/ EndOfPass(p) \/ NotMember(p) \/ NoCandidates(p)
    BY <1>2, <2>3 DEF NestedRefine, EndOfPass, NotMember, NoCandidates, input, refinement
  <2>. QED BY <1>3, <2>1, <2>2, <2>3 DEF RankStep
<1>4. ASSUME NEW c \in Comms, CommStep(c) PROVE Aimed'
  BY <1>1, <1>4, CommStepAimed
<1>5. CASE Reduce
  BY <1>1, <1>5, ReduceAimed
<1>6. CASE UNCHANGED vars
  BY <1>2, <1>6 DEF vars, input, refinement
<1>. QED BY <1>3, <1>4, <1>5, <1>6 DEF Next, Terminated

LEMMA AimedAtChoice ==
  ASSUME RefinedFirst
  PROVE  Aimed => RefinesOwnVariable
<1>. SUFFICES ASSUME Aimed, NEW p \in Rank, point[p] = "choose"
              PROVE  loopvar[p] = program[InnerLoop(p).loop].var
  BY DEF RefinesOwnVariable
<1>. DEFINE m == InnerLoop(p).loop
<1>1. IInv /\ program \in Programs
  BY DEF Aimed, IInv
<1>2. /\ pc[p] \in Nat /\ 1 <= pc[p] /\ pc[p] <= Len(program) /\ program[pc[p]].op = "end"
      /\ program[program[pc[p]].loop].refine
  BY <1>1, RankTyped DEF Sound, Placed
<1>3. IsRefined(program, m)
  BY <1>1, <1>2, AtEnd DEF IsRefined, Statement
<1>4. m \in 1 .. Len(program)
  BY <1>3 DEF IsRefined, IsLoop
<1>5. PICK k \in 1 .. m : Leads(program, k)
  BY <1>1, <1>3, <1>4 DEF RefinedFirst
<1>6. k \in Nat /\ program[m].var = program[k].var
  BY <1>3, <1>4, <1>5 DEF Leads
<1>7. pc[p] > k
  BY <1>1, <1>5, <1>6, BehindAtChoice
<1>. QED BY <1>5, <1>6, <1>7 DEF Aimed

-----------------------------------------------------------------------------
(* The same way for all ranks.  Between two collectives over all ranks (the *)
(* reduction of the flag, the broadcasts of a refined loop) a rank goes on  *)
(* by what it has itself, so all ranks go through the same places, each at  *)
(* its own pace; the way ends where they wait for each other.               *)

\* A program with refined loops measures on all ranks and comes to the first of
\* these loops before any measurement; they begin with the value that
\* init_autorefine stores on the root, and have one variable, which no loop
\* around them has.
Synchronous ==
  \A pg \in Programs : \A m \in 1 .. Len(pg) : IsRefined(pg, m) =>
    /\ pg[m].first = Clobbered
    /\ \E k \in 1 .. m : Leads(pg, k)
    /\ \A j \in Nat : Open(pg, m, j) => pg[j].var # pg[m].var
    /\ \A j \in 1 .. Len(pg) : pg[j].op = "measure" => ToSet(pg[j].comm) = Rank

\* The variables of the loops on the stack st, with their values in e.  After a
\* refined loop its variable is another on the root than on the other ranks.
IsLive(pg, st, v) == \E i \in 1 .. Len(st) : pg[st[i].loop].var = v
Live(pg, st, e) == [v \in Var |-> IF IsLive(pg, st, v) THEN e[v] ELSE 0]
With(e, v, x) == [e EXCEPT ![v] = x]

Local(p) ==
  [at |-> pc[p], st |-> stack[p], env |-> Live(program, stack[p], env[p]),
   flag |-> abort_inner_loop[p], pt |-> IF point[p] = "choose" THEN "choose" ELSE "run"]

\* The head or the end of a loop, from which a rank goes on alone, to After.
GoesOn(pg, w) == w.at \in 1 .. Len(pg) /\ pg[w.at].op \in {"loop", "end"} /\ w.pt = "run"

Moved(pg, w, at, st, v, x, flag, pt) ==
  [at |-> at, st |-> st, env |-> Live(pg, st, With(w.env, v, x)), flag |-> flag, pt |-> pt]

AfterHead(pg, w) ==
  LET s == pg[w.at]
      Opened(n) == Append(w.st, [loop |-> w.at, internal |-> s.first, passes |-> n])
  IN IF Holds(s, s.first) THEN Moved(pg, w, w.at + 1, Opened(-1), s.var, s.first, FALSE, "run")
     ELSE IF s.refine THEN Moved(pg, w, s.end, Opened(0), s.var, s.first, FALSE, "choose")
     ELSE Moved(pg, w, s.end + 1, w.st, s.var, s.first, FALSE, "run")

AfterEnd(pg, w) ==
  LET k == pg[w.at].loop
      s == pg[k]
      x == Last(w.st).internal + s.step
      Inner(n) == Append(Front(w.st), [loop |-> k, internal |-> x, passes |-> n])
  IN IF Last(w.st).passes >= 0
     THEN [at |-> w.at, st |-> w.st, env |-> w.env, flag |-> w.flag, pt |-> "choose"]
     ELSE IF ~w.flag /\ Holds(s, x) THEN Moved(pg, w, k + 1, Inner(-1), s.var, x, w.flag, "run")
     ELSE IF s.refine THEN Moved(pg, w, w.at, Inner(0), s.var, x, w.flag, "choose")
     ELSE Moved(pg, w, w.at + 1, Front(w.st), s.var, x, FALSE, "run")

After(pg, w) == IF pg[w.at].op = "loop" THEN AfterHead(pg, w) ELSE AfterEnd(pg, w)

\* f[0], ..., f[n] are the places on the way so far; each rank is at one, unless
\* an error has stopped it.
Way(pg, n, f) == \A i \in 0 .. n - 1 : GoesOn(pg, f[i]) /\ f[i + 1] = After(pg, f[i])
OneWay == \E n \in Nat : \E f :
  /\ Way(program, n, f)
  /\ \A p \in Rank : point[p] # "failed" => \E i \in 0 .. n : f[i] = Local(p)

Alike ==
  /\ Aimed
  /\ env \in [Rank -> [Var -> Int]]
  /\ OneWay

LEMMA LiveLess ==
  ASSUME NEW pg, NEW st, NEW st2, NEW e,
         \A u \in Var : IsLive(pg, st2, u) => IsLive(pg, st, u)
  PROVE  Live(pg, st2, Live(pg, st, e)) = Live(pg, st2, e)
BY DEF Live

LEMMA LiveSet ==
  ASSUME NEW pg, NEW st, NEW st2, NEW e \in [Var -> Int], NEW v \in Var, NEW x,
         \A u \in Var : IsLive(pg, st2, u) => IsLive(pg, st, u) \/ u = v
  PROVE  Live(pg, st2, With(Live(pg, st, e), v, x)) = Live(pg, st2, With(e, v, x))
<1>. DEFINE a == With(Live(pg, st, e), v, x)
            b == With(e, v, x)
<1>1. ASSUME NEW u \in Var, IsLive(pg, st2, u) PROVE a[u] = b[u]
  <2>1. Live(pg, st, e)[u] = IF IsLive(pg, st, u) THEN e[u] ELSE 0
    BY DEF Live
  <2>2. a[u] = IF u = v THEN x ELSE Live(pg, st, e)[u]
    BY DEF Live, With
  <2>3. b[u] = IF u = v THEN x ELSE e[u]
    BY DEF With
  <2>. QED BY <1>1, <2>1, <2>2, <2>3
<1>. HIDE DEF a, b
<1>2. Live(pg, st2, a) = Live(pg, st2, b)
  BY <1>1 DEF Live
<1>. QED BY <1>2 DEF a, b

\* A loop more, or less.
LEMMA LiveMore ==
  ASSUME NEW pg, NEW st \in Seq(Entry), NEW e \in Entry, NEW u
  PROVE  IsLive(pg, Append(st, e), u) <=> IsLive(pg, st, u) \/ pg[e.loop].var = u
<1>. DEFINE s == Append(st, e)
<1>1. /\ Len(st) \in Nat /\ Len(s) = Len(st) + 1 /\ s[Len(st) + 1] = e
      /\ \A i \in 1 .. Len(st) : s[i] = st[i]
  BY AppendProperties, LenProperties
<1>. HIDE DEF s
<1>2. ASSUME IsLive(pg, s, u) PROVE IsLive(pg, st, u) \/ pg[e.loop].var = u
  <2>1. PICK i \in 1 .. Len(s) : pg[s[i].loop].var = u
    BY <1>2 DEF IsLive
  <2>2. i \in 1 .. Len(st) \/ i = Len(st) + 1
    BY <1>1
  <2>. QED BY <1>1, <2>1, <2>2 DEF IsLive
<1>3. ASSUME IsLive(pg, st, u) PROVE IsLive(pg, s, u)
  <2>1. PICK i \in 1 .. Len(st) : pg[st[i].loop].var = u
    BY <1>3 DEF IsLive
  <2>2. i \in 1 .. Len(s) /\ s[i] = st[i]
    BY <1>1
  <2>. QED BY <2>1, <2>2 DEF IsLive
<1>4. ASSUME pg[e.loop].var = u PROVE IsLive(pg, s, u)
  <2>1. Len(s) \in 1 .. Len(s) /\ s[Len(s)] = e
    BY <1>1
  <2>. QED BY <1>4, <2>1 DEF IsLive
<1>. QED BY <1>2, <1>3, <1>4 DEF s

LEMMA LiveFront ==
  ASSUME NEW pg, NEW st \in Seq(Entry), st # << >>, NEW u
  PROVE  /\ IsLive(pg, Front(st), u) => IsLive(pg, st, u)
         /\ pg[Last(st).loop].var = u => IsLive(pg, st, u)
<1>1. /\ Len(st) \in Nat /\ Len(st) >= 1 /\ Last(st) = st[Len(st)]
      /\ Len(Front(st)) = Len(st) - 1 /\ \A i \in 1 .. Len(st) - 1 : Front(st)[i] = st[i]
  BY FrontOf
<1>2. ASSUME IsLive(pg, Front(st), u) PROVE IsLive(pg, st, u)
  <2>1. PICK i \in 1 .. Len(Front(st)) : pg[Front(st)[i].loop].var = u
    BY <1>2 DEF IsLive
  <2>2. i \in 1 .. Len(st) /\ Front(st)[i] = st[i]
    BY <1>1
  <2>. QED BY <2>1, <2>2 DEF IsLive
<1>3. ASSUME pg[Last(st).loop].var = u PROVE IsLive(pg, st, u)
  BY <1>1, <1>3, Len(st) \in 1 .. Len(st) DEF IsLive
<1>. QED BY <1>2, <1>3

\* The loops around one that is refined do not have its variable.
LEMMA LeftBehind ==
  ASSUME Synchronous, NEW pg \in Programs, NEW m \in 1 .. Len(pg), IsRefined(pg, m),
         NEW st, Stacked(pg, m, st)
  PROVE  ~IsLive(pg, st, pg[m].var)
<1>. SUFFICES ASSUME NEW i \in 1 .. Len(st), pg[st[i].loop].var = pg[m].var PROVE FALSE
  BY DEF IsLive
<1>1. Open(pg, m, st[i].loop) /\ st \in Seq(Entry)
  BY DEF Stacked
<1>2. st[i].loop \in Nat
  BY <1>1, LoopOfEntry
<1>. QED BY <1>1, <1>2 DEF Synchronous

\* The rank that goes on follows the way, or is the first and makes it longer.
LEMMA WayGoesOn ==
  ASSUME OneWay, NEW p \in Rank, program' = program, GoesOn(program, Local(p)),
         point[p] # "failed", Local(p)' = After(program, Local(p)),
         \A q \in Rank : q # p => Local(q)' = Local(q) /\ point'[q] = point[q]
  PROVE  OneWay'
<1>1. PICK n \in Nat : \E f : /\ Way(program, n, f)
                              /\ \A q \in Rank : point[q] # "failed" => \E i \in 0 .. n : f[i] = Local(q)
  BY DEF OneWay
<1>2. PICK f : /\ Way(program, n, f)
               /\ \A q \in Rank : point[q] # "failed" => \E i \in 0 .. n : f[i] = Local(q)
  BY <1>1
<1>3. PICK k \in 0 .. n : f[k] = Local(p)
  BY <1>2
<1>4. CASE k < n
  <2>1. k \in 0 .. n - 1 /\ k + 1 \in 0 .. n
    BY <1>4
  <2>2. f[k + 1] = Local(p)'
    BY <1>2, <1>3, <2>1 DEF Way
  <2>3. \A q \in Rank : point'[q] # "failed" => \E i \in 0 .. n : f[i] = Local(q)'
    BY <1>2, <2>1, <2>2
  <2>4. Way(program', n, f)
    BY <1>2
  <2>. QED BY <2>3, <2>4 DEF OneWay
<1>5. CASE k = n
  <2>. DEFINE g == [i \in 0 .. n + 1 |-> IF i <= n THEN f[i] ELSE Local(p)']
  <2>1. \A i \in 0 .. n : g[i] = f[i]
    OBVIOUS
  <2>2. g[n + 1] = Local(p)'
    BY n + 1 \in 0 .. n + 1, ~(n + 1 <= n)
  <2>. HIDE DEF g
  <2>3. ASSUME NEW i \in 0 .. n + 1 - 1 PROVE GoesOn(program, g[i]) /\ g[i + 1] = After(program, g[i])
    <3>1. CASE i = n
      BY <1>3, <1>5, <2>1, <2>2, <3>1
    <3>2. CASE i # n
      <4>1. i \in 0 .. n - 1 /\ i \in 0 .. n /\ i + 1 \in 0 .. n
        BY <3>2
      <4>. QED BY <1>2, <2>1, <4>1 DEF Way
    <3>. QED BY <3>1, <3>2
  <2>4. Way(program', n + 1, g)
    BY <2>3 DEF Way
  <2>5. ASSUME NEW q \in Rank, point'[q] # "failed" PROVE \E i \in 0 .. n + 1 : g[i] = Local(q)'
    <3>1. CASE q = p
      BY <2>2, <3>1, n + 1 \in 0 .. n + 1
    <3>2. CASE q # p
      <4>1. PICK i \in 0 .. n : f[i] = Local(q)
        BY <1>2, <2>5, <3>2
      <4>. QED BY <2>1, <3>2, <4>1, i \in 0 .. n + 1
    <3>. QED BY <3>1, <3>2
  <2>6. n + 1 \in Nat
    OBVIOUS
  <2>. QED BY <2>4, <2>5, <2>6 DEF OneWay
<1>. QED BY <1>4, <1>5

\* Ranks that wait are at the end of the way, and so at the same place.
LEMMA WaitTogether ==
  ASSUME OneWay, NEW p \in Rank, NEW q \in Rank,
         point[p] # "failed", point[q] # "failed",
         ~GoesOn(program, Local(p)), ~GoesOn(program, Local(q))
  PROVE  Local(p) = Local(q)
<1>1. PICK n \in Nat : \E f : /\ Way(program, n, f)
                              /\ \A r \in Rank : point[r] # "failed" => \E i \in 0 .. n : f[i] = Local(r)
  BY DEF OneWay
<1>2. PICK f : /\ Way(program, n, f)
               /\ \A r \in Rank : point[r] # "failed" => \E i \in 0 .. n : f[i] = Local(r)
  BY <1>1
<1>3. ASSUME NEW r \in Rank, point[r] # "failed", ~GoesOn(program, Local(r)) PROVE f[n] = Local(r)
  <2>1. PICK i \in 0 .. n : f[i] = Local(r)
    BY <1>2, <1>3
  <2>2. i \notin 0 .. n - 1
    BY <1>2, <1>3, <2>1 DEF Way
  <2>3. i = n
    BY <2>2
  <2>. QED BY <2>1, <2>3
<1>. QED BY <1>3

\* All ranks at one place begin a new way.
LEMMA NewWay ==
  ASSUME program' = program, \E q \in Rank : \A p \in Rank : Local(p)' = Local(q)'
  PROVE  OneWay'
<1>1. PICK q \in Rank : \A p \in Rank : Local(p)' = Local(q)'
  OBVIOUS
<1>. DEFINE f == [i \in 0 .. 0 |-> Local(q)']
<1>2. Way(program', 0, f)
  BY DEF Way
<1>3. \A p \in Rank : \E i \in 0 .. 0 : f[i] = Local(p)'
  BY <1>1
<1>. HIDE DEF f
<1>. QED BY <1>2, <1>3, 0 \in Nat DEF OneWay

\* A step of rank p to the next place, with the value x for variable v.
LEMMA StepOnWay ==
  ASSUME Alike, Aimed', NEW p \in Rank, program' = program, GoesOn(program, Local(p)),
         point[p] = "run",
         NEW at, NEW st, NEW v \in Var, NEW x \in Int, NEW flag, NEW pt \in {"run", "choose"},
         pc' = [pc EXCEPT ![p] = at], stack' = [stack EXCEPT ![p] = st],
         env' = [env EXCEPT ![p][v] = x],
         abort_inner_loop' = [abort_inner_loop EXCEPT ![p] = flag],
         point' = [point EXCEPT ![p] = pt],
         After(program, Local(p)) = Moved(program, Local(p), at, st, v, x, flag, pt),
         \A u \in Var : IsLive(program, st, u) => IsLive(program, stack[p], u) \/ u = v
  PROVE  Alike'
<1>1. /\ pc \in [Rank -> Nat] /\ stack \in [Rank -> Seq(Entry)] /\ point \in [Rank -> Points]
      /\ abort_inner_loop \in [Rank -> BOOLEAN] /\ env \in [Rank -> [Var -> Int]]
  BY DEF Alike, Aimed, IInv
<1>2. /\ pc'[p] = at /\ stack'[p] = st /\ abort_inner_loop'[p] = flag /\ point'[p] = pt
      /\ env'[p] = [env[p] EXCEPT ![v] = x]
  BY <1>1
<1>3. ASSUME NEW q \in Rank, q # p
      PROVE  /\ pc'[q] = pc[q] /\ stack'[q] = stack[q] /\ env'[q] = env[q]
             /\ abort_inner_loop'[q] = abort_inner_loop[q] /\ point'[q] = point[q]
  BY <1>1, <1>3
<1>4. env' \in [Rank -> [Var -> Int]]
  BY <1>1
<1>5. Live(program, st, With(Local(p).env, v, x)) = Live(program, st, env'[p])
  <2>1. Local(p).env = Live(program, stack[p], env[p])
    BY DEF Local
  <2>2. env[p] \in [Var -> Int]
    BY <1>1
  <2>3. Live(program, st, With(Live(program, stack[p], env[p]), v, x))
          = Live(program, st, With(env[p], v, x))
    BY <2>2, LiveSet
  <2>4. env'[p] = With(env[p], v, x)
    BY <1>2 DEF With
  <2>. QED BY <2>1, <2>3, <2>4
<1>6. Local(p)' = [at |-> at, st |-> st, env |-> Live(program, st, env'[p]), flag |-> flag, pt |-> pt]
  BY <1>2 DEF Local
<1>7. Local(p)' = After(program, Local(p))
  BY <1>5, <1>6 DEF Moved
<1>8. \A q \in Rank : q # p => Local(q)' = Local(q) /\ point'[q] = point[q]
  BY <1>3 DEF Local
<1>9. OneWay'
  BY <1>7, <1>8, WayGoesOn DEF Alike
<1>. QED BY <1>4, <1>9 DEF Alike

LEMMA EnterLoopAlike ==
  ASSUME Synchronous, Alike, Aimed', NEW p \in Rank, EnterLoop(p)
  PROVE  Alike'
<1>. DEFINE k == pc[p]
            s == program[k]
            E(n) == [loop |-> k, internal |-> s.first, passes |-> n]
<1>1. /\ program \in Programs /\ Len(program) \in Nat /\ k \in Nat /\ 1 <= k
      /\ stack[p] \in Seq(Entry) /\ stack = [stack EXCEPT ![p] = stack[p]]
      /\ point = [point EXCEPT ![p] = point[p]]
  BY RankTyped DEF Alike, Aimed
<1>2. k \in 1 .. Len(program) /\ s.op = "loop" /\ s = Statement(p) /\ point[p] = "run"
  BY <1>1 DEF EnterLoop, IsAt, Statement
<1>3. IsLoop(program, k) /\ s.var \in Var /\ s.first \in Nat
  BY <1>1, <1>2, Shape DEF IsLoop
<1>4. FirstValue(p, s) = s.first
  <2>1. s.refine => s.first = Clobbered
    BY <1>1, <1>2, <1>3 DEF Synchronous, IsRefined
  <2>. QED BY <2>1 DEF FirstValue
<1>5. GoesOn(program, Local(p))
  BY <1>2 DEF GoesOn, Local
<1>6. After(program, Local(p)) =
        IF Holds(s, s.first)
        THEN Moved(program, Local(p), k + 1, Append(stack[p], E(-1)), s.var, s.first, FALSE, "run")
        ELSE IF s.refine
        THEN Moved(program, Local(p), s.end, Append(stack[p], E(0)), s.var, s.first, FALSE, "choose")
        ELSE Moved(program, Local(p), s.end + 1, stack[p], s.var, s.first, FALSE, "run")
  BY <1>2 DEF After, AfterHead, Local
<1>7. /\ program' = program /\ env' = [env EXCEPT ![p][s.var] = s.first]
      /\ abort_inner_loop' = [abort_inner_loop EXCEPT ![p] = FALSE]
  BY <1>2, <1>4 DEF EnterLoop, ResetAbort, input
<1>8. ASSUME NEW n \in Int, NEW u, IsLive(program, Append(stack[p], E(n)), u)
      PROVE  IsLive(program, stack[p], u) \/ u = s.var
  <2>1. E(n) \in Entry
    BY <1>1, <1>3 DEF Entry
  <2>2. E(n).loop = k
    OBVIOUS
  <2>. HIDE DEF E
  <2>. QED BY <1>1, <1>8, <2>1, <2>2, LiveMore
<1>9. s.first \in Int
  BY <1>3
<1>10. CASE /\ Holds(s, s.first) /\ EnterBody(p, k, s.first)
            /\ stack' = [stack EXCEPT ![p] = Append(stack[p], E(-1))] /\ UNCHANGED point
  <2>1. /\ pc' = [pc EXCEPT ![p] = k + 1] /\ stack' = [stack EXCEPT ![p] = Append(stack[p], E(-1))]
        /\ point' = [point EXCEPT ![p] = "run"]
    BY <1>1, <1>2, <1>10 DEF EnterBody, Goto
  <2>2. \A u \in Var : IsLive(program, Append(stack[p], E(-1)), u)
                         => IsLive(program, stack[p], u) \/ u = s.var
    BY <1>8, -1 \in Int
  <2>3. After(program, Local(p)) =
          Moved(program, Local(p), k + 1, Append(stack[p], E(-1)), s.var, s.first, FALSE, "run")
    BY <1>6, <1>10
  <2>. HIDE DEF E, k, s
  <2>. QED BY <1>2, <1>3, <1>5, <1>7, <1>9, <2>1, <2>2, <2>3, StepOnWay
<1>11. CASE /\ ~Holds(s, s.first) /\ s.refine /\ Goto(p, s.end)
            /\ stack' = [stack EXCEPT ![p] = Append(stack[p], E(0))]
            /\ point' = [point EXCEPT ![p] = "choose"]
  <2>1. /\ pc' = [pc EXCEPT ![p] = s.end] /\ stack' = [stack EXCEPT ![p] = Append(stack[p], E(0))]
        /\ point' = [point EXCEPT ![p] = "choose"]
    BY <1>11 DEF Goto
  <2>2. \A u \in Var : IsLive(program, Append(stack[p], E(0)), u)
                         => IsLive(program, stack[p], u) \/ u = s.var
    BY <1>8, 0 \in Int
  <2>3. After(program, Local(p)) =
          Moved(program, Local(p), s.end, Append(stack[p], E(0)), s.var, s.first, FALSE, "choose")
    BY <1>6, <1>11
  <2>. DEFINE st == Append(stack[p], E(0))
              at == s.end
  <2>4. /\ pc' = [pc EXCEPT ![p] = at] /\ stack' = [stack EXCEPT ![p] = st]
        /\ After(program, Local(p)) =
             Moved(program, Local(p), at, st, s.var, s.first, FALSE, "choose")
        /\ \A u \in Var : IsLive(program, st, u) => IsLive(program, stack[p], u) \/ u = s.var
    BY <2>1, <2>2, <2>3
  <2>5. point' = [point EXCEPT ![p] = "choose"] /\ point[p] = "run"
    BY <1>2, <2>1
  <2>. HIDE DEF E, k, s, st, at
  <2>. QED BY <1>3, <1>5, <1>7, <1>9, <2>4, <2>5, StepOnWay
<1>12. CASE ~Holds(s, s.first) /\ ~s.refine /\ Goto(p, s.end + 1) /\ UNCHANGED <<stack, point, entered>>
  <2>1. /\ pc' = [pc EXCEPT ![p] = s.end + 1] /\ stack' = [stack EXCEPT ![p] = stack[p]]
        /\ point' = [point EXCEPT ![p] = "run"]
    BY <1>1, <1>2, <1>12 DEF Goto
  <2>2. After(program, Local(p)) =
          Moved(program, Local(p), s.end + 1, stack[p], s.var, s.first, FALSE, "run")
    BY <1>6, <1>12
  <2>. HIDE DEF E, k, s
  <2>. QED BY <1>2, <1>3, <1>5, <1>7, <1>9, <2>1, <2>2, StepOnWay
<1>. QED BY <1>2, <1>4, <1>10, <1>11, <1>12 DEF EnterLoop

LEMMA NextValueAlike ==
  ASSUME Alike, Aimed', NEW p \in Rank, NextValue(p)
  PROVE  Alike'
<1>. DEFINE k == Statement(p).loop
            s == program[k]
            x == InnerLoop(p).internal + s.step
            again == ~abort_inner_loop[p] /\ Holds(s, x)
            front == Front(stack[p])
            E(n) == [loop |-> k, internal |-> x, passes |-> n]
<1>1. /\ program \in Programs /\ Len(program) \in Nat /\ pc[p] \in Nat /\ 1 <= pc[p]
      /\ abort_inner_loop[p] \in BOOLEAN
      /\ abort_inner_loop = [abort_inner_loop EXCEPT ![p] = abort_inner_loop[p]]
      /\ pc = [pc EXCEPT ![p] = pc[p]] /\ point = [point EXCEPT ![p] = point[p]]
  BY RankTyped DEF Alike, Aimed
<1>2. /\ pc[p] \in 1 .. Len(program) /\ point[p] = "run"
      /\ Statement(p).op = "end" /\ Statement(p) = program[pc[p]]
  <2>1. IsAt(p, "end")
    BY DEF NextValue
  <2>. QED BY <1>1, <2>1 DEF IsAt, Statement
<1>3. /\ k \in Nat /\ IsLoop(program, k) /\ InnerLoop(p) \in Entry /\ InnerLoop(p).loop = k
      /\ stack[p] \in Seq(Entry) /\ stack[p] # << >>
  BY <1>1, <1>2, AtEnd DEF Alike, Aimed
<1>4. s.var \in Var /\ s.step \in Int /\ x \in Int
  <2>1. s.var \in Var /\ s.step \in Int
    BY <1>1, <1>3, Shape
  <2>2. InnerLoop(p).internal \in Int
    BY <1>3 DEF Entry
  <2>. HIDE DEF s
  <2>. QED BY <2>1, <2>2
<1>5. GoesOn(program, Local(p))
  BY <1>2 DEF GoesOn, Local
<1>6. After(program, Local(p)) =
        IF again
        THEN Moved(program, Local(p), k + 1, Append(front, E(-1)), s.var, x, abort_inner_loop[p], "run")
        ELSE IF s.refine
        THEN Moved(program, Local(p), pc[p], Append(front, E(0)), s.var, x, abort_inner_loop[p], "choose")
        ELSE Moved(program, Local(p), pc[p] + 1, front, s.var, x, FALSE, "run")
  <2>1. Last(stack[p]).passes = -1 /\ ~(Last(stack[p]).passes >= 0)
    BY DEF NextValue, InnerLoop
  <2>. QED BY <1>2, <2>1 DEF After, AfterEnd, Local, InnerLoop
<1>7. program' = program /\ env' = [env EXCEPT ![p][s.var] = x]
  BY DEF NextValue, input
<1>8. front \in Seq(Entry) /\ \A u : IsLive(program, front, u) => IsLive(program, stack[p], u)
  BY <1>3, FrontOf, LiveFront
<1>9. ASSUME NEW n \in Int, NEW u, IsLive(program, Append(front, E(n)), u)
      PROVE  IsLive(program, stack[p], u) \/ u = s.var
  <2>1. E(n).loop = k
    OBVIOUS
  <2>2. E(n) \in Entry
    <3>. HIDE DEF x, k
    <3>. QED BY <1>3, <1>4 DEF Entry
  <2>. HIDE DEF E, front
  <2>. QED BY <1>8, <1>9, <2>1, <2>2, LiveMore
<1>10. CASE /\ again /\ EnterBody(p, k, x) /\ stack' = [stack EXCEPT ![p] = Append(Front(@), E(-1))]
            /\ UNCHANGED <<point, flags>>
  <2>1. /\ pc' = [pc EXCEPT ![p] = k + 1] /\ point' = [point EXCEPT ![p] = "run"]
        /\ abort_inner_loop' = [abort_inner_loop EXCEPT ![p] = abort_inner_loop[p]]
    BY <1>1, <1>2, <1>10 DEF EnterBody, Goto, flags
  <2>2. stack' = [stack EXCEPT ![p] = Append(front, E(-1))]
    BY <1>10
  <2>3. \A u \in Var : IsLive(program, Append(front, E(-1)), u)
                         => IsLive(program, stack[p], u) \/ u = s.var
    BY <1>9, -1 \in Int
  <2>4. After(program, Local(p)) =
          Moved(program, Local(p), k + 1, Append(front, E(-1)), s.var, x, abort_inner_loop[p], "run")
    BY <1>6, <1>10
  <2>. HIDE DEF E, k, s, x, front
  <2>. QED BY <1>2, <1>4, <1>5, <1>7, <2>1, <2>2, <2>3, <2>4, StepOnWay
<1>11. CASE /\ ~again /\ s.refine /\ point' = [point EXCEPT ![p] = "choose"]
            /\ stack' = [stack EXCEPT ![p] = Append(Front(@), E(0))]
            /\ UNCHANGED <<pc, flags, entered>>
  <2>1. /\ pc' = [pc EXCEPT ![p] = pc[p]] /\ point' = [point EXCEPT ![p] = "choose"]
        /\ abort_inner_loop' = [abort_inner_loop EXCEPT ![p] = abort_inner_loop[p]]
    BY <1>1, <1>11 DEF flags
  <2>2. stack' = [stack EXCEPT ![p] = Append(front, E(0))]
    BY <1>11
  <2>3. \A u \in Var : IsLive(program, Append(front, E(0)), u)
                         => IsLive(program, stack[p], u) \/ u = s.var
    BY <1>9, 0 \in Int
  <2>4. After(program, Local(p)) =
          Moved(program, Local(p), pc[p], Append(front, E(0)), s.var, x, abort_inner_loop[p], "choose")
    BY <1>6, <1>11
  <2>. DEFINE at == pc[p]
              flag == abort_inner_loop[p]
              st == Append(front, E(0))
  <2>5. /\ pc' = [pc EXCEPT ![p] = at] /\ abort_inner_loop' = [abort_inner_loop EXCEPT ![p] = flag]
        /\ stack' = [stack EXCEPT ![p] = st]
        /\ After(program, Local(p)) = Moved(program, Local(p), at, st, s.var, x, flag, "choose")
        /\ \A u \in Var : IsLive(program, st, u) => IsLive(program, stack[p], u) \/ u = s.var
    BY <2>1, <2>2, <2>3, <2>4
  <2>6. point' = [point EXCEPT ![p] = "choose"] /\ point[p] = "run"
    BY <1>2, <2>1
  <2>. HIDE DEF E, k, s, x, front, at, flag, st
  <2>. QED BY <1>4, <1>5, <1>7, <2>5, <2>6, StepOnWay
<1>12. CASE /\ ~again /\ ~s.refine /\ Goto(p, pc[p] + 1) /\ stack' = [stack EXCEPT ![p] = Front(@)]
            /\ ResetAbort(p) /\ UNCHANGED <<point, local_abort_inner_loop, entered>>
  <2>1. /\ pc' = [pc EXCEPT ![p] = pc[p] + 1] /\ point' = [point EXCEPT ![p] = "run"]
        /\ abort_inner_loop' = [abort_inner_loop EXCEPT ![p] = FALSE]
    BY <1>1, <1>2, <1>12 DEF ResetAbort, Goto
  <2>2. stack' = [stack EXCEPT ![p] = front]
    BY <1>12
  <2>3. After(program, Local(p)) = Moved(program, Local(p), pc[p] + 1, front, s.var, x, FALSE, "run")
    BY <1>6, <1>12
  <2>. HIDE DEF E, k, s, x, front
  <2>. QED BY <1>2, <1>4, <1>5, <1>7, <1>8, <2>1, <2>2, <2>3, StepOnWay
<1>. QED BY <1>10, <1>11, <1>12 DEF NextValue

\* The end of a refining pass is a step on the way, too.
LEMMA EndOfPassAlike ==
  ASSUME Alike, Aimed', NEW p \in Rank, EndOfPass(p)
  PROVE  Alike'
<1>1. /\ program \in Programs /\ Len(program) \in Nat /\ pc[p] \in Nat /\ 1 <= pc[p]
      /\ point \in [Rank -> Points]
  BY RankTyped DEF Alike, Aimed, IInv
<1>2. /\ pc[p] \in 1 .. Len(program) /\ point[p] = "run" /\ Statement(p).op = "end"
      /\ Statement(p) = program[pc[p]] /\ Last(stack[p]).passes >= 0
  BY <1>1 DEF EndOfPass, IsAt, Statement, InnerLoop
<1>3. GoesOn(program, Local(p))
  BY <1>2 DEF GoesOn, Local
<1>4. UNCHANGED <<program, pc, stack, env, abort_inner_loop>>
  BY DEF EndOfPass, input, flags
<1>5. point'[p] = "choose" /\ \A q \in Rank : q # p => point'[q] = point[q]
  BY <1>1 DEF EndOfPass
<1>6. After(program, Local(p)) =
        [at |-> pc[p], st |-> stack[p], env |-> Live(program, stack[p], env[p]),
         flag |-> abort_inner_loop[p], pt |-> "choose"]
  BY <1>2 DEF After, AfterEnd, Local
<1>7. Local(p)' = After(program, Local(p))
  BY <1>4, <1>5, <1>6 DEF Local
<1>8. \A q \in Rank : q # p => Local(q)' = Local(q) /\ point'[q] = point[q]
  BY <1>4, <1>5 DEF Local
<1>9. OneWay'
  BY <1>2, <1>3, <1>4, <1>7, <1>8, WayGoesOn DEF Alike
<1>. QED BY <1>4, <1>9 DEF Alike

\* A measurement leaves the ranks where they are, and so does an error.
LEMMA PointAlike ==
  ASSUME Alike, Aimed', UNCHANGED <<program, pc, stack, env, abort_inner_loop>>,
         \A p \in Rank : point'[p] # "failed" =>
           point[p] # "failed" /\ (point'[p] = "choose" <=> point[p] = "choose")
  PROVE  Alike'
<1>1. \A p \in Rank : point'[p] # "failed" => Local(p)' = Local(p)
  BY DEF Local
<1>2. PICK n \in Nat : \E f : /\ Way(program, n, f)
                              /\ \A q \in Rank : point[q] # "failed" => \E i \in 0 .. n : f[i] = Local(q)
  BY DEF Alike, OneWay
<1>3. PICK f : /\ Way(program, n, f)
               /\ \A q \in Rank : point[q] # "failed" => \E i \in 0 .. n : f[i] = Local(q)
  BY <1>2
<1>4. \A q \in Rank : point'[q] # "failed" => \E i \in 0 .. n : f[i] = Local(q)'
  BY <1>1, <1>3
<1>5. OneWay'
  BY <1>3, <1>4 DEF OneWay
<1>. QED BY <1>5 DEF Alike

\* All ranks have the same flag, and a new way begins behind the measurement.
LEMMA ReduceAlike ==
  ASSUME Alike, Aimed', Reduce
  PROVE  Alike'
<1>1. UNCHANGED <<program, stack, env>>
  BY DEF Reduce, input
<1>2. /\ abort_inner_loop' = [p \in Rank |-> Abort(p)]
      /\ pc' = [p \in Rank |-> pc[p] + 1]
      /\ point' = [p \in Rank |-> "run"]
  BY DEF Reduce
<1>3. ASSUME NEW p \in Rank PROVE point[p] = "reduce" /\ ~GoesOn(program, Local(p))
  <2>1. point[p] = "reduce"
    BY DEF Reduce
  <2>2. program[pc[p]].op = "measure"
    BY <2>1, RankTyped DEF Alike, Aimed, Sound, Placed
  <2>. QED BY <2>1, <2>2 DEF GoesOn, Local
<1>4. PICK q \in Rank : TRUE
  BY RanksFinite
<1>5. ASSUME NEW p \in Rank PROVE Local(p)' = Local(q)'
  <2>1. Local(p) = Local(q)
    BY <1>3, WaitTogether DEF Alike
  <2>2. /\ pc[p] = pc[q] /\ stack[p] = stack[q]
        /\ Live(program, stack[p], env[p]) = Live(program, stack[q], env[q])
    BY <2>1 DEF Local
  <2>3. Abort(p) = Abort(q)
    BY DEF Abort
  <2>4. pc'[p] = pc'[q] /\ abort_inner_loop'[p] = abort_inner_loop'[q] /\ point'[p] = point'[q]
    BY <1>2, <2>2, <2>3
  <2>. QED BY <1>1, <2>2, <2>4 DEF Local
<1>6. OneWay'
  BY <1>1, <1>5, NewWay
<1>. QED BY <1>1, <1>6 DEF Alike

\* Where a refined loop takes a value or is left, all ranks are at its end, with
\* the same stack, and loopvar points to its variable on all of them.
LEMMA ChoosingTogether ==
  ASSUME Synchronous, Alike, NEW c \in Comms, Choosing(c),
         NEW m, m = InnerLoop(Head(c)).loop
  PROVE  /\ ToSet(c) = Rank /\ Head(c) \in Rank /\ program \in Programs
         /\ m \in 1 .. Len(program) /\ IsRefined(program, m) /\ program[m].var \in Var
         /\ ~IsLive(program, Front(stack[Head(c)]), program[m].var)
         /\ stack[Head(c)] \in Seq(Entry) /\ stack[Head(c)] # << >>
         /\ \A p \in Rank : /\ Local(p) = Local(Head(c)) /\ InnerLoop(p) = InnerLoop(Head(c))
                            /\ stack[p] = stack[Head(c)] /\ pc[p] = pc[Head(c)]
                            /\ abort_inner_loop[p] = abort_inner_loop[Head(c)]
                            /\ Live(program, stack[p], env[p])
                                 = Live(program, stack[Head(c)], env[Head(c)])
                            /\ loopvar[p] = program[m].var
<1>. DEFINE r == Head(c)
<1>1. IInv /\ program \in Programs
  BY DEF Alike, Aimed, IInv
<1>2. r \in Rank /\ r \in ToSet(c) /\ ToSet(c) \subseteq Rank
  BY <1>1, Members
<1>3. point[r] = "choose"
  BY <1>2 DEF Choosing
<1>4. /\ m \in Nat /\ IsLoop(program, m) /\ program[m].refine
      /\ stack[r] \in Seq(Entry) /\ stack[r] # << >> /\ Stacked(program, m, Front(stack[r]))
  BY <1>1, <1>2, <1>3, AtChoice
<1>5. IsRefined(program, m) /\ m \in 1 .. Len(program) /\ program[m].var \in Var
  BY <1>1, <1>4, Shape DEF IsRefined, IsLoop
<1>6. ToSet(c) = Rank
  BY <1>1, <1>5 DEF Synchronous, Comms
<1>7. ~IsLive(program, Front(stack[r]), program[m].var)
  BY <1>1, <1>4, <1>5, LeftBehind
<1>8. ASSUME NEW p \in Rank
      PROVE  point[p] = "choose" /\ ~GoesOn(program, Local(p))
  <2>1. point[p] = "choose"
    BY <1>6 DEF Choosing
  <2>. QED BY <2>1 DEF GoesOn, Local
<1>9. RefinedFirst
  BY DEF RefinedFirst, Synchronous
<1>10. RefinesOwnVariable
  BY <1>9, AimedAtChoice DEF Alike
<1>11. ASSUME NEW p \in Rank
       PROVE  /\ Local(p) = Local(r) /\ stack[p] = stack[r] /\ pc[p] = pc[r]
              /\ abort_inner_loop[p] = abort_inner_loop[r]
              /\ Live(program, stack[p], env[p]) = Live(program, stack[r], env[r])
  <2>1. Local(p) = Local(r)
    BY <1>2, <1>8, WaitTogether DEF Alike
  <2>. QED BY <2>1 DEF Local
<1>12. ASSUME NEW p \in Rank PROVE InnerLoop(p) = InnerLoop(r) /\ loopvar[p] = program[m].var
  <2>1. InnerLoop(p) = InnerLoop(r)
    BY <1>11 DEF InnerLoop
  <2>. QED BY <1>8, <1>10, <2>1 DEF RefinesOwnVariable
<1>. QED BY <1>1, <1>2, <1>4, <1>5, <1>6, <1>7, <1>11, <1>12

LEMMA RefineLoopAlike ==
  ASSUME Synchronous, Alike, Aimed', NEW c \in Comms, RefineLoop(c)
  PROVE  Alike'
<1>. DEFINE r == Head(c)
            m == InnerLoop(r).loop
            v == program[m].var
            n == InnerLoop(r).passes + 1
            st == [stack[r] EXCEPT ![Len(stack[r])].passes = n]
<1>1. Choosing(c)
  BY DEF RefineLoop
<1>2. /\ ToSet(c) = Rank /\ r \in Rank /\ v \in Var
      /\ stack[r] \in Seq(Entry) /\ stack[r] # << >>
      /\ \A p \in Rank : /\ InnerLoop(p) = InnerLoop(r) /\ stack[p] = stack[r]
                         /\ abort_inner_loop[p] = abort_inner_loop[r]
                         /\ Live(program, stack[p], env[p]) = Live(program, stack[r], env[r])
                         /\ loopvar[p] = v
  BY <1>1, ChoosingTogether
<1>. HIDE DEF r, m, v
<1>3. {p \in ToSet(c) : loopvar[p] = NULL} = {}
  BY <1>2, SizesNatural
<1>4. PICK x \in Candidates(program[InnerLoop(r).loop]) :
        env' = [p \in Rank |-> IF p \in ToSet(c) \ {q \in ToSet(c) : loopvar[q] = NULL}
                               THEN [env[p] EXCEPT ![loopvar[p]] = x] ELSE env[p]]
  BY DEF RefineLoop, r
<1>5. x \in Int
  BY <1>4 DEF Candidates
<1>6. \A p \in Rank : env'[p] = With(env[p], v, x)
  BY <1>2, <1>3, <1>4 DEF With
<1>7. env' \in [Rank -> [Var -> Int]]
  <2>1. \A p \in Rank : [env[p] EXCEPT ![v] = x] \in [Var -> Int]
    BY <1>2, <1>5 DEF Alike
  <2>. QED BY <1>2, <1>3, <1>4, <2>1
<1>8. program' = program /\ abort_inner_loop' = abort_inner_loop
  BY DEF RefineLoop, input, flags
<1>9. ASSUME NEW p \in Rank
      PROVE  pc'[p] = InnerLoop(r).loop + 1 /\ point'[p] = "run" /\ stack'[p] = st
  <2>1. /\ point' = [q \in Rank |-> IF q \in {o \in ToSet(c) : loopvar[o] = NULL} THEN "failed"
                                    ELSE IF q \in ToSet(c) THEN "run" ELSE point[q]]
        /\ pc' = [q \in Rank |-> IF q \in ToSet(c) \ {o \in ToSet(c) : loopvar[o] = NULL}
                                 THEN InnerLoop(q).loop + 1 ELSE pc[q]]
        /\ stack' = [q \in Rank |-> IF q \in ToSet(c)
             THEN [stack[q] EXCEPT ![Len(stack[q])].passes = InnerLoop(r).passes + 1] ELSE stack[q]]
    BY DEF RefineLoop, r
  <2>. QED BY <1>2, <1>3, <2>1
<1>10. ASSUME NEW u \in Var, IsLive(program, st, u) PROVE IsLive(program, stack[r], u) \/ u = v
  <2>. DEFINE e == [Last(stack[r]) EXCEPT !.passes = n]
  <2>1. n \in Int
    <3>1. Last(stack[r]) \in Entry
      BY <1>2, FrontOf
    <3>. QED BY <3>1 DEF Entry, InnerLoop
  <2>2. e \in Entry /\ e.loop = Last(stack[r]).loop /\ st = Append(Front(stack[r]), e)
    BY <1>2, <2>1, ReplaceTop
  <2>3. Front(stack[r]) \in Seq(Entry)
    BY <1>2, FrontOf
  <2>. HIDE DEF e, st
  <2>4. IsLive(program, Front(stack[r]), u) \/ program[Last(stack[r]).loop].var = u
    BY <1>10, <2>2, <2>3, LiveMore
  <2>. QED BY <1>2, <2>4, LiveFront
<1>. HIDE DEF st
<1>11. ASSUME NEW p \in Rank PROVE Live(program, st, env'[p]) = Live(program, st, env'[r])
  <2>1. ASSUME NEW q \in Rank
        PROVE  Live(program, st, With(Live(program, stack[r], env[r]), v, x))
                 = Live(program, st, env'[q])
    <3>1. env[q] \in [Var -> Int] /\ v \in Var /\ stack[q] = stack[r]
      BY <1>2 DEF Alike
    <3>2. \A u \in Var : IsLive(program, st, u) => IsLive(program, stack[r], u) \/ u = v
      BY <1>10
    <3>3. Live(program, st, With(Live(program, stack[r], env[q]), v, x))
            = Live(program, st, With(env[q], v, x))
      BY <3>1, <3>2, LiveSet
    <3>4. Live(program, stack[r], env[q]) = Live(program, stack[r], env[r])
      BY <1>2, <3>1
    <3>. QED BY <1>6, <3>3, <3>4
  <2>. QED BY <1>2, <2>1
<1>12. \A p \in Rank : Local(p)' = Local(r)'
  BY <1>2, <1>8, <1>9, <1>11 DEF Local
<1>13. OneWay'
  BY <1>2, <1>8, <1>12, NewWay
<1>. QED BY <1>7, <1>13 DEF Alike

LEMMA LeaveRefinedAlike ==
  ASSUME Synchronous, Alike, Aimed', NEW c \in Comms, LeaveRefined(c)
  PROVE  Alike'
<1>. DEFINE r == Head(c)
            m == InnerLoop(r).loop
            v == program[m].var
            front == Front(stack[r])
<1>1. Choosing(c)
  BY DEF LeaveRefined
<1>2. /\ ToSet(c) = Rank /\ r \in Rank /\ v \in Var /\ ~IsLive(program, front, v)
      /\ stack[r] \in Seq(Entry) /\ stack[r] # << >>
      /\ \A p \in Rank : /\ stack[p] = stack[r] /\ pc[p] = pc[r]
                         /\ Live(program, stack[p], env[p]) = Live(program, stack[r], env[r])
                         /\ loopvar[p] = v
  BY <1>1, ChoosingTogether
<1>3. \A u : IsLive(program, front, u) => IsLive(program, stack[r], u)
  BY <1>2, LiveFront
<1>. HIDE DEF r, m, v, front
<1>4. PICK x \in Candidates(program[InnerLoop(r).loop]) \cup {env[r][loopvar[r]]} :
        env' = [env EXCEPT ![r][loopvar[r]] = x]
  BY DEF LeaveRefined, r
<1>5. env[r] \in [Var -> Int] /\ env[r][v] \in Int /\ loopvar[r] = v
  BY <1>2 DEF Alike
<1>6. x \in Int
  BY <1>4, <1>5 DEF Candidates
<1>7. env' = [env EXCEPT ![r][v] = x] /\ env' \in [Rank -> [Var -> Int]]
  BY <1>2, <1>4, <1>5, <1>6 DEF Alike
<1>8. ASSUME NEW p \in Rank, NEW u \in Var, IsLive(program, front, u) PROVE env'[p][u] = env[p][u]
  <2>1. u # v
    BY <1>2, <1>8
  <2>2. env \in [Rank -> [Var -> Int]]
    BY DEF Alike
  <2>. QED BY <1>2, <1>7, <2>1, <2>2
<1>9. program' = program
  BY DEF LeaveRefined, input
<1>10. ASSUME NEW p \in Rank
       PROVE  /\ pc'[p] = pc[r] + 1 /\ point'[p] = "run" /\ stack'[p] = front
              /\ abort_inner_loop'[p] = FALSE
  <2>1. /\ pc' = [q \in Rank |-> IF q \in ToSet(c) THEN pc[q] + 1 ELSE pc[q]]
        /\ point' = [q \in Rank |-> IF q \in ToSet(c) THEN "run" ELSE point[q]]
        /\ stack' = [q \in Rank |-> IF q \in ToSet(c) THEN Front(stack[q]) ELSE stack[q]]
        /\ abort_inner_loop' =
             [q \in Rank |-> IF q \in ToSet(c) THEN FALSE ELSE abort_inner_loop[q]]
    BY DEF LeaveRefined
  <2>. QED BY <1>2, <2>1 DEF front
<1>11. ASSUME NEW p \in Rank PROVE Live(program, front, env'[p]) = Live(program, front, env'[r])
  <2>1. ASSUME NEW q \in Rank
        PROVE  Live(program, front, Live(program, stack[r], env[r])) = Live(program, front, env'[q])
    <3>1. Live(program, front, env'[q]) = Live(program, front, env[q])
      BY <1>8 DEF Live
    <3>2. Live(program, front, Live(program, stack[r], env[q])) = Live(program, front, env[q])
      BY <1>3, LiveLess
    <3>3. Live(program, stack[r], env[q]) = Live(program, stack[r], env[r])
      BY <1>2
    <3>. QED BY <3>1, <3>2, <3>3
  <2>. QED BY <1>2, <2>1
<1>12. \A p \in Rank : Local(p)' = Local(r)'
  BY <1>2, <1>9, <1>10, <1>11 DEF Local
<1>13. OneWay'
  BY <1>2, <1>9, <1>12, NewWay
<1>. QED BY <1>7, <1>13 DEF Alike

LEMMA InitAlike == Init => Alike
<1>. SUFFICES ASSUME Init PROVE Alike
  OBVIOUS
<1>1. Aimed
  BY InitAimed
<1>2. PICK q \in Rank : TRUE
  BY RanksFinite
<1>. DEFINE f == [i \in 0 .. 0 |-> Local(q)]
<1>3. \A p \in Rank : Local(p) = Local(q)
  BY DEF Init, Local
<1>4. Way(program, 0, f) /\ \A p \in Rank : \E i \in 0 .. 0 : f[i] = Local(p)
  BY <1>3 DEF Way
<1>5. OneWay
  <2>. HIDE DEF f
  <2>. QED BY <1>4, 0 \in Nat DEF OneWay
<1>6. env \in [Rank -> [Var -> Int]]
  BY DEF Init
<1>. QED BY <1>1, <1>5, <1>6 DEF Alike

LEMMA NextAlike ==
  ASSUME Synchronous
  PROVE  Alike /\ [Next]_vars => Alike'
<1>. SUFFICES ASSUME Alike, [Next]_vars PROVE Alike'
  OBVIOUS
<1>1. Aimed' /\ point \in [Rank -> Points]
  BY NextAimed DEF Alike, Aimed, IInv
<1>2. ASSUME NEW p \in Rank, RankStep(p) PROVE Alike'
  <2>1. CASE EnterLoop(p)
    BY <1>1, <2>1, EnterLoopAlike
  <2>2. CASE NextValue(p)
    BY <1>1, <2>2, NextValueAlike
  <2>3. CASE EndOfPass(p)
    BY <1>1, <2>3, EndOfPassAlike
  <2>4. CASE NotMember(p)
    <3>1. UNCHANGED <<program, pc, stack, env, abort_inner_loop>>
      BY <2>4 DEF NotMember, input
    <3>2. point[p] = "run" /\ point' = [point EXCEPT ![p] = "reduce"]
      BY <2>4 DEF NotMember, IsAt
    <3>. QED BY <1>1, <3>1, <3>2, PointAlike
  <2>5. CASE NestedRefine(p) \/ NoCandidates(p)
    <3>1. UNCHANGED <<program, pc, stack, env, abort_inner_loop>>
      BY <2>5 DEF NestedRefine, NoCandidates, input, flags
    <3>2. point' = [point EXCEPT ![p] = "failed"]
      BY <2>5 DEF NestedRefine, NoCandidates
    <3>. QED BY <1>1, <3>1, <3>2, PointAlike
  <2>. QED BY <1>2, <2>1, <2>2, <2>3, <2>4, <2>5 DEF RankStep
<1>3. ASSUME NEW c \in Comms, CommStep(c) PROVE Alike'
  <2>1. CASE Measure(c)
    <3>1. UNCHANGED <<program, pc, stack, env, abort_inner_loop>>
      BY <2>1 DEF Measure, input
    <3>2. \A q \in Rank : point'[q] = point[q] \/ (point[q] = "run" /\ point'[q] = "reduce")
      BY <2>1 DEF Measure, IsAt
    <3>. QED BY <1>1, <3>1, <3>2, PointAlike
  <2>2. CASE RefineLoop(c)
    BY <1>1, <2>2, RefineLoopAlike
  <2>3. CASE LeaveRefined(c)
    BY <1>1, <2>3, LeaveRefinedAlike
  <2>. QED BY <1>3, <2>1, <2>2, <2>3 DEF CommStep
<1>4. CASE Reduce
  BY <1>1, <1>4, ReduceAlike
<1>5. CASE UNCHANGED vars
  <2>1. UNCHANGED <<program, pc, stack, env, abort_inner_loop, point>>
    BY <1>5 DEF vars, input, flags
  <2>. QED BY <1>1, <2>1, PointAlike
<1>. QED BY <1>2, <1>3, <1>4, <1>5 DEF Next, Terminated

LEMMA AlikeAtCollectives == Alike => SameStatement
<1>. SUFFICES ASSUME Alike, NEW p \in Rank, NEW q \in Rank,
                     \/ point[p] = "reduce" /\ point[q] = "reduce"
                     \/ point[p] = "choose" /\ point[q] = "choose"
                     \/ IsAt(p, "measure") /\ IsAt(q, "measure")
              PROVE  pc[p] = pc[q] /\ LoopValues(p) = LoopValues(q)
  BY DEF SameStatement
<1>1. ASSUME NEW r \in Rank, point[r] \in {"reduce", "choose"} \/ IsAt(r, "measure")
      PROVE  point[r] # "failed" /\ ~GoesOn(program, Local(r))
  <2>1. CASE point[r] = "choose"
    BY <2>1 DEF GoesOn, Local
  <2>2. CASE point[r] = "reduce" \/ IsAt(r, "measure")
    <3>1. program[pc[r]].op = "measure"
      BY <2>2, RankTyped DEF Alike, Aimed, Sound, Placed, IsAt, Statement
    <3>. QED BY <2>2, <3>1 DEF GoesOn, Local, IsAt
  <2>. QED BY <1>1, <2>1, <2>2
<1>2. Local(p) = Local(q)
  BY <1>1, WaitTogether DEF Alike
<1>3. /\ pc[p] = pc[q] /\ stack[p] = stack[q]
      /\ Live(program, stack[p], env[p]) = Live(program, stack[q], env[q])
  BY <1>2 DEF Local
<1>4. ASSUME NEW k \in 1 .. Len(stack[p])
      PROVE  env[p][program[stack[p][k].loop].var] = env[q][program[stack[p][k].loop].var]
  <2>. DEFINE v == program[stack[p][k].loop].var
  <2>1. v \in Var
    <3>1. /\ program \in Programs /\ Stacked(program, pc[p], stack[p]) /\ stack[p] \in Seq(Entry)
      BY RankTyped DEF Alike, Aimed, Sound
    <3>2. stack[p][k].loop \in Nat /\ IsLoop(program, stack[p][k].loop)
      BY <3>1, LoopOfEntry DEF Stacked, Open
    <3>. QED BY <3>1, <3>2, Shape
  <2>2. IsLive(program, stack[p], v)
    BY DEF IsLive
  <2>. HIDE DEF v
  <2>3. Live(program, stack[p], env[p])[v] = env[p][v] /\ Live(program, stack[p], env[q])[v] = env[q][v]
    BY <2>1, <2>2 DEF Live
  <2>4. env[p][v] = env[q][v]
    BY <1>3, <2>3
  <2>. QED BY <2>4 DEF v
<1>. QED BY <1>3, <1>4 DEF LoopValues

\* Ranks that wait for each other, in a measurement, in the reduction of
\* abort_inner_loop or for the next value of a refined loop, have come there from
\* the same statement with the same values: the decision to leave a loop, which
\* each rank takes alone in execute_statement, is the same on all of them.  This
\* holds for all programs without refined loops, and for those with refined loops
\* which the difference between the root and the other ranks does not reach.
THEOREM RanksMeet ==
  ASSUME Synchronous
  PROVE  Spec => []SameStatement
<1>1. Init => Alike
  BY InitAlike
<1>2. Alike /\ [Next]_vars => Alike'
  BY NextAlike
<1>3. Alike => SameStatement
  BY AlikeAtCollectives
<1>. QED BY <1>1, <1>2, <1>3, PTL DEF Spec
=============================================================================
