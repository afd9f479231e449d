------------------------ MODULE MeasurementLoop_proof ------------------------
(***************************************************************************)
(* Proofs about MeasurementLoop, for every set of ranks, every kind of     *)
(* synchronization, any numbers of repetitions and any timing.             *)
(*                                                                         *)
(* Ranks leave a batch one after the other, so the variables of two ranks  *)
(* differ while a decision is on its way.  What all ranks agree on at      *)
(* every moment (Agreed) is the state a rank has, or will have once it has *)
(* taken over the decision that is waiting for it.  Placed ties a rank's   *)
(* place in the arrays to that state.                                      *)
(***************************************************************************)
EXTENDS MeasurementLoop, DataLemmas

Pending(p) == bcast[p] # NoMessage

\* What rank p has, or will have after the decision that waits for it: results
\* gathered, interval, length of the batch, whether it leaves, its first run.
StartOf(p) == IF Pending(p) THEN bcast[p].result_index ELSE start_not_yet_gathered_results[p]
IntervalOf(p) == IF Pending(p) THEN bcast[p].interval ELSE interval[p]
LengthOf(p) == imin2(max_rep_hard_limit - StartOf(p),
                     IF Pending(p) THEN bcast[p].max_counter ELSE max_counter[p])
Leaving(p) == IF Pending(p) THEN bcast[p].stop = TRUE ELSE pc[p] = "done"
InBatch(p) == pc[p] = "run" \/ (pc[p] = "decide" /\ ~Pending(p))
FirstRun(p) == IF InBatch(p) THEN runs[p] - counter[p] ELSE runs[p]

Agreed ==
  \A p, q \in Rank :
    /\ StartOf(p) = StartOf(q)
    /\ IntervalOf(p) = IntervalOf(q)
    /\ LengthOf(p) = LengthOf(q)
    /\ Leaving(p) <=> Leaving(q)
    /\ FirstRun(p) = FirstRun(q)

Typed ==
  /\ pc \in [Rank -> Points]
  /\ counter \in [Rank -> Nat] /\ runs \in [Rank -> Nat]
  /\ result_index \in [Rank -> Nat] /\ start_not_yet_gathered_results \in [Rank -> Nat]
  /\ max_counter \in [Rank -> Nat \ {0}]
  /\ interval = [p \in Rank |-> interval[p]] /\ bcast = [p \in Rank |-> bcast[p]]

Announced ==
  \A p \in Rank : Pending(p) =>
    /\ pc[p] = "decide"
    /\ bcast[p].result_index \in Nat /\ bcast[p].max_counter \in Nat \ {0}
    /\ bcast[p].stop \in BOOLEAN
    /\ bcast[p].stop = FALSE => bcast[p].result_index < max_rep_hard_limit

Placed ==
  \A p \in Rank :
    /\ pc[p] = "batch" => /\ result_index[p] = start_not_yet_gathered_results[p]
                          /\ start_not_yet_gathered_results[p] < max_rep_hard_limit
    /\ InBatch(p) => /\ result_index[p] = start_not_yet_gathered_results[p] + counter[p]
                     /\ counter[p] <= max_counter[p]
                     /\ start_not_yet_gathered_results[p] + max_counter[p] <= max_rep_hard_limit
    /\ InBatch(p) /\ pc[p] = "decide" => counter[p] = max_counter[p]

IInv == Typed /\ Announced /\ Placed /\ Agreed

-----------------------------------------------------------------------------
\* The arrays have room for the first batch and for max_repetitions results.
LEMMA Limit ==
  /\ max_rep_hard_limit \in Nat
  /\ max_rep_hard_limit >= 1
  /\ max_rep_hard_limit >= max_repetitions
<1>1. /\ (3 * max_repetitions + 1) \div 2 \in Nat
      /\ (3 * max_repetitions + 1) \div 2 >= max_repetitions
  BY Repetitions
<1>. QED BY <1>1, Repetitions DEF max_rep_hard_limit, imax2

LEMMA InitIInv == Init => IInv
<1>. SUFFICES ASSUME Init PROVE IInv
  OBVIOUS
<1>1. /\ min_repetitions \in Nat \ {0} /\ First_max_counter \in Nat \ {0}
      /\ max_rep_hard_limit \in Nat /\ max_rep_hard_limit >= 1
  BY Limit, Repetitions
<1>2. PICK n \in FirstBatch : max_counter = [p \in Rank |-> n]
  BY DEF Init
<1>3. n \in Nat \ {0}
  BY <1>1, <1>2 DEF FirstBatch
<1>4. Typed
  BY <1>2, <1>3 DEF Init, Typed, Points
<1>5. Announced
  BY DEF Init, Announced, Pending
<1>6. Placed
  BY <1>1 DEF Init, Placed, InBatch
<1>7. Agreed
  BY <1>2 DEF Init, Agreed, Pending, StartOf, IntervalOf, LengthOf, Leaving, InBatch, FirstRun
<1>. QED BY <1>4, <1>5, <1>6, <1>7 DEF IInv

\* Whoever agreed before still agrees when no rank's part of it changes.
LEMMA SameAgreement ==
  ASSUME Agreed,
         \A p \in Rank : /\ StartOf(p)' = StartOf(p) /\ IntervalOf(p)' = IntervalOf(p)
                         /\ LengthOf(p)' = LengthOf(p) /\ (Leaving(p)' <=> Leaving(p))
                         /\ FirstRun(p)' = FirstRun(p)
  PROVE  Agreed'
BY DEF Agreed

LEMMA BeginBatchIInv == ASSUME NEW r \in Rank, IInv, BeginBatch(r) PROVE IInv'
<1>1. /\ r \in Rank /\ pc[r] = "batch" /\ ~Pending(r)
      /\ pc' = [pc EXCEPT ![r] = "run"] /\ counter' = [counter EXCEPT ![r] = 0]
      /\ max_counter' = [max_counter EXCEPT ![r] = BatchLength(r)]
      /\ UNCHANGED <<result_index, start_not_yet_gathered_results, interval, runs, bcast>>
  BY DEF BeginBatch, IInv, Announced, rootState
<1>2. /\ start_not_yet_gathered_results[r] \in Nat
      /\ result_index[r] = start_not_yet_gathered_results[r]
      /\ start_not_yet_gathered_results[r] < max_rep_hard_limit
      /\ max_rep_hard_limit \in Nat /\ max_counter[r] \in Nat \ {0} /\ runs[r] \in Nat
  BY <1>1, Limit DEF IInv, Placed, Typed
<1>3. /\ BatchLength(r) \in Nat \ {0}
      /\ start_not_yet_gathered_results[r] + BatchLength(r) <= max_rep_hard_limit
      /\ imin2(max_rep_hard_limit - start_not_yet_gathered_results[r], BatchLength(r))
           = imin2(max_rep_hard_limit - start_not_yet_gathered_results[r], max_counter[r])
  BY <1>2 DEF BatchLength, imin2
<1>4. Typed'
  BY <1>1, <1>3 DEF IInv, Typed, Points
<1>5. \A p \in Rank : Pending(p)' = Pending(p)
  BY <1>1 DEF Pending
<1>6. Announced'
  BY <1>1, <1>5 DEF IInv, Typed, Announced, max_rep_hard_limit, imax2
<1>7. Placed'
  <2>. SUFFICES ASSUME NEW p \in Rank PROVE
         /\ pc'[p] = "batch" => /\ result_index'[p] = start_not_yet_gathered_results'[p]
                               /\ start_not_yet_gathered_results'[p] < max_rep_hard_limit
         /\ InBatch(p)' => /\ result_index'[p] = start_not_yet_gathered_results'[p] + counter'[p]
                           /\ counter'[p] <= max_counter'[p]
                           /\ start_not_yet_gathered_results'[p] + max_counter'[p] <= max_rep_hard_limit
         /\ InBatch(p)' /\ pc'[p] = "decide" => counter'[p] = max_counter'[p]
    BY DEF Placed, max_rep_hard_limit
  <2>1. CASE p = r
    BY <2>1, <1>1, <1>2, <1>3 DEF IInv, Typed
  <2>2. CASE p # r
    BY <2>2, <1>1, <1>5 DEF IInv, Typed, Placed, InBatch
  <2>. QED BY <2>1, <2>2
<1>8. Agreed'
  <2>. SUFFICES ASSUME NEW p \in Rank PROVE
         /\ StartOf(p)' = StartOf(p) /\ IntervalOf(p)' = IntervalOf(p)
         /\ LengthOf(p)' = LengthOf(p) /\ (Leaving(p)' <=> Leaving(p))
         /\ FirstRun(p)' = FirstRun(p)
    BY SameAgreement DEF IInv
  <2>1. /\ StartOf(p)' = StartOf(p) /\ IntervalOf(p)' = IntervalOf(p)
        /\ (Leaving(p)' <=> Leaving(p))
    BY <1>1, <1>5 DEF IInv, Typed, StartOf, IntervalOf, Leaving, Pending
  <2>2. LengthOf(p)' = LengthOf(p)
    BY <1>1, <1>2, <1>3, <1>5, <2>1 DEF IInv, Typed, LengthOf, StartOf, Pending, max_rep_hard_limit
  <2>3. FirstRun(p)' = FirstRun(p)
    <3>1. CASE p = r
      BY <3>1, <1>1, <1>2, <1>5 DEF IInv, Typed, FirstRun, InBatch
    <3>2. CASE p # r
      BY <3>2, <1>1, <1>5 DEF IInv, Typed, FirstRun, InBatch
    <3>. QED BY <3>1, <3>2
  <2>. QED BY <2>1, <2>2, <2>3
<1>. QED BY <1>4, <1>6, <1>7, <1>8 DEF IInv

\* Only the rank's own counters move, all by one.
LEMMA RunIInv == ASSUME NEW r \in Rank, IInv, Run(r) PROVE IInv'
<1>1. /\ r \in Rank /\ pc[r] = "run" /\ counter[r] < max_counter[r] /\ ~Pending(r)
      /\ counter' = [counter EXCEPT ![r] = @ + 1] /\ runs' = [runs EXCEPT ![r] = @ + 1]
      /\ result_index' = [result_index EXCEPT ![r] = @ + 1]
      /\ UNCHANGED <<pc, start_not_yet_gathered_results, max_counter, interval, bcast>>
  BY DEF Run, IInv, Announced
<1>2. \A p \in Rank : /\ counter[p] \in Nat /\ runs[p] \in Nat /\ max_counter[p] \in Nat
                      /\ result_index[p] \in Nat /\ start_not_yet_gathered_results[p] \in Nat
  BY DEF IInv, Typed
<1>3. \A p \in Rank : Pending(p)' = Pending(p) /\ InBatch(p)' = InBatch(p)
  BY <1>1 DEF Pending, InBatch
<1>4. Typed'
  BY <1>1 DEF IInv, Typed
<1>5. Announced'
  BY <1>1, <1>3 DEF IInv, Announced, max_rep_hard_limit, imax2
<1>6. Placed'
  <2>. SUFFICES ASSUME NEW p \in Rank PROVE
         /\ pc'[p] = "batch" => /\ result_index'[p] = start_not_yet_gathered_results'[p]
                               /\ start_not_yet_gathered_results'[p] < max_rep_hard_limit
         /\ InBatch(p)' => /\ result_index'[p] = start_not_yet_gathered_results'[p] + counter'[p]
                           /\ counter'[p] <= max_counter'[p]
                           /\ start_not_yet_gathered_results'[p] + max_counter'[p] <= max_rep_hard_limit
         /\ InBatch(p)' /\ pc'[p] = "decide" => counter'[p] = max_counter'[p]
    BY DEF Placed, max_rep_hard_limit
  <2>1. CASE p = r
    BY <2>1, <1>1, <1>2, <1>3 DEF IInv, Typed, Placed
  <2>2. CASE p # r
    BY <2>2, <1>1, <1>3 DEF IInv, Typed, Placed
  <2>. QED BY <2>1, <2>2
<1>7. Agreed'
  <2>. SUFFICES ASSUME NEW p \in Rank PROVE
         /\ StartOf(p)' = StartOf(p) /\ IntervalOf(p)' = IntervalOf(p)
         /\ LengthOf(p)' = LengthOf(p) /\ (Leaving(p)' <=> Leaving(p))
         /\ FirstRun(p)' = FirstRun(p)
    BY SameAgreement DEF IInv
  <2>1. /\ StartOf(p)' = StartOf(p) /\ IntervalOf(p)' = IntervalOf(p)
        /\ LengthOf(p)' = LengthOf(p) /\ (Leaving(p)' <=> Leaving(p))
    BY <1>1, <1>3 DEF StartOf, IntervalOf, LengthOf, Leaving, max_rep_hard_limit
  <2>2. FirstRun(p)' = FirstRun(p)
    <3>1. CASE p = r
      BY <3>1, <1>1, <1>2, <1>3 DEF IInv, Typed, FirstRun, InBatch
    <3>2. CASE p # r
      BY <3>2, <1>1, <1>3 DEF IInv, Typed, FirstRun
    <3>. QED BY <3>1, <3>2
  <2>. QED BY <2>1, <2>2
<1>. QED BY <1>4, <1>5, <1>6, <1>7 DEF IInv

\* The batch is complete on this rank.
LEMMA GatherIInv == ASSUME NEW r \in Rank, IInv, Gather(r) PROVE IInv'
<1>1. /\ r \in Rank /\ pc[r] = "run" /\ counter[r] >= max_counter[r] /\ ~Pending(r)
      /\ pc' = [pc EXCEPT ![r] = "decide"]
      /\ UNCHANGED <<counter, runs, result_index, start_not_yet_gathered_results, max_counter,
                     interval, bcast>>
  BY DEF Gather, IInv, Announced
<1>2. counter[r] = max_counter[r]
  BY <1>1 DEF IInv, Typed, Placed, InBatch
<1>3. Typed'
  BY <1>1 DEF IInv, Typed, Points
<1>4. \A p \in Rank : Pending(p)' = Pending(p) /\ InBatch(p)' = InBatch(p)
  BY <1>1 DEF IInv, Typed, Pending, InBatch
<1>5. Announced'
  BY <1>1, <1>4 DEF IInv, Typed, Announced, max_rep_hard_limit, imax2
<1>6. Placed'
  BY <1>1, <1>2, <1>4 DEF IInv, Typed, Placed, max_rep_hard_limit
<1>7. Agreed'
  BY <1>1, <1>4, SameAgreement
     DEF IInv, Typed, StartOf, IntervalOf, LengthOf, Leaving, FirstRun, max_rep_hard_limit
<1>. QED BY <1>3, <1>5, <1>6, <1>7 DEF IInv

-----------------------------------------------------------------------------
\* Some of the runs of a batch are kept.
LEMMA KeptIsNat == ASSUME IInv PROVE Cardinality(KeptRuns) \in Nat
<1>1. max_counter[Root] \in Nat
  BY RanksFinite DEF IInv, Typed
<1>2. IsFiniteSet(1 .. max_counter[Root])
  BY <1>1, FS_Interval
<1>3. KeptRuns \subseteq 1 .. max_counter[Root]
  BY DEF KeptRuns, Batch
<1>. QED BY <1>2, <1>3, FS_Subset, FS_CardinalityType

LEMMA NewMaxCounterPositive == ASSUME IInv PROVE NewMaxCounter \in Nat \ {0}
<1>1. max_counter[Root] \in Nat \ {0}
  BY RanksFinite DEF IInv, Typed
<1>2. max_counter[Root] \div 2 \in Nat
  BY <1>1
<1>. QED BY <1>1, <1>2, Repetitions DEF NewMaxCounter, imax2

\* All ranks are told the same; the batch ends where it ended for the root.
LEMMA DecideIInv == ASSUME IInv, Decide PROVE IInv'
<1>1. /\ \A p \in Rank : pc[p] = "decide" /\ ~Pending(p) /\ InBatch(p)
      /\ UNCHANGED <<pc, counter, runs, result_index, start_not_yet_gathered_results,
                     max_counter, interval>>
  BY DEF Decide, Pending, InBatch, rankState
<1>. DEFINE n == start_not_yet_gathered_results[Root] + Cardinality(KeptRuns)
<1>2. PICK small \in BOOLEAN :
        bcast' = [p \in Rank |-> [kind |-> "decision", result_index |-> n,
                    stop |-> Stop(n, small), max_counter |-> NewMaxCounter,
                    interval |-> NewInterval]]
  BY DEF Decide
<1>3. n \in Nat
  BY KeptIsNat, RanksFinite DEF IInv, Typed
<1>4. Stop(n, small) \in BOOLEAN /\ (Stop(n, small) = FALSE => n < max_rep_hard_limit)
  BY <1>3, Limit, Repetitions DEF Stop
<1>. DEFINE m == [kind |-> "decision", result_index |-> n, stop |-> Stop(n, small),
                  max_counter |-> NewMaxCounter, interval |-> NewInterval]
<1>5. m # NoMessage
  BY DEF NoMessage
<1>6. \A p \in Rank : bcast'[p] = m /\ Pending(p)' /\ ~InBatch(p)'
  BY <1>1, <1>2, <1>5 DEF Pending, InBatch, NoMessage
<1>7. Typed'
  BY <1>1, <1>2 DEF IInv, Typed
<1>8. Announced'
  BY <1>1, <1>3, <1>4, <1>6, NewMaxCounterPositive DEF Announced, max_rep_hard_limit, imax2
<1>9. Placed'
  BY <1>1, <1>6 DEF Placed
<1>10. Agreed'
  <2>1. \A p, q \in Rank : runs[p] = runs[q]
    <3>. SUFFICES ASSUME NEW p \in Rank, NEW q \in Rank PROVE runs[p] = runs[q]
      OBVIOUS
    <3>1. counter[p] = LengthOf(p) /\ counter[q] = LengthOf(q)
      BY <1>1, Limit DEF IInv, Typed, Placed, LengthOf, StartOf, imin2
    <3>2. runs[p] - counter[p] = runs[q] - counter[q] /\ LengthOf(p) = LengthOf(q)
      BY <1>1 DEF IInv, Agreed, FirstRun
    <3>. QED BY <3>1, <3>2 DEF IInv, Typed
  <2>2. \A p \in Rank : FirstRun(p)' = runs[p]
    BY <1>1, <1>6 DEF FirstRun
  <2>. HIDE DEF m
  <2>3. \A p, q \in Rank : /\ StartOf(p)' = StartOf(q)' /\ IntervalOf(p)' = IntervalOf(q)'
                           /\ LengthOf(p)' = LengthOf(q)' /\ (Leaving(p)' <=> Leaving(q)')
    BY <1>6 DEF StartOf, IntervalOf, LengthOf, Leaving
  <2>. QED BY <2>1, <2>2, <2>3 DEF Agreed
<1>. QED BY <1>7, <1>8, <1>9, <1>10 DEF IInv

\* What was announced to the rank becomes its own.
LEMMA ReceiveIInv == ASSUME NEW r \in Rank, IInv, Receive(r) PROVE IInv'
<1>1. /\ r \in Rank /\ pc[r] = "decide" /\ Pending(r)
      /\ result_index' = [result_index EXCEPT ![r] = bcast[r].result_index]
      /\ start_not_yet_gathered_results' =
           [start_not_yet_gathered_results EXCEPT ![r] = bcast[r].result_index]
      /\ max_counter' = [max_counter EXCEPT ![r] = bcast[r].max_counter]
      /\ interval' = [interval EXCEPT ![r] = bcast[r].interval]
      /\ pc' = [pc EXCEPT ![r] = IF Leaves(r) THEN "done" ELSE "batch"]
      /\ bcast' = [bcast EXCEPT ![r] = NoMessage]
      /\ UNCHANGED <<counter, runs>>
  BY DEF Receive, Adopt, Pending
<1>2. /\ bcast[r].result_index \in Nat /\ bcast[r].max_counter \in Nat \ {0}
      /\ bcast[r].stop \in BOOLEAN
      /\ bcast[r].stop = FALSE => bcast[r].result_index < max_rep_hard_limit
  BY <1>1 DEF IInv, Announced
<1>3. Typed'
  BY <1>1, <1>2 DEF IInv, Typed, Points
<1>4. /\ ~Pending(r)'
      /\ \A p \in Rank : p # r => Pending(p)' = Pending(p)
  BY <1>1 DEF IInv, Typed, Pending, NoMessage
<1>5. pc'[r] = (IF bcast[r].stop = TRUE THEN "done" ELSE "batch")
  BY <1>1, <1>2 DEF IInv, Typed, Leaves
<1>6. \A p \in Rank : p # r => /\ pc'[p] = pc[p] /\ bcast'[p] = bcast[p]
                               /\ result_index'[p] = result_index[p]
                               /\ start_not_yet_gathered_results'[p] = start_not_yet_gathered_results[p]
                               /\ max_counter'[p] = max_counter[p] /\ interval'[p] = interval[p]
  BY <1>1 DEF IInv, Typed
<1>7. /\ result_index'[r] = bcast[r].result_index
      /\ start_not_yet_gathered_results'[r] = bcast[r].result_index
      /\ max_counter'[r] = bcast[r].max_counter /\ interval'[r] = bcast[r].interval
  BY <1>1 DEF IInv, Typed
<1>8. Announced'
  BY <1>4, <1>6 DEF IInv, Announced, max_rep_hard_limit, imax2
<1>9. Placed'
  BY <1>1, <1>2, <1>4, <1>5, <1>6, <1>7 DEF IInv, Placed, InBatch, max_rep_hard_limit
<1>10. Agreed'
  <2>. SUFFICES ASSUME NEW p \in Rank PROVE
         /\ StartOf(p)' = StartOf(p) /\ IntervalOf(p)' = IntervalOf(p)
         /\ LengthOf(p)' = LengthOf(p) /\ (Leaving(p)' <=> Leaving(p))
         /\ FirstRun(p)' = FirstRun(p)
    BY SameAgreement DEF IInv
  <2>1. CASE p = r
    BY <2>1, <1>1, <1>4, <1>5, <1>7
       DEF StartOf, IntervalOf, LengthOf, Leaving, FirstRun, InBatch, max_rep_hard_limit
  <2>2. CASE p # r
    BY <2>2, <1>1, <1>4, <1>6
       DEF StartOf, IntervalOf, LengthOf, Leaving, FirstRun, InBatch, max_rep_hard_limit
  <2>. QED BY <2>1, <2>2
<1>. QED BY <1>3, <1>8, <1>9, <1>10 DEF IInv

\* A step that changes none of the variables.
LEMMA StutterIInv == IInv /\ UNCHANGED vars => IInv'
<1>. SUFFICES ASSUME IInv, UNCHANGED vars PROVE IInv'
  OBVIOUS
<1>1. UNCHANGED <<pc, counter, runs, result_index, start_not_yet_gathered_results,
                  max_counter, interval, bcast>>
  BY DEF vars, rankState
<1>2. Typed' /\ Announced' /\ Placed'
  BY <1>1 DEF IInv, Typed, Announced, Placed, Pending, InBatch, max_rep_hard_limit, imax2
<1>3. Agreed'
  BY <1>1, SameAgreement DEF IInv, StartOf, IntervalOf, LengthOf, Leaving, FirstRun, InBatch,
                             Pending, max_rep_hard_limit
<1>. QED BY <1>2, <1>3 DEF IInv

LEMMA StepIInv == IInv /\ [Next]_vars => IInv'
<1>. SUFFICES ASSUME IInv, [Next]_vars PROVE IInv'
  OBVIOUS
<1>1. ASSUME NEW p \in Rank, RankStep(p) PROVE IInv'
  BY <1>1, BeginBatchIInv, RunIInv, GatherIInv, ReceiveIInv DEF RankStep
<1>2. CASE Decide
  BY <1>2, DecideIInv
<1>3. CASE Terminated \/ UNCHANGED vars
  BY <1>3, StutterIInv DEF Terminated
<1>. QED BY <1>1, <1>2, <1>3 DEF Next

\* The inductive invariant holds in every behaviour: whichever rank has come how
\* far, all ranks of measurement_loop agree on where the batch begins, how long
\* it is, at which interval its runs start, and whether there is one at all.
THEOREM Agreement == Spec => []IInv
BY InitIInv, StepIInv, PTL DEF Spec

-----------------------------------------------------------------------------
LEMMA InStepHolds == IInv => InStep
<1>. SUFFICES ASSUME IInv, NEW p \in Rank, NEW q \in Rank
              PROVE  /\ pc[p] = "run" /\ pc[q] = "run" =>
                          /\ max_counter[p] = max_counter[q] /\ interval[p] = interval[q]
                          /\ start_not_yet_gathered_results[p] = start_not_yet_gathered_results[q]
                          /\ runs[p] - counter[p] = runs[q] - counter[q]
                     /\ pc[p] = "done" => pc[q] = "done" \/ (bcast[q] # NoMessage /\ bcast[q].stop)
  BY DEF InStep, SameBatch, LeaveTogether
<1>1. CASE pc[p] = "run" /\ pc[q] = "run"
  <2>1. ~Pending(p) /\ ~Pending(q) /\ InBatch(p) /\ InBatch(q)
    BY <1>1 DEF IInv, Announced, InBatch
  <2>2. max_counter[p] = LengthOf(p) /\ max_counter[q] = LengthOf(q)
    BY <2>1, Limit DEF IInv, Typed, Placed, LengthOf, StartOf, imin2
  <2>. QED BY <1>1, <2>1, <2>2 DEF IInv, Agreed, StartOf, IntervalOf, FirstRun
<1>2. CASE pc[p] = "done"
  <2>1. Leaving(p) /\ Leaving(q)
    BY <1>2 DEF IInv, Announced, Agreed, Leaving
  <2>. QED BY <1>2, <2>1 DEF Leaving, Pending
<1>. QED BY <1>1, <1>2

\* Ranks that run make the same batch, and no rank leaves measurement_loop
\* while another goes on: none waits in a gather or barrier for ever.
THEOREM RanksInStep == Spec => []InStep
BY Agreement, InStepHolds, PTL

\* No batch runs past the arrays measurement_loop has allocated, and none is
\* empty, after any number of batches and dropped runs.
THEOREM ArraysHoldTheRuns == Spec => []RunsFitTheArrays
<1>1. IInv => RunsFitTheArrays
  <2>. SUFFICES ASSUME IInv, NEW p \in Rank, pc[p] = "run"
                PROVE  /\ result_index[p] + (max_counter[p] - counter[p]) <= max_rep_hard_limit
                       /\ max_counter[p] > 0
    BY DEF RunsFitTheArrays
  <2>. QED BY Limit DEF IInv, Typed, Placed, InBatch
<1>. QED BY <1>1, Agreement, PTL

-----------------------------------------------------------------------------
(* The results.                                                            *)
(*                                                                         *)
(* What a rank has recorded in its batch (Recorded) is numbered like its   *)
(* runs, which all ranks number alike; so the columns that are gathered,   *)
(* and the ones left after the compaction, are of one run each (Tabled).   *)

Clocked ==
  /\ t \in [Rank -> Int] /\ interval \in [Rank -> Int]
  /\ \A p \in Rank : Pending(p) => bcast[p].interval \in Int

\* The batch of rank p up to run k: numbers, and with SYNC_REAL starts, of its runs.
RecordedRun(p, k) ==
  /\ local_results[p][k].run = runs[p] - counter[p] + k - 1
  /\ ~Real => invalid[p][k] = "no"
  /\ Real /\ invalid[p][k] = "no" =>
       RootClock(p, local_results[p][k].start) = should_wait_till(p, k - 1)
Recorded ==
  /\ invalid \in [Rank -> Seq(Verdicts)] /\ local_results \in [Rank -> Seq(Results)]
  /\ \A p \in Rank : InBatch(p) =>
       /\ Len(invalid[p]) = counter[p] /\ Len(local_results[p]) = counter[p]
       /\ \A k \in 1 .. counter[p] : RecordedRun(p, k)

Tabled ==
  /\ all_results \in [Rank -> Seq(Results)] /\ good \in Seq(Nat)
  /\ sum_of_results = all_results[Root]
  /\ \A p \in Rank : /\ Len(all_results[p]) = Len(good) /\ StartOf(p) = Len(good)
                     /\ \A i \in 1 .. Len(good) : all_results[p][i].run = good[i]
  /\ Real => \A p, q \in Rank : \A i \in 1 .. Len(good) :
       RootClock(p, all_results[p][i].start) = RootClock(q, all_results[q][i].start)

MInv == IInv /\ Clocked /\ Recorded /\ Tabled

Rest == Clocked /\ Recorded /\ Tabled

LEMMA InitRest == Init => Rest
<1>. SUFFICES ASSUME Init PROVE Rest
  OBVIOUS
<1>1. Clocked
  <2>1. t \in [Rank -> Int]
    BY TimesNatural DEF Init, Ticks
  <2>. QED BY <2>1 DEF Init, Clocked, Pending
<1>2. Recorded
  BY DEF Init, Recorded, InBatch
<1>3. Tabled
  BY RanksFinite DEF Init, Tabled, StartOf, Pending
<1>. QED BY <1>1, <1>2, <1>3 DEF Rest

\* The rank's batch is empty.
LEMMA BeginBatchRest == ASSUME NEW r \in Rank, IInv, Rest, BeginBatch(r) PROVE Rest'
<1>1. /\ pc[r] = "batch" /\ ~Pending(r)
      /\ pc' = [pc EXCEPT ![r] = "run"] /\ counter' = [counter EXCEPT ![r] = 0]
      /\ invalid' = [invalid EXCEPT ![r] = << >>]
      /\ local_results' = [local_results EXCEPT ![r] = << >>]
      /\ UNCHANGED <<current_synchronization, t, start_not_yet_gathered_results, interval, runs,
                     bcast, all_results, sum_of_results, good>>
  BY DEF BeginBatch, IInv, Announced, rootState
<1>2. Clocked'
  BY <1>1 DEF Rest, Clocked, Pending
<1>3. Recorded'
  <2>. SUFFICES ASSUME NEW p \in Rank, InBatch(p)'
                PROVE  /\ Len(invalid'[p]) = counter'[p] /\ Len(local_results'[p]) = counter'[p]
                       /\ \A k \in 1 .. counter'[p] : RecordedRun(p, k)'
    BY <1>1 DEF Rest, Recorded
  <2>1. CASE p = r
    BY <2>1, <1>1 DEF IInv, Typed, Rest, Recorded
  <2>2. CASE p # r
    BY <2>2, <1>1 DEF IInv, Typed, Rest, Recorded, InBatch, Pending, RecordedRun, Real,
                      RootClock, should_wait_till
  <2>. QED BY <2>1, <2>2
<1>4. Tabled'
  BY <1>1 DEF Rest, Tabled, StartOf, Pending, Real, RootClock
<1>. QED BY <1>2, <1>3, <1>4 DEF Rest

\* A run is recorded with its number; with SYNC_REAL one that is not flawed was
\* started when it should.
LEMMA RunRest == ASSUME NEW r \in Rank, IInv, Rest, Run(r) PROVE Rest'
<1>. DEFINE target == should_wait_till(r, counter[r])
            late == RootClock(r, t[r]) > target
            start == IF Real /\ ~late THEN wait_till(r, target) ELSE t[r]
            verdict(spent) ==
              CASE ~Real                          -> "no"
                [] Real /\ spent > interval[r]    -> "INVALID_TOOK_TOO_LONG"
                [] Real /\ spent <= interval[r] /\ late -> "INVALID_STARTED_LATE"
                [] OTHER                          -> "no"
<1>1. /\ pc[r] = "run" /\ counter[r] < max_counter[r] /\ ~Pending(r) /\ InBatch(r)
      /\ counter' = [counter EXCEPT ![r] = @ + 1] /\ runs' = [runs EXCEPT ![r] = @ + 1]
      /\ UNCHANGED <<current_synchronization, pc, start_not_yet_gathered_results, interval, bcast,
                     all_results, sum_of_results, good>>
  BY DEF Run, IInv, Announced, InBatch, rootState
<1>2. PICK spent \in Ticks(MaxSpent) :
        /\ t' = [t EXCEPT ![r] = start + spent]
        /\ local_results' = [local_results EXCEPT ![r] = Append(@, [run |-> runs[r], start |-> start])]
        /\ invalid' = [invalid EXCEPT ![r] = Append(@, verdict(spent))]
  BY DEF Run
<1>3. /\ counter[r] \in Nat /\ runs[r] \in Nat /\ interval[r] \in Int /\ t[r] \in Int
      /\ Error[r] \in Int /\ spent \in Int
  BY TimesNatural DEF IInv, Typed, Rest, Clocked, Ticks
<1>4. target \in Int /\ start \in Int
  BY <1>3 DEF should_wait_till, wait_till
<1>5. Clocked'
  <2>1. start + spent \in Int
    BY <1>3, <1>4
  <2>. HIDE DEF start
  <2>. QED BY <1>1, <1>2, <2>1 DEF Rest, Clocked, Pending
<1>6. verdict(spent) \in Verdicts /\ (~Real => verdict(spent) = "no")
  BY DEF Verdicts
<1>7. Real /\ verdict(spent) = "no" => RootClock(r, start) = target
  <2>. SUFFICES ASSUME Real, verdict(spent) = "no" PROVE RootClock(r, start) = target
    OBVIOUS
  <2>1. ~late
    BY <1>3
  <2>. HIDE DEF target, late
  <2>2. start = wait_till(r, target)
    BY <2>1
  <2>. QED BY <2>2, <1>3, <1>4 DEF RootClock, wait_till
<1>. DEFINE new == [run |-> runs[r], start |-> start]
<1>8. new \in Results
  BY <1>3, <1>4 DEF Results
<1>. HIDE DEF target, late, start, verdict
<1>9. Recorded'
  <2>1. /\ invalid[r] \in Seq(Verdicts) /\ local_results[r] \in Seq(Results)
        /\ Len(invalid[r]) = counter[r] /\ Len(local_results[r]) = counter[r]
        /\ \A k \in 1 .. counter[r] : RecordedRun(r, k)
    BY <1>1 DEF Rest, Recorded
  <2>2. /\ invalid'[r] = Append(invalid[r], verdict(spent))
        /\ local_results'[r] = Append(local_results[r], new)
        /\ counter'[r] = counter[r] + 1 /\ runs'[r] = runs[r] + 1
    BY <1>1, <1>2 DEF Rest, Recorded, IInv, Typed
  <2>. HIDE DEF new
  <2>3. /\ invalid'[r] \in Seq(Verdicts) /\ local_results'[r] \in Seq(Results)
        /\ Len(invalid'[r]) = counter'[r] /\ Len(local_results'[r]) = counter'[r]
        /\ \A k \in 1 .. counter[r] : invalid'[r][k] = invalid[r][k]
                                      /\ local_results'[r][k] = local_results[r][k]
        /\ invalid'[r][counter'[r]] = verdict(spent) /\ local_results'[r][counter'[r]] = new
    <3>1. Len(invalid[r]) \in Nat /\ Len(local_results[r]) \in Nat /\ verdict(spent) \in Verdicts
      BY <2>1, <1>6, LenProperties
    <3>2. /\ invalid'[r] \in Seq(Verdicts) /\ Len(invalid'[r]) = Len(invalid[r]) + 1
          /\ \A k \in 1 .. Len(invalid[r]) : invalid'[r][k] = invalid[r][k]
          /\ invalid'[r][Len(invalid[r]) + 1] = verdict(spent)
      BY <2>1, <2>2, <3>1, AppendProperties
    <3>3. /\ local_results'[r] \in Seq(Results) /\ Len(local_results'[r]) = Len(local_results[r]) + 1
          /\ \A k \in 1 .. Len(local_results[r]) : local_results'[r][k] = local_results[r][k]
          /\ local_results'[r][Len(local_results[r]) + 1] = new
      BY <2>1, <2>2, <1>8, AppendProperties
    <3>. QED BY <2>1, <2>2, <3>2, <3>3
  <2>4. ASSUME NEW k \in 1 .. counter'[r] PROVE RecordedRun(r, k)'
    <3>0. k \in Nat /\ 1 <= k /\ k <= counter'[r] /\ counter'[r] = counter[r] + 1
          /\ runs'[r] = runs[r] + 1
      BY <2>2, <1>3
    <3>1. CASE k = counter'[r]
      <4>1. new.run = runs[r] /\ new.start = start
        BY DEF new
      <4>2. k - 1 = counter[r] /\ runs'[r] - counter'[r] + k - 1 = runs[r]
        BY <3>1, <3>0, <1>3
      <4>3. should_wait_till(r, k - 1)' = target
        BY <4>2, <1>1 DEF should_wait_till, target
      <4>. QED BY <3>1, <4>1, <4>2, <4>3, <2>3, <1>1, <1>6, <1>7 DEF RecordedRun, Real, RootClock
    <3>2. CASE k # counter'[r]
      <4>1. k \in 1 .. counter[r] /\ runs'[r] - counter'[r] = runs[r] - counter[r]
        BY <3>2, <3>0, <1>3
      <4>. QED BY <4>1, <2>1, <2>3, <1>1 DEF RecordedRun, Real, RootClock, should_wait_till
    <3>. QED BY <3>1, <3>2
  <2>5. ASSUME NEW p \in Rank, p # r
        PROVE  invalid'[p] = invalid[p] /\ local_results'[p] = local_results[p]
               /\ counter'[p] = counter[p] /\ runs'[p] = runs[p]
    BY <2>5, <1>1, <1>2 DEF Rest, Recorded, IInv, Typed
  <2>6. invalid' \in [Rank -> Seq(Verdicts)] /\ local_results' \in [Rank -> Seq(Results)]
    BY <1>2, <2>2, <2>3 DEF Rest, Recorded
  <2>7. ASSUME NEW p \in Rank, p # r, InBatch(p)'
        PROVE  /\ Len(invalid'[p]) = counter'[p] /\ Len(local_results'[p]) = counter'[p]
               /\ \A k \in 1 .. counter'[p] : RecordedRun(p, k)'
    <3>1. InBatch(p) /\ interval'[p] = interval[p]
      BY <2>7, <1>1 DEF InBatch, Pending
    <3>2. ASSUME NEW k \in 1 .. counter[p] PROVE RecordedRun(p, k)'
      <4>1. RecordedRun(p, k)
        BY <3>1 DEF Rest, Recorded
      <4>. QED BY <4>1, <2>5, <2>7, <3>1, <1>1 DEF RecordedRun, Real, RootClock, should_wait_till
    <3>. QED BY <3>1, <3>2, <2>5, <2>7 DEF Rest, Recorded
  <2>. QED BY <2>3, <2>4, <2>6, <2>7 DEF Recorded
<1>10. Tabled'
  BY <1>1 DEF Rest, Tabled, StartOf, Pending, Real, RootClock
<1>. QED BY <1>5, <1>9, <1>10 DEF Rest

LEMMA GatherRest == ASSUME NEW r \in Rank, IInv, Rest, Gather(r) PROVE Rest'
<1>1. /\ pc[r] = "run" /\ ~Pending(r)
      /\ pc' = [pc EXCEPT ![r] = "decide"]
      /\ UNCHANGED <<current_synchronization, counter, t, start_not_yet_gathered_results, interval,
                     invalid, local_results, runs, bcast, all_results, sum_of_results, good>>
  BY DEF Gather, IInv, Announced, rootState
<1>2. \A p \in Rank : InBatch(p)' = InBatch(p)
  BY <1>1 DEF IInv, Typed, Pending, InBatch
<1>3. Recorded'
  BY <1>1, <1>2 DEF Rest, Recorded, RecordedRun, Real, RootClock, should_wait_till
<1>4. Clocked' /\ Tabled'
  BY <1>1 DEF Rest, Clocked, Tabled, StartOf, Pending, Real, RootClock
<1>. QED BY <1>3, <1>4 DEF Rest

\* The rank's batch is over.
LEMMA ReceiveRest == ASSUME NEW r \in Rank, IInv, Rest, Receive(r) PROVE Rest'
<1>1. /\ pc[r] = "decide" /\ Pending(r)
      /\ start_not_yet_gathered_results' =
           [start_not_yet_gathered_results EXCEPT ![r] = bcast[r].result_index]
      /\ interval' = [interval EXCEPT ![r] = bcast[r].interval]
      /\ pc' = [pc EXCEPT ![r] = IF Leaves(r) THEN "done" ELSE "batch"]
      /\ bcast' = [bcast EXCEPT ![r] = NoMessage]
      /\ UNCHANGED <<current_synchronization, counter, invalid, local_results, runs, all_results,
                     sum_of_results, good>>
  BY DEF Receive, Adopt, Pending, rootState
<1>2. PICK lag \in Ticks(MaxLag) : t' = [t EXCEPT ![r] = IF r = Root THEN 0 ELSE lag]
  BY DEF Receive
<1>3. lag \in Int /\ bcast[r].interval \in Int
  BY <1>1, TimesNatural DEF Ticks, Rest, Clocked
<1>4. /\ ~Pending(r)' /\ pc'[r] \in {"batch", "done"}
      /\ start_not_yet_gathered_results'[r] = bcast[r].result_index
      /\ \A p \in Rank : p # r => /\ bcast'[p] = bcast[p] /\ interval'[p] = interval[p]
                                  /\ pc'[p] = pc[p]
                                  /\ start_not_yet_gathered_results'[p] =
                                       start_not_yet_gathered_results[p]
  BY <1>1 DEF IInv, Typed, Pending, NoMessage
<1>5. Clocked'
  BY <1>1, <1>2, <1>3, <1>4 DEF Rest, Clocked, Pending
<1>6. Recorded'
  <2>. SUFFICES ASSUME NEW p \in Rank, InBatch(p)'
                PROVE  /\ Len(invalid'[p]) = counter'[p] /\ Len(local_results'[p]) = counter'[p]
                       /\ \A k \in 1 .. counter'[p] : RecordedRun(p, k)'
    BY <1>1 DEF Rest, Recorded
  <2>1. p # r
    BY <1>4 DEF InBatch
  <2>2. InBatch(p) /\ interval'[p] = interval[p]
    BY <2>1, <1>4 DEF InBatch, Pending
  <2>3. ASSUME NEW k \in 1 .. counter[p] PROVE RecordedRun(p, k)'
    <3>1. RecordedRun(p, k)
      BY <2>2 DEF Rest, Recorded
    <3>. QED BY <3>1, <2>2, <1>1 DEF RecordedRun, Real, RootClock, should_wait_till
  <2>. QED BY <2>2, <2>3, <1>1 DEF Rest, Recorded
<1>7. Tabled'
  BY <1>1, <1>4 DEF Rest, Tabled, StartOf, Pending, Real, RootClock
<1>. QED BY <1>5, <1>6, <1>7 DEF Rest

\* The interval stays a number of ticks.
LEMMA NewIntervalInt == ASSUME IInv, Clocked PROVE NewInterval \in Int
<1>1. interval[Root] \in Int /\ max_counter[Root] \in Nat \ {0}
  BY RanksFinite DEF IInv, Typed, Clocked
<1>2. Max({RootClock(p, t[p]) : p \in Rank}) \in Int
  <2>. DEFINE S == {RootClock(p, t[p]) : p \in Rank}
  <2>1. \A p \in Rank : RootClock(p, t[p]) \in Int
    BY TimesNatural DEF Clocked, RootClock
  <2>2. S \in SUBSET Int /\ S # {}
    BY <2>1, RanksFinite
  <2>3. IsFiniteSet(S)
    <3>1. [p \in Rank |-> RootClock(p, t[p])] \in Surjection(Rank, S)
      BY DEF Surjection
    <3>. QED BY <3>1, RanksFinite, FS_Surjection
  <2>4. Max(S) \in Int
    <3>. HIDE DEF S
    <3>. QED BY <2>2, <2>3, GreatestElement DEF Max
  <2>. QED BY <2>4
<1>3. StretchedMean \in Int
  <2>. DEFINE n == 2 * (max_counter[Root] + 1)
              span == Max({RootClock(p, t[p]) : p \in Rank})
  <2>1. n \in Nat \ {0} /\ 3 * span + n - 1 \in Int
    BY <1>1, <1>2
  <2>2. (3 * span + n - 1) \div n \in Int
    <3>. HIDE DEF n, span
    <3>. QED BY <2>1
  <2>. QED BY <2>2 DEF StretchedMean
<1>. QED BY <1>1, <1>3 DEF NewInterval, imax2

\* The columns that are added to the table are of the same runs for all ranks, the
\* ones that no rank found flawed.
LEMMA DecideRest == ASSUME IInv, Rest, Decide PROVE Rest'
<1>. DEFINE m == max_counter[Root]
            c == Cardinality(KeptRuns)
            new == [p \in Rank |-> [k \in 1 .. c |-> local_results[p][Kept[k]]]]
<1>1. /\ \A p \in Rank : pc[p] = "decide" /\ ~Pending(p) /\ InBatch(p)
      /\ UNCHANGED rankState
      /\ all_results' = [p \in Rank |-> Gathered(p)]
      /\ sum_of_results' = sum_of_results \o NewResults
      /\ good' = good \o GoodRuns
  BY DEF Decide, Pending, InBatch
<1>2. PICK small \in BOOLEAN :
        bcast' = [p \in Rank |-> [kind |-> "decision",
                    result_index |-> start_not_yet_gathered_results[Root] + c,
                    stop |-> Stop(start_not_yet_gathered_results[Root] + c, small),
                    max_counter |-> NewMaxCounter, interval |-> NewInterval]]
  BY DEF Decide
<1>3. c \in Nat /\ m \in Nat /\ Root \in Rank
  BY KeptIsNat, RanksFinite DEF IInv, Typed
<1>4. ASSUME NEW p \in Rank
      PROVE  /\ counter[p] = m /\ runs[p] = runs[Root] /\ interval[p] = interval[Root]
             /\ Len(invalid[p]) = m /\ Len(local_results[p]) = m
             /\ local_results[p] \in Seq(Results)
             /\ \A k \in 1 .. m : RecordedRun(p, k)
  <2>1. counter[p] = LengthOf(p) /\ counter[Root] = LengthOf(Root) /\ counter[Root] = m
    BY <1>1, <1>3, Limit DEF IInv, Typed, Placed, LengthOf, StartOf, imin2
  <2>2. /\ LengthOf(p) = LengthOf(Root) /\ interval[p] = interval[Root]
        /\ runs[p] - counter[p] = runs[Root] - counter[Root]
    BY <1>1, <1>3 DEF IInv, Agreed, FirstRun, IntervalOf
  <2>3. counter[p] = m /\ runs[p] = runs[Root]
    <3>1. counter[p] \in Nat /\ counter[Root] \in Nat /\ runs[p] \in Nat /\ runs[Root] \in Nat
      BY <1>3 DEF IInv, Typed
    <3>2. counter[p] = counter[Root]
      BY <2>1, <2>2
    <3>. QED BY <2>1, <2>2, <3>1, <3>2
  <2>. QED BY <2>2, <2>3, <1>1 DEF Rest, Recorded
<1>5. KeptRuns = Unflawed /\ KeptRuns \in SUBSET (1 .. m)
  <2>1. ASSUME NEW k \in 1 .. m
        PROVE  ~(Real /\ Flawed(k)) <=> \A p \in Rank : invalid[p][k] = "no"
    BY <1>4 DEF RecordedRun, Flawed, global_invalid
  <2>. QED BY <2>1 DEF KeptRuns, Unflawed, Batch
<1>6. ASSUME NEW k \in 1 .. c
      PROVE  Kept[k] \in 1 .. m /\ \A p \in Rank : invalid[p][Kept[k]] = "no"
  <2>1. KeptRuns \in SUBSET Nat /\ IsFiniteSet(KeptRuns)
    <3>. HIDE DEF m
    <3>1. \A x \in 1 .. m : x \in Nat
      BY <1>3
    <3>2. IsFiniteSet(1 .. m)
      BY <1>3, FS_Interval, 1 \in Int, m \in Int
    <3>. QED BY <1>5, <3>1, <3>2, FS_Subset
  <2>2. Kept[k] \in KeptRuns
    BY <1>5, <2>1, InOrderSelects DEF Kept
  <2>. QED BY <2>2, <1>5 DEF Unflawed
<1>7. ASSUME NEW p \in Rank
      PROVE  /\ new[p] \in Seq(Results) /\ Len(new[p]) = c
             /\ \A k \in 1 .. c : new[p][k] = local_results[p][Kept[k]]
  <2>1. \A k \in 1 .. c : local_results[p][Kept[k]] \in Results
    BY <1>4, <1>6
  <2>. HIDE DEF c
  <2>. QED BY <2>1, <1>3
<1>8. ASSUME NEW p \in Rank
      PROVE  Gathered(p) = all_results[p] \o new[p]
  <2>1. /\ all_results[p] \in Seq(Results)
        /\ start_not_yet_gathered_results[Root] = Len(all_results[p])
    BY <1>1, <1>3 DEF Rest, Tabled, StartOf
  <2>2. SubSeq(all_results[p], 1, Len(all_results[p])) = all_results[p]
    BY <2>1, SubSeqFull
  <2>. QED BY <2>1, <2>2 DEF Gathered
<1>9. /\ GoodRuns \in Seq(Nat) /\ Len(GoodRuns) = c
      /\ \A k \in 1 .. c : \A p \in Rank : GoodRuns[k] = new[p][k].run
  <2>1. GoodRuns = [k \in 1 .. c |-> runs[Root] - m + Kept[k] - 1]
    BY <1>5 DEF GoodRuns, Kept
  <2>2. ASSUME NEW k \in 1 .. c, NEW p \in Rank
        PROVE  local_results[p][Kept[k]].run = runs[Root] - m + Kept[k] - 1
               /\ local_results[p][Kept[k]].run \in Nat
    <3>1. Kept[k] \in 1 .. m
      BY <1>6
    <3>2. local_results[p][Kept[k]] \in Results
      BY <1>4, <3>1
    <3>. QED BY <1>4, <3>1, <3>2 DEF RecordedRun, Results
  <2>. HIDE DEF c, m
  <2>3. \A k \in 1 .. c : runs[Root] - m + Kept[k] - 1 \in Nat
    BY <1>3, <2>2
  <2>4. GoodRuns \in Seq(Nat) /\ Len(GoodRuns) = c
    BY <1>3, <2>1, <2>3
  <2>. QED BY <1>7, <2>1, <2>2, <2>4
<1>10. ASSUME NEW p \in Rank
       PROVE  /\ all_results'[p] = all_results[p] \o new[p]
              /\ all_results'[p] \in Seq(Results)
              /\ Len(all_results'[p]) = Len(good) + c /\ Len(good) \in Nat
              /\ \A i \in 1 .. Len(good) : all_results'[p][i] = all_results[p][i]
              /\ \A k \in 1 .. c : all_results'[p][Len(good) + k] = new[p][k]
  <2>1. all_results[p] \in Seq(Results) /\ Len(all_results[p]) = Len(good) /\ good \in Seq(Nat)
    BY DEF Rest, Tabled
  <2>2. all_results'[p] = all_results[p] \o new[p]
    BY <1>1, <1>8
  <2>3. new[p] \in Seq(Results) /\ Len(new[p]) = c
    BY <1>7
  <2>. HIDE DEF c, new
  <2>. DEFINE a == all_results[p]
              b == new[p]
  <2>4. a \in Seq(Results) /\ b \in Seq(Results)
    BY <2>1, <2>3
  <2>. HIDE DEF a, b
  <2>5. /\ a \o b \in Seq(Results) /\ Len(a) \in Nat /\ Len(a \o b) = Len(a) + Len(b)
        /\ \A i \in 1 .. Len(a) : (a \o b)[i] = a[i]
        /\ \A k \in 1 .. Len(b) : (a \o b)[Len(a) + k] = b[k]
    BY <2>4, Extended
  <2>. QED BY <2>1, <2>2, <2>3, <2>5 DEF a, b
<1>11. /\ good' \in Seq(Nat) /\ Len(good') = Len(good) + c
       /\ \A i \in 1 .. Len(good) : good'[i] = good[i]
       /\ \A k \in 1 .. c : good'[Len(good) + k] = GoodRuns[k]
  <2>1. good \in Seq(Nat)
    BY DEF Rest, Tabled
  <2>2. GoodRuns \in Seq(Nat) /\ Len(GoodRuns) = c
    BY <1>9
  <2>. HIDE DEF c
  <2>3. /\ good \o GoodRuns \in Seq(Nat) /\ Len(good \o GoodRuns) = Len(good) + Len(GoodRuns)
        /\ \A i \in 1 .. Len(good) : (good \o GoodRuns)[i] = good[i]
        /\ \A k \in 1 .. Len(GoodRuns) : (good \o GoodRuns)[Len(good) + k] = GoodRuns[k]
    <3>1. PICK a, b : a = good /\ b = GoodRuns
      OBVIOUS
    <3>2. a \in Seq(Nat) /\ b \in Seq(Nat)
      BY <2>1, <2>2, <3>1
    <3>3. /\ a \o b \in Seq(Nat) /\ Len(a \o b) = Len(a) + Len(b)
          /\ \A i \in 1 .. Len(a) : (a \o b)[i] = a[i]
          /\ \A k \in 1 .. Len(b) : (a \o b)[Len(a) + k] = b[k]
      BY <3>2, Extended
    <3>. QED BY <3>1, <3>3
  <2>. QED BY <1>1, <2>2, <2>3
<1>12. ASSUME NEW i \in 1 .. Len(good')
       PROVE  i \in 1 .. Len(good) \/ \E k \in 1 .. c : i = Len(good) + k
  <2>1. i \in 1 .. Len(good) \/ (i - Len(good) \in 1 .. c /\ i = Len(good) + (i - Len(good)))
    BY <1>3, <1>10, <1>11
  <2>. QED BY <2>1
<1>13. \A p \in Rank : \A i \in 1 .. Len(good') : all_results'[p][i].run = good'[i]
  <2>. SUFFICES ASSUME NEW p \in Rank, NEW i \in 1 .. Len(good')
                PROVE all_results'[p][i].run = good'[i]
    OBVIOUS
  <2>1. CASE i \in 1 .. Len(good)
    BY <2>1, <1>10, <1>11 DEF Rest, Tabled
  <2>2. ASSUME NEW k \in 1 .. c, i = Len(good) + k PROVE all_results'[p][i].run = good'[i]
    <3>. HIDE DEF new
    <3>1. all_results'[p][i] = new[p][k] /\ good'[i] = GoodRuns[k]
      BY <2>2, <1>10, <1>11
    <3>2. GoodRuns[k] = new[p][k].run
      BY <1>9
    <3>. QED BY <3>1, <3>2
  <2>. QED BY <2>1, <2>2, <1>12
<1>14. sum_of_results' = all_results'[Root]
  <2>1. NewResults = SubSeq(all_results[Root] \o new[Root], Len(good) + 1, Len(good) + c)
    BY <1>1, <1>3, <1>8 DEF NewResults, Rest, Tabled, StartOf
  <2>2. /\ all_results[Root] \in Seq(Results) /\ Len(all_results[Root]) = Len(good)
        /\ new[Root] \in Seq(Results) /\ Len(new[Root]) = c
    BY <1>3, <1>7 DEF Rest, Tabled
  <2>3. NewResults = new[Root]
    <3>. DEFINE a == all_results[Root]
                b == new[Root]
    <3>1. a \in Seq(Results) /\ b \in Seq(Results)
      BY <2>2
    <3>2. NewResults = SubSeq(a \o b, Len(a) + 1, Len(a) + Len(b))
      BY <2>1, <2>2
    <3>. HIDE DEF a, b
    <3>3. NewResults = b
      BY <3>1, <3>2, Extended
    <3>. QED BY <3>3 DEF b
  <2>. QED BY <1>1, <1>3, <1>10, <2>3 DEF Rest, Tabled
<1>15. Real' => \A p, q \in Rank : \A i \in 1 .. Len(good') :
         RootClock(p, all_results'[p][i].start) = RootClock(q, all_results'[q][i].start)
  <2>. SUFFICES ASSUME Real, NEW p \in Rank, NEW q \in Rank, NEW i \in 1 .. Len(good')
                PROVE RootClock(p, all_results'[p][i].start) = RootClock(q, all_results'[q][i].start)
    BY <1>1 DEF rankState, Real, RootClock
  <2>1. CASE i \in 1 .. Len(good)
    <3>1. all_results'[p][i] = all_results[p][i] /\ all_results'[q][i] = all_results[q][i]
      BY <2>1, <1>10
    <3>2. RootClock(p, all_results[p][i].start) = RootClock(q, all_results[q][i].start)
      BY <2>1 DEF Rest, Tabled
    <3>. QED BY <3>1, <3>2
  <2>2. ASSUME NEW k \in 1 .. c, i = Len(good) + k
        PROVE RootClock(p, all_results'[p][i].start) = RootClock(q, all_results'[q][i].start)
    <3>1. ASSUME NEW u \in Rank
          PROVE  RootClock(u, new[u][k].start) = should_wait_till(Root, Kept[k] - 1)
      BY <3>1, <1>4, <1>6, <1>7, <1>3, SMTT(40) DEF RecordedRun, should_wait_till
    <3>. QED BY <3>1, <2>2, <1>10, SMTT(40)
  <2>. QED BY <2>1, <2>2, <1>12
<1>16. \A p \in Rank : StartOf(p)' = Len(good')
  <2>1. start_not_yet_gathered_results[Root] = Len(good)
    BY <1>1, <1>3 DEF Rest, Tabled, StartOf
  <2>. QED BY <1>2, <1>11, <2>1 DEF StartOf, Pending, NoMessage
<1>17. Tabled'
  BY <1>1, <1>10, <1>11, <1>13, <1>14, <1>15, <1>16 DEF Tabled
<1>18. Clocked'
  BY <1>1, <1>2, NewIntervalInt DEF rankState, Rest, Clocked
<1>19. Recorded'
  <2>1. \A p \in Rank : ~InBatch(p)'
    BY <1>1, <1>2 DEF InBatch, Pending, NoMessage, rankState
  <2>. QED BY <1>1, <2>1 DEF rankState, Rest, Recorded
<1>. QED BY <1>17, <1>18, <1>19 DEF Rest

LEMMA StutterRest == Rest /\ UNCHANGED vars => Rest'
<1>. SUFFICES ASSUME Rest, UNCHANGED vars PROVE Rest'
  OBVIOUS
<1>1. UNCHANGED <<current_synchronization, pc, counter, t, start_not_yet_gathered_results, interval,
                  invalid, local_results, runs, bcast, all_results, sum_of_results, good>>
  BY DEF vars, rankState, rootState
<1>2. Clocked'
  BY <1>1 DEF Rest, Clocked, Pending
<1>3. Recorded'
  BY <1>1 DEF Rest, Recorded, InBatch, Pending, RecordedRun, Real, RootClock, should_wait_till
<1>4. Tabled'
  BY <1>1 DEF Rest, Tabled, StartOf, Pending, Real, RootClock
<1>. QED BY <1>2, <1>3, <1>4 DEF Rest

LEMMA StepRest == IInv /\ Rest /\ [Next]_vars => Rest'
<1>. SUFFICES ASSUME IInv, Rest, [Next]_vars PROVE Rest'
  OBVIOUS
<1>1. ASSUME NEW p \in Rank, RankStep(p) PROVE Rest'
  BY <1>1, BeginBatchRest, RunRest, GatherRest, ReceiveRest DEF RankStep
<1>2. CASE Decide
  BY <1>2, DecideRest
<1>3. CASE Terminated \/ UNCHANGED vars
  BY <1>3, StutterRest DEF Terminated
<1>. QED BY <1>1, <1>2, <1>3 DEF Next

\* Records, table and clocks hold together in every behaviour.
THEOREM TableAndRecords == Spec => []MInv
<1>1. Spec => [](IInv /\ Rest)
  BY InitIInv, InitRest, StepIInv, StepRest, PTL DEF Spec
<1>2. IInv /\ Rest => MInv
  BY DEF MInv, Rest
<1>. QED BY <1>1, <1>2, PTL

\* Whatever batches were made and whatever measurement_loop dropped from them, every
\* column of the root's table has the results of one run, which no rank found flawed,
\* no such run is missing or out of place, and update_std_error has seen each once.
THEOREM ColumnsAreRuns == Spec => []TableIsGoodRuns
<1>1. MInv => TableIsGoodRuns
  <2>. SUFFICES ASSUME MInv, NEW p \in Rank
                PROVE  [i \in 1 .. Len(all_results[p]) |-> all_results[p][i].run] = good
    BY DEF TableIsGoodRuns, MInv, Tabled
  <2>1. good \in Seq(Nat) /\ Len(all_results[p]) = Len(good)
        /\ \A i \in 1 .. Len(good) : all_results[p][i].run = good[i]
    BY DEF MInv, Tabled
  <2>2. good = [i \in 1 .. Len(good) |-> good[i]]
    BY <2>1, LenProperties
  <2>. QED BY <2>1, <2>2
<1>. QED BY <1>1, TableAndRecords, PTL

\* With SYNC_REAL all results in a column come from starts at one time of the root's
\* clock, as far as the estimates of determine_time_differences are right.
THEOREM StartsTogether == Spec => []StartedTogether
<1>1. MInv => StartedTogether
  BY DEF MInv, Tabled, StartedTogether
<1>. QED BY <1>1, TableAndRecords, PTL
=============================================================================
