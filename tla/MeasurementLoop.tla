--------------------------- MODULE MeasurementLoop ---------------------------
(***************************************************************************)
(* One measurement of src/src/measurement.c (measurement_loop): the ranks  *)
(* of the measurement communicator repeat an operation in batches; after   *)
(* each batch the root gathers the results, drops the runs that were       *)
(* flawed on any rank, adapts the length of the next batch and the         *)
(* interval between two runs, decides whether to stop and broadcasts what  *)
(* it decided.                                                             *)
(*                                                                         *)
(* A result is the number of the run it comes from and the real time it    *)
(* started at; the values the operation returns are left out, so the test  *)
(* on the standard error is a choice.  Real time counts from the root's    *)
(* start_batch, in ticks; the mean time of a run is rounded up to a tick.  *)
(***************************************************************************)
EXTENDS Integers, Sequences, FiniteSetsExt, SequencesExt, Enumeration

CONSTANTS
  Rank,                  \* the ranks of the measurement communicator
  Root,                  \* rank 0: gathers and decides
  SyncKinds,             \* kinds of synchronization the measured functions use
  min_repetitions, max_repetitions,  \* set by the input file
  First_max_counter,     \* runs in the first batch with SYNC_REAL (4)
  Error,                 \* error of each rank's estimate of the root's clock
  MaxSpent,              \* bound: ticks one run takes at most
  MaxLag                 \* bound: ticks until a broadcast has arrived

ASSUME RanksFinite == IsFiniteSet(Rank) /\ Root \in Rank
ASSUME KindsOfSync == SyncKinds \subseteq {"SYNC_REAL", "SYNC_BARRIER", "SYNC_NOSYNC"}
\* measurement_loop asserts min_repetitions <= max_repetitions; without a
\* single repetition the code divides by zero.
ASSUME Repetitions == /\ min_repetitions \in Nat \ {0} /\ max_repetitions \in Nat
                      /\ min_repetitions <= max_repetitions
                      /\ First_max_counter \in Nat \ {0}
ASSUME TimesNatural == MaxSpent \in Nat /\ MaxLag \in Nat /\ Error \in [Rank -> Int]

imax2(a, b) == IF a > b THEN a ELSE b
imin2(a, b) == IF a < b THEN a ELSE b

\* int of max_repetitions*1.5+0.5
max_rep_hard_limit == imax2(First_max_counter, (3 * max_repetitions + 1) \div 2)

VARIABLES
  current_synchronization,  \* of the measured function
  pc, counter, t,        \* of each rank: point, run of the batch, real time
  result_index, start_not_yet_gathered_results,
  max_counter, interval, stop,
  invalid, local_results,  \* verdicts and results of this batch
  runs,                  \* runs made so far by each rank, in all batches
  bcast,                 \* the root's decision on its way to each rank
  first_measurement_run, all_results, sum_of_results,  \* root only
  good                   \* history: runs gathered that no rank found flawed

rankState == <<current_synchronization, pc, counter, t, result_index, start_not_yet_gathered_results,
               max_counter, interval, stop, invalid, local_results, runs>>
rootState == <<first_measurement_run, all_results, sum_of_results, good>>
vars == <<rankState, bcast, rootState>>

NoMessage == [kind |-> "none"]
Real == current_synchronization = "SYNC_REAL"

\* How long something may take. Only SYNC_REAL looks at the clocks.
Ticks(bound) == IF Real THEN 0 .. bound ELSE {0}

\* init_synchronization sets the kind asked for and First_max_counter; without
\* it there is no synchronization and the batch has min_repetitions runs.
FirstBatch == {First_max_counter} \cup
  (IF current_synchronization = "SYNC_NOSYNC" THEN {min_repetitions} ELSE {})

Init ==
  /\ current_synchronization \in SyncKinds
  /\ pc = [p \in Rank |-> "batch"]
  /\ counter = [p \in Rank |-> 0]
  /\ t \in [Rank -> Ticks(MaxLag)]
  /\ result_index = [p \in Rank |-> 0]
  /\ start_not_yet_gathered_results = [p \in Rank |-> 0]
  /\ \E n \in FirstBatch : max_counter = [p \in Rank |-> n]
  /\ interval = [p \in Rank |-> 0]
  /\ stop = [p \in Rank |-> FALSE]
  /\ invalid = [p \in Rank |-> << >>]
  /\ local_results = [p \in Rank |-> << >>]
  /\ runs = [p \in Rank |-> 0]
  /\ bcast = [p \in Rank |-> NoMessage]
  /\ first_measurement_run = TRUE
  /\ all_results = [p \in Rank |-> << >>]
  /\ sum_of_results = << >>
  /\ good = << >>

\* No batch may run past the arrays.
UnclippedLength(p) == max_counter[p]                                   \* mutant
BatchLength(p) == imin2(max_rep_hard_limit - result_index[p], max_counter[p])

BeginBatch(p) ==
  /\ pc[p] = "batch"
  /\ max_counter' = [max_counter EXCEPT ![p] = BatchLength(p)]
  /\ counter' = [counter EXCEPT ![p] = 0]
  /\ invalid' = [invalid EXCEPT ![p] = << >>]
  /\ local_results' = [local_results EXCEPT ![p] = << >>]
  /\ pc' = [pc EXCEPT ![p] = "run"]
  /\ UNCHANGED <<current_synchronization, t, result_index,
                 start_not_yet_gathered_results, interval, stop, runs, bcast, rootState>>

\* MPI_Barrier in start_synchronization: every rank has come to this run.
BarrierOpen(p) ==
  current_synchronization = "SYNC_BARRIER" => \A q \in Rank :
    /\ runs[q] >= runs[p]
    /\ runs[q] = runs[p] => pc[q] = "run" /\ counter[q] < max_counter[q]

\* The time run number c is to start at, on the root's clock.
should_wait_till(p, c) == (c + 1) * interval[p]

\* What rank p takes the root's clock to show at real time x.
RootClock(p, x) == x + Error[p]

\* The real time at which wait_till, told a time of the root's clock, returns.
OwnClock(p, target) == target                                          \* mutant
wait_till(p, target) == target - Error[p]

\* start_synchronization, the operation and stop_synchronization.
Run(p) ==
  /\ pc[p] = "run" /\ counter[p] < max_counter[p]
  /\ BarrierOpen(p)
  /\ \E spent \in Ticks(MaxSpent) :
       LET target == should_wait_till(p, counter[p])
           late   == RootClock(p, t[p]) > target
           start  == IF Real /\ ~late THEN wait_till(p, target) ELSE t[p]
       IN /\ t' = [t EXCEPT ![p] = start + spent]
          /\ local_results' = [local_results EXCEPT
                ![p] = Append(@, [run |-> runs[p], start |-> start])]
          /\ invalid' = [invalid EXCEPT ![p] = Append(@,
                CASE ~Real                          -> "no"
                  [] Real /\ spent > interval[p]    -> "INVALID_TOOK_TOO_LONG"
                  [] Real /\ spent <= interval[p] /\ late -> "INVALID_STARTED_LATE"
                  [] OTHER                          -> "no")]
  /\ result_index' = [result_index EXCEPT ![p] = @ + 1]
  /\ counter' = [counter EXCEPT ![p] = @ + 1]
  /\ runs' = [runs EXCEPT ![p] = @ + 1]
  /\ UNCHANGED <<current_synchronization, pc, start_not_yet_gathered_results,
                 max_counter, interval, stop, bcast, rootState>>

\* The end of a batch: results, verdicts and the final time go to the root.
Gather(p) ==
  /\ pc[p] = "run" /\ counter[p] >= max_counter[p]
  /\ pc' = [pc EXCEPT ![p] = "decide"]
  /\ UNCHANGED <<current_synchronization, counter, t, result_index,
                 start_not_yet_gathered_results, max_counter, interval, stop, invalid, local_results, runs,
                 bcast, rootState>>

-----------------------------------------------------------------------------
\* The root's view of the batch.
Batch == 1 .. max_counter[Root]
global_invalid(p, k) == invalid[p][k]

\* Most late starts in a row on one rank.  A valid run ends the row, a run
\* that took too long neither counts nor ends it.
get_longest_run ==
  LET Row(p, a, b) == IF \E k \in a .. b : global_invalid(p, k) = "no" THEN 0
                      ELSE Cardinality({k \in a .. b :
                             global_invalid(p, k) = "INVALID_STARTED_LATE"})
  IN Max({0} \cup {Row(p, a, b) : p \in Rank, a \in Batch, b \in Batch})

FlawedOnRoot(k) == global_invalid(Root, k) # "no"                       \* mutant
Flawed(k) == \E p \in Rank : global_invalid(p, k) # "no"
get_number_flawed_measurements == Cardinality({k \in Batch : Flawed(k)})

\* (global_stop_batch - start_batch) / (max_counter+1) * 1.5, rounded up.
StretchedMean ==
  LET span == Max({RootClock(p, t[p]) : p \in Rank})
      n    == 2 * (max_counter[Root] + 1)
  IN (3 * span + n - 1) \div n

NewInterval ==
  IF Real /\ get_number_flawed_measurements > max_counter[Root] \div 4
  THEN imax2(2 * interval[Root], StretchedMean)
  ELSE interval[Root]

OnlyTheMissing == min_repetitions - result_index[Root]                  \* mutant
NewMaxCounter ==
  CASE ~Real                          -> imax2(4, min_repetitions)
    [] Real /\ first_measurement_run  -> min_repetitions
    [] Real /\ ~first_measurement_run /\ get_longest_run > max_counter[Root] \div 2
                                      -> imax2(max_counter[Root] \div 2, First_max_counter)
    [] OTHER                          -> max_counter[Root]

\* The runs of the batch that are moved up over the flawed ones.
KeptRuns == {k \in Batch : ~(Real /\ Flawed(k))}
Kept == InOrder(KeptRuns)

\* The runs of the batch that no rank found flawed, by their number.
Unflawed == {k \in Batch : \A p \in Rank : invalid[p][k] = "no"}
GoodRuns == [k \in 1 .. Cardinality(Unflawed) |->
               runs[Root] - max_counter[Root] + InOrder(Unflawed)[k] - 1]

\* Column i of all_results: what the gather puts there, then the compaction.
Gathered(p) ==
  SubSeq(all_results[p], 1, start_not_yet_gathered_results[Root])
    \o [k \in 1 .. Cardinality(KeptRuns) |-> local_results[p][Kept[k]]]

\* What update_std_error adds to the sums.
NewResults == SubSeq(Gathered(Root), start_not_yet_gathered_results[Root] + 1,
                     start_not_yet_gathered_results[Root] + Cardinality(KeptRuns))

\* The decision after n results. Below two results the standard error is not
\* a number and satisfies no comparison.
PreciseEnough(n, small) == n > 1 /\ small
Stop(n, small) == \/ n >= max_repetitions
                  \/ n >= min_repetitions /\ PreciseEnough(n, small)

\* update_batch_params, the compaction, update_std_error and the decision.
Decide ==
  /\ \A p \in Rank : pc[p] = "decide"
  /\ \A p \in Rank : bcast[p] = NoMessage
  /\ \E small \in BOOLEAN :
       LET n == start_not_yet_gathered_results[Root] + Cardinality(KeptRuns)
           message == [kind         |-> "decision",
                       result_index |-> n,
                       stop         |-> Stop(n, small),
                       max_counter  |-> NewMaxCounter,
                       interval     |-> NewInterval]
       IN bcast' = [p \in Rank |-> message]
  /\ first_measurement_run' = (first_measurement_run /\ ~Real)
  /\ all_results' = [p \in Rank |-> Gathered(p)]
  /\ sum_of_results' = sum_of_results \o NewResults
  /\ good' = good \o GoodRuns
  /\ UNCHANGED rankState

\* What rank p takes over from the decision d.
AdoptButInterval(p, d) ==                                              \* mutant
  /\ result_index' = [result_index EXCEPT ![p] = d.result_index]
  /\ start_not_yet_gathered_results' =
        [start_not_yet_gathered_results EXCEPT ![p] = d.result_index]
  /\ stop' = [stop EXCEPT ![p] = d.stop]
  /\ max_counter' = [max_counter EXCEPT ![p] = d.max_counter]
  /\ interval' = [interval EXCEPT ![p] = IF p = Root THEN d.interval ELSE @]
Adopt(p, d) ==
  /\ result_index' = [result_index EXCEPT ![p] = d.result_index]
  /\ start_not_yet_gathered_results' =
        [start_not_yet_gathered_results EXCEPT ![p] = d.result_index]
  /\ stop' = [stop EXCEPT ![p] = d.stop]
  /\ max_counter' = [max_counter EXCEPT ![p] = d.max_counter]
  /\ interval' = [interval EXCEPT ![p] = d.interval]

Leaves(p) == bcast[p].stop

\* The broadcasts of the decision and of start_batch reach rank p.
Receive(p) ==
  /\ pc[p] = "decide"
  /\ bcast[p] # NoMessage
  /\ Adopt(p, bcast[p])
  /\ \E lag \in Ticks(MaxLag) : t' = [t EXCEPT ![p] = IF p = Root THEN 0 ELSE lag]
  /\ pc' = [pc EXCEPT ![p] = IF Leaves(p) THEN "done" ELSE "batch"]
  /\ bcast' = [bcast EXCEPT ![p] = NoMessage]
  /\ UNCHANGED <<current_synchronization, counter, invalid, local_results, runs, rootState>>

\* All ranks have left the loop.
Terminated == (\A p \in Rank : pc[p] = "done") /\ UNCHANGED vars

RankStep(p) == BeginBatch(p) \/ Run(p) \/ Gather(p) \/ Receive(p)
Next == (\E p \in Rank : RankStep(p)) \/ Decide \/ Terminated

Spec == Init /\ [][Next]_vars

\* Ranks keep running; the timing bounds MaxSpent and MaxLag are the only
\* assumption on how fast.
FairSpec == Spec /\ (\A p \in Rank : WF_vars(RankStep(p))) /\ WF_vars(Decide)

-----------------------------------------------------------------------------
Points == {"batch", "run", "decide", "done"}
Verdicts == {"no", "INVALID_STARTED_LATE", "INVALID_TOOK_TOO_LONG"}
Results == [run : Nat, start : Int]
Decisions == [kind : {"decision"}, result_index : Nat, stop : BOOLEAN,
              max_counter : Nat, interval : Nat]

\* The types of the variables.
TypeOK ==
  /\ current_synchronization \in SyncKinds
  /\ pc \in [Rank -> Points]
  /\ counter \in [Rank -> Nat] /\ t \in [Rank -> Int]
  /\ result_index \in [Rank -> Nat] /\ start_not_yet_gathered_results \in [Rank -> Nat]
  /\ max_counter \in [Rank -> Nat] /\ interval \in [Rank -> Nat]
  /\ stop \in [Rank -> BOOLEAN] /\ first_measurement_run \in BOOLEAN
  /\ invalid \in [Rank -> Seq(Verdicts)] /\ local_results \in [Rank -> Seq(Results)]
  /\ runs \in [Rank -> Nat]
  /\ bcast \in [Rank -> Decisions \cup {NoMessage}]
  /\ all_results \in [Rank -> Seq(Results)] /\ sum_of_results \in Seq(Results)
  /\ good \in Seq(Nat)

\* The commented-out assertion at the head of the loop: the runs still to make
\* in the batch fit the arrays, on every rank and after every compaction; and a
\* batch is never empty, or the loop would spin.
RunsFitTheArrays ==
  \A p \in Rank : pc[p] = "run" =>
    /\ result_index[p] + (max_counter[p] - counter[p]) <= max_rep_hard_limit
    /\ max_counter[p] > 0

SameBatch ==
  \A p, q \in Rank : pc[p] = "run" /\ pc[q] = "run" =>
    /\ max_counter[p] = max_counter[q] /\ interval[p] = interval[q]
    /\ start_not_yet_gathered_results[p] = start_not_yet_gathered_results[q]
    /\ runs[p] - counter[p] = runs[q] - counter[q]

LeaveTogether ==
  \A p, q \in Rank : pc[p] = "done" =>
    pc[q] = "done" \/ (bcast[q] # NoMessage /\ bcast[q].stop)

\* Ranks that are running make the same batch: same length, same interval, same place
\* in the arrays, and no rank is more than this batch behind; and when one leaves the
\* loop every other has left it or is about to.  A rank that went on, or made another
\* batch, would wait in a collective for ever.
InStep == SameBatch /\ LeaveTogether

\* Whatever was dropped in whatever batch, the root's table holds for every
\* rank exactly the runs no rank found flawed, in the order they were made, so
\* every column belongs to one run; and each of them has entered the sums of
\* update_std_error once.
TableIsGoodRuns ==
  /\ \A p \in Rank : [i \in 1 .. Len(all_results[p]) |-> all_results[p][i].run] = good
  /\ sum_of_results = all_results[Root]

\* The results that are kept with SYNC_REAL come from runs that all ranks
\* started at the same time of the root's clock, as far as their estimates of
\* it are right.
StartedTogether ==
  Real => \A p, q \in Rank : \A i \in 1 .. Len(good) :
            RootClock(p, all_results[p][i].start) = RootClock(q, all_results[q][i].start)

\* However unfavourable the times within the bounds, the measurement ends.
Terminates == <>(\A p \in Rank : pc[p] = "done")
=============================================================================
