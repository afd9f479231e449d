----------------------------- MODULE Autorefine -----------------------------
(***************************************************************************)
(* The refinement of a loop by src/src/autorefine.c, on the root rank and  *)
(* for an integer loop variable.  The plain loop registers a result for    *)
(* each value it visits; then candidates halfway between neighbouring      *)
(* values are measured, the one where the results bend most first, until   *)
(* there are iteration_multiplier times as many results.                   *)
(*                                                                         *)
(* The structs of value_list are elements of the sequence node; the list   *)
(* linked by next/prev, guards included, and the list linked by            *)
(* next_prior/prev_prior are sequences of indices into it.  Weights are    *)
(* kept as integers, Scale times the code's doubles.                       *)
(***************************************************************************)
EXTENDS Integers, Sequences, FiniteSets, SequencesExt, TLC

CONSTANTS
  Loops,                 \* loop statements; step is added to the variable
  Factors,               \* 2.0 and the arguments of set_autorefine_factor
  MeasuresPerBody,       \* measurements one pass through the loop body makes
  Results,               \* what a measurement may return
  Scale                  \* weights are integers after multiplication with it

Abs(a) == IF a < 0 THEN -a ELSE a

\* init_autorefine stores -1.0 over the union that holds the loop variable: the
\* integer in it becomes the lower half of that double (little-endian).
Clobbered == 0

\* The values the root's loop variable takes: the body is skipped for a value
\* that is the one before.
ValuesVisited(l) ==
  LET Holds(x)  == IF l.step > 0 THEN x <= l.last ELSE x >= l.last
      Plain     == [k \in 1 .. Abs(l.last - l.first) \div Abs(l.step) |-> l.first + k * l.step]
  IN IF ~Holds(Clobbered) THEN << >>
     ELSE <<Clobbered>> \o (IF Plain # << >> /\ Plain[1] = Clobbered THEN Tail(Plain) ELSE Plain)

\* Each value is a multiple already, so it is not rounded.
ASSUME LoopsVisitMultiples == \A l \in Loops :
  /\ {l.first, l.step, l.last} \subseteq Int /\ l.step # 0
  /\ l.step > 0 <=> l.first < l.last
  /\ l.multipleof \in Nat \ {0} /\ l.first % l.multipleof = 0 /\ l.step % l.multipleof = 0
\* Two values at least: init_candidates asserts that there is a result and
\* dereferences results->next.
ASSUME LoopsVisitTwo == \A l \in Loops : Cardinality(ToSet(ValuesVisited(l))) >= 2
ASSUME SizesNatural == /\ Factors \subseteq Nat /\ MeasuresPerBody \in Nat \ {0}
                       /\ Results \subseteq Nat /\ Scale \in Nat \ {0}

VARIABLES
  loop, iteration_multiplier,  \* the loop that is refined, and how far
  pc,                      \* "loop", "body" of a refining pass, "between", "done"
  position,                \* next of LoopValues
  measured,                \* measurements made in this pass
  loopvar,
  node, results, candidates,
  autorefining, registered_measurements, regular_measurements,
  history                  \* last result measured with each value of loopvar

lists == <<node, results, candidates>>
counts == <<autorefining, registered_measurements, regular_measurements>>
vars == <<loop, iteration_multiplier, pc, position, measured, loopvar, lists, counts, history>>

imax2(a, b) == IF a > b THEN a ELSE b

LoopValues == ValuesVisited(loop)

\* Integer division by 2 in C, and rounding to a multiple: both symmetric about 0.
Half(n) == IF n < 0 THEN -((-n) \div 2) ELSE n \div 2
round_int_to_multipleof(n, m) ==
  LET d     == Abs(n) \div m
      down  == Abs(n) - d * m <= (d + 1) * m - Abs(n)
      large == (IF down THEN d ELSE d + 1) * m
  IN IF n < 0 THEN -large ELSE large

\* Scale times the value at x of the line through (x1, r1) and (x2, r2).
linear_interpolate(x, x1, x2, r1, r2) ==
  IF x1 = x2 THEN (Scale * (r1 + r2)) \div 2
             ELSE Scale * r1 + (Scale * (x - x1) * (r2 - r1)) \div (x2 - x1)

\* How far the outer lines miss the inner results, times the width of all.
calculate_key(a, b, c, d) ==
  imax2(Abs((linear_interpolate(b.i, c.i, d.i, c.result, d.result) - Scale * b.result) * (d.i - a.i)),
        Abs((linear_interpolate(c.i, a.i, b.i, a.result, b.result) - Scale * c.result) * (d.i - a.i)))

NewNode(i, is_candidate, result) ==
  [i |-> i, is_candidate |-> is_candidate, result |-> result, weight |-> 0]

-----------------------------------------------------------------------------
(* Operators on a state s of the lists: a record of the three variables  *)
(* and of multipleof.                                                    *)

Lists == [node |-> node, results |-> results, candidates |-> candidates,
          multipleof |-> loop.multipleof]

Pos(s, id) == CHOOSE k \in 1 .. Len(s.results) : s.results[k] = id
At(s, k) == s.node[s.results[k]]

\* The nearest results (not candidates) before and after position k.
prev_value(s, k) == At(s, CHOOSE j \in 1 .. k - 1 :
  ~At(s, j).is_candidate /\ \A m \in j + 1 .. k - 1 : At(s, m).is_candidate)
next_value(s, k) == At(s, CHOOSE j \in k + 1 .. Len(s.results) :
  ~At(s, j).is_candidate /\ \A m \in k + 1 .. j - 1 : At(s, m).is_candidate)

Middle(s, a, b) == round_int_to_multipleof(Half(a.i + b.i), s.multipleof)

Key(s, k) == calculate_key(prev_value(s, k - 1), At(s, k - 1), At(s, k + 1), next_value(s, k + 1))

calculate_weight(s, k) ==
  [s EXCEPT !.node[s.results[k]] = [@ EXCEPT !.i = Middle(s, At(s, k - 1), At(s, k + 1)),
                                             !.weight = Key(s, k)]]

remove_candidate_from_prior_queue(s, id) ==
  [s EXCEPT !.candidates = RemoveAt(@, CHOOSE k \in 1 .. Len(@) : @[k] = id)]

\* At the top, after a single element, or before the first lighter element,
\* where the search takes the last element for lighter.
insert_candidate_in_priority_queue(s, id) ==
  LET w == s.node[id].weight
      q == s.candidates
      Weight(k) == s.node[q[k]].weight
      first == CHOOSE k \in 1 .. Len(q) :
                 /\ k = Len(q) \/ Weight(k) < w
                 /\ \A j \in 1 .. k - 1 : Weight(j) >= w
      place == IF q = << >> \/ Weight(1) < w THEN 1
               ELSE IF Len(q) = 1 THEN 2 ELSE first
  IN [s EXCEPT !.candidates = InsertAt(q, place, id)]

KeepsWeight(s, k) == s                                                 \* mutant
update_weight(s, k) ==
  IF k \notin 1 .. Len(s.results) \/ ~At(s, k).is_candidate THEN s
  ELSE LET id == s.results[k]
       IN insert_candidate_in_priority_queue(
            remove_candidate_from_prior_queue(calculate_weight(s, k), id), id)

\* A candidate between positions k and k+1, if there is a new value there.
insert_candidate(s, k) ==
  LET middle == Middle(s, At(s, k), At(s, k + 1))
      id == Len(s.node) + 1
      linked == [s EXCEPT !.node = Append(@, NewNode(middle, TRUE, 0)),
                          !.results = InsertAt(@, k + 1, id)]
  IN IF middle \in {At(s, k).i, At(s, k + 1).i} THEN s
     ELSE insert_candidate_in_priority_queue(calculate_weight(linked, k + 1), id)

\* The node for value i in the list of results, found from the first node
\* ever inserted (last_result is never advanced).
Overwrites(s, i) ==                                                    \* mutant
  IF s.results # << >> THEN [id |-> 1, s |-> [s EXCEPT !.node[1].i = i]]
  ELSE [id |-> 1, s |-> [s EXCEPT !.node = <<NewNode(i, FALSE, 0)>>, !.results = <<1>>]]
insert_element(s, i) ==
  LET id   == Len(s.node) + 1
      last == Pos(s, 1)
      n    == Len(s.results)
      up   == CHOOSE k \in last .. n : /\ \A j \in last + 1 .. k : At(s, j).i < i
                                       /\ k = n \/ At(s, k + 1).i >= i
      down == CHOOSE k \in 1 .. last : /\ \A j \in k .. last - 1 : At(s, j).i > i
                                       /\ k = 1 \/ At(s, k - 1).i <= i
      New(k) == [id |-> id, s |-> [s EXCEPT !.node = Append(@, NewNode(i, FALSE, 0)),
                                            !.results = InsertAt(@, k, id)]]
      Old(k) == [id |-> s.results[k], s |-> [s EXCEPT !.node[s.results[k]].i = i]]
  IN IF n = 0 THEN New(1)
     ELSE IF At(s, last).i < i
          THEN IF up < n /\ At(s, up + 1).i = i THEN Old(up) ELSE New(up + 1)
     ELSE IF At(s, last).i = i THEN Old(last)
     ELSE IF down > 1 /\ At(s, down - 1).i = i THEN Old(down) ELSE New(down)

\* A candidate between any two neighbours but the last two, in order: each one
\* inserted moves the rest of the list.
InsertCandidates(s) ==
  LET n == Len(s.results)
      inserted[k \in 0 .. n - 3] ==
        IF k = 0 THEN s
        ELSE LET t == inserted[k - 1]
             IN insert_candidate(t, k + 1 + Len(t.results) - n)
  IN inserted[n - 3]

\* Guards around the results and a candidate between any two neighbours.
init_candidates(s) ==
  LET n == Len(s.results)
      front == [s EXCEPT !.node = Append(@, NewNode(At(s, 1).i, FALSE, At(s, 1).result)),
                         !.results = <<Len(s.node) + 1>> \o @]
      inner == InsertCandidates(front)
      back == [inner EXCEPT
                !.node = Append(@, NewNode(At(s, n).i, FALSE, At(s, n).result)),
                !.results = Append(@, Len(inner.node) + 1)]
  IN insert_candidate(back, Len(back.results) - 2)

OnlyBefore(s, id) == insert_candidate(s, Pos(s, id) - 1)               \* mutant
insert_candidates_beside(s, id) ==
  LET before == insert_candidate(s, Pos(s, id) - 1)
  IN insert_candidate(before, Pos(before, id))

\* The top candidate becomes a result; the candidates next to its neighbours
\* and the ones beside it get their weights.
register_refined(s, result) ==
  LET el == Head(s.candidates)
      made == [remove_candidate_from_prior_queue(s, el)
                 EXCEPT !.node[el].is_candidate = FALSE, !.node[el].result = result]
      left == update_weight(made, Pos(made, el) - 2)
      right == update_weight(left, Pos(left, el) + 2)
  IN insert_candidates_beside(right, el)

Become(s) == \E t \in {s} : /\ node' = t.node
                            /\ results' = t.results
                            /\ candidates' = t.candidates

-----------------------------------------------------------------------------
Init ==
  /\ loop \in Loops /\ iteration_multiplier \in Factors
  /\ pc = "loop" /\ position = 1 /\ measured = 0
  /\ loopvar = LoopValues[1]
  /\ node = << >> /\ results = << >> /\ candidates = << >>
  /\ autorefining = FALSE
  /\ registered_measurements = 0 /\ regular_measurements = 0
  /\ history = << >>

\* Whether the pass through the body goes on after this measurement.
Measured(next) ==
  IF measured + 1 < MeasuresPerBody
  THEN measured' = measured + 1 /\ UNCHANGED pc
  ELSE measured' = 0 /\ pc' = next

Remember(result) ==
  history' = [x \in {loopvar} \cup DOMAIN history |-> IF x = loopvar THEN result ELSE history[x]]

\* A measurement in the plain loop, and the loop's step after the last one.
RegisterRegular ==
  /\ pc = "loop" /\ ~autorefining
  /\ \E result \in Results :
       LET el == insert_element(Lists, loopvar)
       IN /\ Become([el.s EXCEPT !.node[el.id].result = result])
          /\ Remember(result)
  /\ registered_measurements' = registered_measurements + 1
  /\ Measured(IF position = Len(LoopValues) THEN "between" ELSE "loop")
  /\ IF measured + 1 = MeasuresPerBody /\ position < Len(LoopValues)
     THEN position' = position + 1 /\ loopvar' = LoopValues[position + 1]
     ELSE UNCHANGED <<position, loopvar>>
  /\ UNCHANGED <<loop, iteration_multiplier, autorefining, regular_measurements>>

\* Set when the refining begins.
CountsAnew == registered_measurements                                  \* mutant
RegularMeasurements == IF autorefining THEN regular_measurements ELSE registered_measurements

\* set_new_loop_values on the root.
SetNewLoopValues ==
  /\ pc = "between"
  /\ LET s == IF autorefining THEN Lists ELSE init_candidates(Lists)
     IN /\ Become(s)
        /\ regular_measurements' = RegularMeasurements
        /\ IF s.candidates = << >>
           THEN pc' = "done" /\ UNCHANGED loopvar
           ELSE /\ loopvar' = s.node[Head(s.candidates)].i
                /\ pc' = IF registered_measurements < RegularMeasurements * iteration_multiplier
                         THEN "body" ELSE "done"
  /\ autorefining' = TRUE
  /\ UNCHANGED <<loop, iteration_multiplier, position, measured,
                 registered_measurements, history>>

\* A measurement in a refining pass.
RegisterRefined ==
  /\ pc = "body" /\ candidates # << >>
  /\ \E result \in Results : /\ Become(register_refined(Lists, result))
                             /\ Remember(result)
  /\ registered_measurements' = registered_measurements + 1
  /\ Measured("between")
  /\ UNCHANGED <<loop, iteration_multiplier, position, loopvar, autorefining,
                 regular_measurements>>

Terminated == pc = "done" /\ UNCHANGED vars

Next == RegisterRegular \/ SetNewLoopValues \/ RegisterRefined \/ Terminated

Spec == Init /\ [][Next]_vars

-----------------------------------------------------------------------------
Nodes == [i : Int, is_candidate : BOOLEAN, result : Results \cup {0}, weight : Nat]

\* The list without the guards.
Inner == IF autorefining THEN 2 .. Len(results) - 1 ELSE 1 .. Len(results)

SortedByValue ==
  \A j, k \in Inner : j < k => node[results[j]].i < node[results[k]].i

QueueHoldsCandidates ==
  /\ IsInjective(candidates)
  /\ ToSet(candidates) = {id \in ToSet(results) : node[id].is_candidate}

WeightsFresh ==
  \A k \in 1 .. Len(results) :
    At(Lists, k).is_candidate => At(Lists, k).weight = Key(Lists, k)

\* The list of results stays strictly sorted by the value of the loop variable
\* whatever the order of the measurements, so a candidate lies strictly between its
\* neighbours and is never measured twice; the queue holds each candidate once; and
\* no weight is stale: each is the one its present neighbours give, although a new
\* result changes the neighbourhood of up to four candidates.
ListsConsistent == SortedByValue /\ QueueHoldsCandidates /\ WeightsFresh

\* Every value that was measured is in the list with the last result it gave.
ResultsKept ==
  \A x \in DOMAIN history :
    \E k \in Inner : LET n == At(Lists, k)
                     IN n.i = x /\ ~n.is_candidate /\ n.result = history[x]

\* While no candidate is left out of the queue for want of a new value, a gap
\* between two results always has one: if the candidates run out, every
\* multiple of multipleof between the ends has been measured.
ExhaustsRange ==
  autorefining /\ candidates = << >> =>
    \A x \in node[results[1]].i .. node[results[Len(results)]].i :
      x % loop.multipleof = 0 => x \in DOMAIN history

\* Refining makes at most iteration_multiplier times the measurements of the
\* plain loop, up to the last pass through the body, so the refined loop ends.
BoundedEffort ==
  LET plain == Len(LoopValues) * MeasuresPerBody
  IN registered_measurements <=
       imax2(plain, plain * iteration_multiplier + MeasuresPerBody - 1)

=============================================================================
