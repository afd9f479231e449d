------------------------------ MODULE PingPong ------------------------------
(***************************************************************************)
(* The clock comparison of src/src/synchronize.c, MPI build: two processes *)
(* of a communicator exchange the readings of their clocks and each one    *)
(* narrows a window [td_min, td_max] around the difference between the     *)
(* other's clock and its own.  determine_time_differences calls ping_pong  *)
(* for a pair once per measurement, each call after a barrier; the module  *)
(* follows one pair through Rounds such calls.                             *)
(*                                                                         *)
(* Clocks run at the speed of real time and differ by a constant.  A clock *)
(* is read between a receive and the next send, and time passes between    *)
(* any two of those steps, so that messages may be arbitrarily slow and    *)
(* asymmetric.  Times are integers; a difference stored in tds is kept     *)
(* doubled, as the code halves the sum of the bounds.                      *)
(***************************************************************************)
EXTENDS Integers, Sequences

CONSTANTS
  Offset,             \* what the clock of each process shows at real time 0
  Number_ping_pongs,  \* exchanges after which p1 stops (100 in the code)
  Minimum_ping_pongs, \* exchanges before anyone stops early (8 in the code)
  Eager,              \* TRUE: MPI_Send returns before the message is received
  Rounds,             \* bound: calls of ping_pong for this pair
  MaxNow              \* bound: real time stands still from here on

Proc == {"p1", "p2"}

\* The code takes negative times for invalid ones: no clock may show one.
ASSUME ClocksNonNegative == Offset \in [Proc -> Nat]
ASSUME CountsPositive == /\ Number_ping_pongs \in Nat \ {0, 1}
                         /\ Minimum_ping_pongs \in Nat
                         /\ Eager \in BOOLEAN
ASSUME BoundsNatural == Rounds \in Nat /\ MaxNow \in Nat

VARIABLES
  now,                \* real time
  round,              \* number of the current call
  pc,                 \* program point of each process
  net,                \* messages on their way to each process
  i, my_time, my_last_time, other_time, td_min, td_max,  \* locals of ping_pong
  ping_pong_min_time, \* narrowest window so far, negative: none yet
  tds                 \* twice the estimated difference to the other clock

locals == <<i, my_time, my_last_time, other_time, td_min, td_max>>
results == <<ping_pong_min_time, tds>>
vars == <<now, round, pc, net, locals, results>>

Other(p) == IF p = "p1" THEN "p2" ELSE "p1"
invalid_time == -1
wtime(p) == now + Offset[p]
fmax2(a, b) == IF a > b THEN a ELSE b
fmin2(a, b) == IF a < b THEN a ELSE b

Start == [p \in Proc |-> IF p = "p1" THEN "first_clock" ELSE "first_recv"]

Init ==
  /\ now = 0 /\ round = 1
  /\ pc = Start
  /\ net = [p \in Proc |-> << >>]
  /\ i = [p \in Proc |-> 1]
  /\ my_time = [p \in Proc |-> 0] /\ my_last_time = [p \in Proc |-> 0]
  /\ other_time = [p \in Proc |-> 0]
  /\ td_min = [p \in Proc |-> 0] /\ td_max = [p \in Proc |-> 0]
  /\ ping_pong_min_time = [p \in Proc |-> -1]
  /\ tds = [p \in Proc |-> 0]

\* A rendezvous send holds its process until the message is received.
SendReturned(p) == Eager \/ net[Other(p)] = << >>

At(p, point) == pc[p] = point /\ SendReturned(p)
Goto(p, point) == pc' = [pc EXCEPT ![p] = point]

Send(p, t) == net' = [net EXCEPT ![Other(p)] = Append(@, t)]
Recv(p) == /\ net[p] # << >>
           /\ other_time' = [other_time EXCEPT ![p] = Head(net[p])]
           /\ net' = [net EXCEPT ![p] = Tail(@)]

(***************************************************************************)
(* The unrolled first exchange.  p1 opens it, and takes both bounds from   *)
(* the answer; p2 takes a lower bound from the opening message and both    *)
(* bounds from the message after its answer.                               *)
(***************************************************************************)
FirstClock(p) ==
  /\ At(p, "first_clock")
  /\ my_last_time' = [my_last_time EXCEPT ![p] = wtime(p)]
  /\ IF p = "p1" THEN UNCHANGED td_min
                 ELSE td_min' = [td_min EXCEPT ![p] = other_time[p] - wtime(p)]
  /\ Goto(p, "first_send")
  /\ UNCHANGED <<now, round, net, i, my_time, other_time, td_max, results>>

FirstSend(p) ==
  /\ At(p, "first_send")
  /\ Send(p, my_last_time[p])
  /\ Goto(p, IF p = "p1" THEN "first_recv" ELSE "second_recv")
  /\ UNCHANGED <<now, round, locals, results>>

FirstRecv(p) ==
  /\ At(p, "first_recv")
  /\ Recv(p)
  /\ Goto(p, IF p = "p1" THEN "first_bounds" ELSE "first_clock")
  /\ UNCHANGED <<now, round, i, my_time, my_last_time, td_min, td_max, results>>

SecondRecv(p) ==
  /\ At(p, "second_recv")
  /\ Recv(p)
  /\ Goto(p, "first_bounds")
  /\ UNCHANGED <<now, round, i, my_time, my_last_time, td_min, td_max, results>>

FreshClock(p) ==                                                       \* mutant
  /\ At(p, "first_bounds")
  /\ my_time' = [my_time EXCEPT ![p] = wtime(p)]
  /\ td_min' = [td_min EXCEPT ![p] = other_time[p] - wtime(p)]
  /\ td_max' = [td_max EXCEPT ![p] = other_time[p] - wtime(p)]
  /\ i' = [i EXCEPT ![p] = 1]
  /\ Goto(p, "send")
  /\ UNCHANGED <<now, round, net, my_last_time, other_time, results>>
FirstBounds(p) ==
  /\ At(p, "first_bounds")
  /\ my_time' = [my_time EXCEPT ![p] = wtime(p)]
  /\ td_min' = [td_min EXCEPT ![p] =
                  IF p = "p1" THEN other_time[p] - wtime(p)
                              ELSE fmax2(@, other_time[p] - wtime(p))]
  /\ td_max' = [td_max EXCEPT ![p] = other_time[p] - my_last_time[p]]
  /\ i' = [i EXCEPT ![p] = 1]
  /\ Goto(p, "send")
  /\ UNCHANGED <<now, round, net, my_last_time, other_time, results>>

(***************************************************************************)
(* The loops.  Whoever receives a valid time narrows its window and either *)
(* answers with the reading or stops the exchange with invalid_time.       *)
(***************************************************************************)
SendTime(p) ==
  /\ At(p, "send")
  /\ Send(p, my_time[p])
  /\ Goto(p, "recv")
  /\ UNCHANGED <<now, round, locals, results>>

EchoesInvalid(p) ==                                                    \* mutant
  /\ At(p, "recv")
  /\ Recv(p)
  /\ Goto(p, IF Head(net[p]) < 0 THEN "send_invalid" ELSE "bounds")
  /\ UNCHANGED <<now, round, i, my_time, my_last_time, td_min, td_max, results>>
IgnoresInvalid(p) ==                                                   \* mutant
  /\ At(p, "recv")
  /\ Recv(p)
  /\ Goto(p, "bounds")
  /\ UNCHANGED <<now, round, i, my_time, my_last_time, td_min, td_max, results>>
RecvTime(p) ==
  /\ At(p, "recv")
  /\ Recv(p)
  /\ Goto(p, IF Head(net[p]) < 0 THEN "finish" ELSE "bounds")
  /\ UNCHANGED <<now, round, i, my_time, my_last_time, td_min, td_max, results>>

\* The last exchange took less than 1.10 of the narrowest window known.
FastEnough(p) ==
  /\ ping_pong_min_time[p] >= 0
  /\ i[p] >= Minimum_ping_pongs
  /\ 10 * (wtime(p) - my_time[p]) < 11 * ping_pong_min_time[p]

Bounds(p) ==
  /\ At(p, "bounds")
  /\ my_last_time' = [my_last_time EXCEPT ![p] = my_time[p]]
  /\ my_time' = [my_time EXCEPT ![p] = wtime(p)]
  /\ td_min' = [td_min EXCEPT ![p] = fmax2(@, other_time[p] - wtime(p))]
  /\ td_max' = [td_max EXCEPT ![p] = fmin2(@, other_time[p] - my_time[p])]
  /\ IF FastEnough(p)
     THEN Goto(p, "send_invalid") /\ UNCHANGED i
     ELSE /\ i' = [i EXCEPT ![p] = @ + 1]
          /\ Goto(p, IF p = "p1" /\ i[p] + 1 = Number_ping_pongs
                     THEN "send_invalid" ELSE "send")
  /\ UNCHANGED <<now, round, net, other_time, results>>

SendInvalid(p) ==
  /\ At(p, "send_invalid")
  /\ Send(p, invalid_time)
  /\ Goto(p, "finish")
  /\ UNCHANGED <<now, round, locals, results>>

RecordsHalfWidth(p) ==                                                 \* mutant
  /\ At(p, "finish")
  /\ ping_pong_min_time' = [ping_pong_min_time EXCEPT ![p] =
        IF @ < 0 THEN td_max[p] - td_min[p]
                 ELSE fmin2(@, td_max[p] - td_min[p])]
  /\ tds' = [tds EXCEPT ![p] = td_max[p] - td_min[p]]
  /\ Goto(p, "done")
  /\ UNCHANGED <<now, round, net, locals>>
Finish(p) ==
  /\ At(p, "finish")
  /\ ping_pong_min_time' = [ping_pong_min_time EXCEPT ![p] =
        IF @ < 0 THEN td_max[p] - td_min[p]
                 ELSE fmin2(@, td_max[p] - td_min[p])]
  /\ tds' = [tds EXCEPT ![p] = td_min[p] + td_max[p]]
  /\ Goto(p, "done")
  /\ UNCHANGED <<now, round, net, locals>>

\* The barrier before the next call for this pair.
NextRound ==
  /\ \A p \in Proc : pc[p] = "done"
  /\ round < Rounds
  /\ round' = round + 1
  /\ pc' = Start
  /\ UNCHANGED <<now, net, locals, results>>

Tick == now < MaxNow /\ now' = now + 1
        /\ UNCHANGED <<round, pc, net, locals, results>>

Step(p) ==
  \/ FirstClock(p) \/ FirstSend(p) \/ FirstRecv(p) \/ SecondRecv(p)
  \/ FirstBounds(p)
  \/ SendTime(p) \/ RecvTime(p) \/ Bounds(p) \/ SendInvalid(p)
  \/ Finish(p)

\* Both processes have returned from the last call; the pair rests.
Terminated == (\A p \in Proc : pc[p] = "done") /\ round = Rounds /\ UNCHANGED vars

Next == (\E p \in Proc : Step(p)) \/ NextRound \/ Tick \/ Terminated

Spec == Init /\ [][Next]_vars

\* A process that can move does: MPI progress and the operating system's
\* scheduling.  Nothing is assumed of Tick.
FairSpec == Spec /\ (\A p \in Proc : WF_vars(Step(p))) /\ WF_vars(NextRound)

-----------------------------------------------------------------------------
Points == {"first_clock", "first_send", "first_recv", "second_recv",
           "first_bounds", "send", "recv", "bounds", "send_invalid",
           "finish", "done"}

\* The types of the variables.
TypeOK ==
  /\ now \in Nat /\ round \in Nat
  /\ pc \in [Proc -> Points]
  /\ net \in [Proc -> Seq(Int)]
  /\ i \in [Proc -> Nat]
  /\ my_time \in [Proc -> Int] /\ my_last_time \in [Proc -> Int]
  /\ other_time \in [Proc -> Int]
  /\ td_min \in [Proc -> Int] /\ td_max \in [Proc -> Int]
  /\ ping_pong_min_time \in [Proc -> Int] /\ tds \in [Proc -> Int]

TrueDiff(p) == Offset[Other(p)] - Offset[p]

\* Both bounds of a process have been set in this call.
HasWindow(p) == pc[p] \in {"send", "recv", "bounds", "send_invalid", "finish", "done"}

\* However slow and asymmetric the messages, the real difference of the two
\* clocks never leaves the window a process computes (td_min and td_max of
\* ping_pong), in any call of it.
WindowHoldsTruth ==
  \A p \in Proc : HasWindow(p) => td_min[p] <= TrueDiff(p) /\ TrueDiff(p) <= td_max[p]

\* The recorded difference is off by at most half the window it was taken
\* from, and the width that is recorded as the best one is never negative: it
\* would read as "not yet determined" in the next call (ping_pong's tail).
EstimateWithinWindow ==
  \A p \in Proc : pc[p] = "done" =>
    /\ tds[p] - 2 * TrueDiff(p) <= td_max[p] - td_min[p]
    /\ 2 * TrueDiff(p) - tds[p] <= td_max[p] - td_min[p]
    /\ 0 <= ping_pong_min_time[p]
    /\ ping_pong_min_time[p] <= td_max[p] - td_min[p]

OneMessage == Len(net["p1"]) + Len(net["p2"]) <= 1

NothingLeftBehind == (\A p \in Proc : pc[p] = "done") => \A p \in Proc : net[p] = << >>

\* Strict alternation: there is never more than one message on its way between the
\* two, so the exchange works whether MPI_Send buffers or not; and when both have
\* returned none is left for the next call to mistake for its own (all calls use the
\* same tag).
Alternation == OneMessage /\ NothingLeftBehind

\* One side at most decides to stop, and the other learns it from a message: no
\* two invalid times cross each other.
OneSideStops ==
  \A p \in Proc : pc[p] = "send_invalid" => pc[Other(p)] = "recv" /\ net[p] = << >>

\* Every call ends, on both sides, with only p1 counting and without any
\* assumption on the speed of messages or on time passing.
EveryCallEnds == <>[](\A p \in Proc : pc[p] = "done")
=============================================================================
