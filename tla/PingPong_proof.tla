--------------------------- MODULE PingPong_proof ---------------------------
(***************************************************************************)
(* Proofs about PingPong, for all clock offsets, limits and numbers of     *)
(* calls.  The argument has two parts.  Control: at any moment one process *)
(* computes or one message travels, and the program points of the two      *)
(* processes match.  Causality: a reading that is about to be sent, on its *)
(* way or received was taken after the last reading its receiver has sent, *)
(* so it bounds the difference from above; any reading bounds it from      *)
(* below because clocks do not run backwards.                              *)
(***************************************************************************)
EXTENDS PingPong, TLAPS

Ended == {"finish", "done"}
Empty == net["p1"] = << >> /\ net["p2"] = << >>

\* q has one message, the other process none.
MessageFor(q, valid) ==
  /\ net[q] = <<Head(net[q])>>
  /\ net[Other(q)] = << >>
  /\ IF valid THEN Head(net[q]) >= 0 ELSE Head(net[q]) = invalid_time

Control ==
  LET a == pc["p1"]
      b == pc["p2"]
  IN \/ a \in {"first_clock", "first_send"} /\ b = "first_recv" /\ Empty
     \/ a = "first_recv" /\ b = "first_recv" /\ MessageFor("p2", TRUE)
     \/ a = "first_recv" /\ b \in {"first_clock", "first_send"} /\ Empty
     \/ a = "first_recv" /\ b = "second_recv" /\ MessageFor("p1", TRUE)
     \/ a \in {"first_bounds", "send"} /\ b = "second_recv" /\ Empty
     \/ a = "recv" /\ b = "second_recv" /\ MessageFor("p2", TRUE)
     \/ a = "recv" /\ b \in {"first_bounds", "send", "bounds", "send_invalid"} /\ Empty
     \/ a = "recv" /\ b = "recv" /\ \E q \in Proc : MessageFor(q, TRUE)
     \/ a \in {"send", "bounds", "send_invalid"} /\ b = "recv" /\ Empty
     \/ a \in Ended /\ b = "recv" /\ MessageFor("p2", FALSE)
     \/ a = "recv" /\ b \in Ended /\ MessageFor("p1", FALSE)
     \/ a \in Ended /\ b \in Ended /\ Empty

\* No reading is from the future.
NotFromFuture(p) ==
  /\ 0 <= my_time[p] /\ my_time[p] <= wtime(p)
  /\ 0 <= my_last_time[p] /\ my_last_time[p] <= wtime(p)
  /\ other_time[p] <= wtime(Other(p))
  /\ net[p] # << >> => Head(net[p]) <= wtime(Other(p))

\* The last reading p has taken to send.
Sent(p) == IF pc[p] \in {"first_send", "first_recv", "second_recv", "first_bounds"}
           THEN my_last_time[p] ELSE my_time[p]

\* The reading t of the other clock was taken after Sent(p).
After(p, t) == TrueDiff(p) <= t - Sent(p)

Awaits(p) == pc[p] \in {"second_recv", "recv"} \/ (p = "p1" /\ pc[p] = "first_recv")

Causality(p) ==
  /\ Awaits(p) /\ net[p] # << >> /\ Head(net[p]) >= 0 => After(p, Head(net[p]))
  /\ Awaits(p) /\ net[p] = << >> /\ pc[Other(p)] = "first_send"
       => After(p, my_last_time[Other(p)])
  /\ Awaits(p) /\ net[p] = << >> /\ pc[Other(p)] = "send"
       => After(p, my_time[Other(p)])
  /\ pc[p] \in {"first_bounds", "bounds"} => After(p, other_time[p])

\* p2 has a lower bound before it has an upper one.
LowerBound(p) ==
  HasWindow(p) \/ (p = "p2" /\ pc[p] \in {"first_send", "second_recv", "first_bounds"})
    => td_min[p] <= TrueDiff(p)

UpperBound(p) == HasWindow(p) => TrueDiff(p) <= td_max[p]

Recorded(p) ==
  pc[p] = "done" => /\ tds[p] = td_min[p] + td_max[p]
                    /\ 0 <= ping_pong_min_time[p]
                    /\ ping_pong_min_time[p] <= td_max[p] - td_min[p]

Knowledge(p) == /\ NotFromFuture(p) /\ Causality(p)
                /\ LowerBound(p) /\ UpperBound(p) /\ Recorded(p)

IInv == TypeOK /\ Control /\ \A p \in Proc : Knowledge(p)

-----------------------------------------------------------------------------
\* The two processes are each other's only partner.
LEMMA Partners ==
  \A p \in Proc : /\ Other(p) \in Proc /\ Other(p) # p /\ Other(Other(p)) = p
                  /\ \A q \in Proc : q = p \/ q = Other(p)
  BY DEF Proc, Other

\* The readings are numbers, and no clock shows a negative time.
LEMMA Clocks ==
  ASSUME TypeOK, NEW p \in Proc
  PROVE  /\ Offset[p] \in Nat /\ TrueDiff(p) \in Int
         /\ wtime(p) \in Int /\ wtime(p) >= 0
         /\ wtime(Other(p)) - wtime(p) = TrueDiff(p)
  <1>1. now \in Nat /\ Offset[p] \in Nat /\ Offset[Other(p)] \in Nat
    BY ClocksNonNegative, Partners DEF TypeOK
  <1> QED BY <1>1 DEF wtime, TrueDiff

\* Channels that hold one message at most.
LEMMA Channels ==
  /\ \A x : Append(<< >>, x) = <<x>> /\ Head(<<x>>) = x /\ Tail(<<x>>) = << >> /\ <<x>> # << >>
  OBVIOUS

\* The larger and the smaller of two numbers.
LEMMA MinMax ==
  \A a, b \in Int :
    /\ fmax2(a, b) \in Int /\ fmin2(a, b) \in Int
    /\ a <= fmax2(a, b) /\ b <= fmax2(a, b) /\ fmax2(a, b) \in {a, b}
    /\ fmin2(a, b) <= a /\ fmin2(a, b) <= b /\ fmin2(a, b) \in {a, b}
  BY DEF fmax2, fmin2

\* The invariant holds before the first call.
LEMMA InitInv == Init => IInv
  <1> SUFFICES ASSUME Init PROVE IInv
    OBVIOUS
  <1> USE DEF Init, Start, Proc
  <1>1. TypeOK
    BY DEF TypeOK, Points
  <1>2. Control
    BY DEF Control, Empty
  <1>3. ASSUME NEW p \in Proc PROVE Knowledge(p)
    BY <1>1, Clocks, Partners, ClocksNonNegative
    DEF Knowledge, NotFromFuture, Causality, LowerBound, UpperBound,
        Recorded, HasWindow, Awaits, wtime
  <1> QED BY <1>1, <1>2, <1>3 DEF IInv

\* FirstClock keeps the invariant.
LEMMA FirstClockInv == ASSUME IInv, NEW p \in Proc, FirstClock(p) PROVE IInv'
  <1> DEFINE o == Other(p)
  <1>a. TypeOK /\ Control /\ Knowledge(p) /\ Knowledge(o)
    BY Partners DEF IInv
  <1>b. o \in Proc /\ o # p /\ Other(o) = p /\ Other(p) = o
    BY Partners
  <1>c. (p = "p1" /\ o = "p2") \/ (p = "p2" /\ o = "p1")
    BY DEF Proc, Other
  <1>d. /\ pc[p] = "first_clock"
        /\ net[p] = << >> /\ net[o] = << >> /\ pc[o] = "first_recv"
    <2>1. CASE p = "p1"
      BY <1>a, <2>1 DEF FirstClock, At, Recv, Control, Empty, MessageFor, Ended, Proc, Other, invalid_time
    <2>2. CASE p = "p2"
      BY <1>a, <2>2 DEF FirstClock, At, Recv, Control, Empty, MessageFor, Ended, Proc, Other, invalid_time
    <2> QED BY <1>c, <2>1, <2>2
  <1> HIDE DEF o
  <1>e. /\ pc'[p] = "first_send" /\ pc'[o] = pc[o]
        /\ my_last_time'[p] = now + Offset[p] /\ my_last_time'[o] = my_last_time[o]
        /\ td_min'[p] = IF p = "p1" THEN td_min[p] ELSE other_time[p] - (now + Offset[p])
        /\ td_min'[o] = td_min[o]
        /\ UNCHANGED <<now, round, net, i, my_time, other_time, td_max,
                      ping_pong_min_time, tds>>
    BY <1>a, <1>b, <1>d, Channels DEF TypeOK, wtime, invalid_time, FirstClock, Goto, locals, results
  <1>n. /\ now \in Nat /\ Offset[p] \in Nat /\ Offset[o] \in Nat
        /\ my_time[p] \in Int /\ my_last_time[p] \in Int /\ other_time[p] \in Int
        /\ my_time[o] \in Int /\ my_last_time[o] \in Int /\ other_time[o] \in Int
        /\ td_min[p] \in Int /\ td_max[p] \in Int
        /\ ping_pong_min_time[p] \in Int /\ tds[p] \in Int
    BY <1>a, <1>b, ClocksNonNegative DEF TypeOK
  <1>w. wtime(p) \in Int /\ other_time[p] - wtime(p) \in Int
    BY <1>n DEF wtime
  <1>m. net[p] # << >> => Head(net[p]) \in Int
    BY <1>a DEF TypeOK
  <1>1. TypeOK'
    <2>1. now' \in Nat /\ round' \in Nat /\ pc' \in [Proc -> Points]
      BY <1>a DEF TypeOK, Points, FirstClock, Goto, locals, results
    <2>2. net' \in [Proc -> Seq(Int)]
      BY <1>a, <1>b, <1>d, <1>n DEF TypeOK, FirstClock, Goto, locals, results
    <2>3. i' \in [Proc -> Nat] /\ other_time' \in [Proc -> Int]
      BY <1>a, <1>d, <1>m DEF TypeOK, FirstClock, Goto, locals, results
    <2>4. my_time' \in [Proc -> Int] /\ my_last_time' \in [Proc -> Int]
      BY <1>a, <1>n, <1>w DEF TypeOK, FirstClock, locals, results
    <2>5. td_min' \in [Proc -> Int] /\ td_max' \in [Proc -> Int]
      BY <1>a, <1>n, <1>w DEF TypeOK, FirstClock, locals, results
    <2>6. ping_pong_min_time' \in [Proc -> Int] /\ tds' \in [Proc -> Int]
      BY <1>a, <1>n DEF TypeOK, FirstClock, locals, results
    <2> QED BY <2>1, <2>2, <2>3, <2>4, <2>5, <2>6 DEF TypeOK
  <1>k. NotFromFuture(p) /\ NotFromFuture(o)
    BY <1>a DEF Knowledge
  <1>2. Control'
    <2>1. CASE p = "p1" /\ o = "p2"
      BY <1>d, <1>e, <1>k, <1>m, <1>n, <2>1, Channels
      DEF NotFromFuture, Control, Empty, MessageFor, Ended, Proc, Other, invalid_time
    <2>2. CASE p = "p2" /\ o = "p1"
      BY <1>d, <1>e, <1>k, <1>m, <1>n, <2>2, Channels
      DEF NotFromFuture, Control, Empty, MessageFor, Ended, Proc, Other, invalid_time
    <2> QED BY <1>c, <2>1, <2>2
  <1>3. Knowledge(p)'
    <2>1. NotFromFuture(p)'
      BY <1>b, <1>d, <1>e, <1>k, <1>m, <1>n, Channels, SMTT(30) DEF NotFromFuture, wtime
    <2>2. Causality(p)'
      BY <1>a, <1>b, <1>c, <1>d, <1>e, <1>k, <1>m, <1>n, Channels
      DEF Knowledge, NotFromFuture, Causality, Sent, After, Awaits, TrueDiff, wtime, Ended
    <2>3. LowerBound(p)'
      BY <1>a, <1>b, <1>c, <1>d, <1>e, <1>k, <1>n, SMTT(30)
      DEF Knowledge, NotFromFuture, LowerBound, HasWindow, TrueDiff, wtime, fmax2, fmin2
    <2>4. UpperBound(p)'
      BY <1>a, <1>b, <1>d, <1>e, <1>n
      DEF Knowledge, Causality, Sent, After, UpperBound, HasWindow, TrueDiff, fmax2, fmin2
    <2>5. Recorded(p)'
      BY <1>a, <1>b, <1>d, <1>e, <1>n
      DEF Knowledge, LowerBound, UpperBound, Recorded, HasWindow, TrueDiff, fmax2, fmin2
    <2> QED BY <2>1, <2>2, <2>3, <2>4, <2>5 DEF Knowledge
  <1>4. Knowledge(o)'
    <2>1. NotFromFuture(o)'
      BY <1>b, <1>d, <1>e, <1>k, <1>m, <1>n, Channels DEF NotFromFuture, wtime
    <2>0. Sent(o)' = Sent(o) /\ Sent(o) <= now + Offset[o] /\ Sent(o) \in Int
      BY <1>b, <1>e, <1>k, <1>n DEF Sent, NotFromFuture, wtime
    <2>t. TrueDiff(o) <= (now + Offset[p]) - Sent(o)
      BY <2>0, <1>b, <1>n DEF TrueDiff
    <2>2. Causality(o)'
      BY <2>t, <2>0, <1>a, <1>b, <1>c, <1>d, <1>e, <1>k, <1>m, <1>n, Channels
      DEF Knowledge, NotFromFuture, Causality, After, Awaits, TrueDiff, wtime, Ended
    <2>3. LowerBound(o)' /\ UpperBound(o)' /\ Recorded(o)'
      BY <1>a, <1>b, <1>e
      DEF Knowledge, LowerBound, UpperBound, Recorded, HasWindow, TrueDiff
    <2> QED BY <2>1, <2>2, <2>3 DEF Knowledge
  <1> QED BY <1>1, <1>2, <1>3, <1>4, Partners DEF IInv, o

\* FirstSend keeps the invariant.
LEMMA FirstSendInv == ASSUME IInv, NEW p \in Proc, FirstSend(p) PROVE IInv'
  <1> DEFINE o == Other(p)
  <1>a. TypeOK /\ Control /\ Knowledge(p) /\ Knowledge(o)
    BY Partners DEF IInv
  <1>b. o \in Proc /\ o # p /\ Other(o) = p /\ Other(p) = o
    BY Partners
  <1>c. (p = "p1" /\ o = "p2") \/ (p = "p2" /\ o = "p1")
    BY DEF Proc, Other
  <1>d. /\ pc[p] = "first_send"
        /\ net[p] = << >> /\ net[o] = << >> /\ pc[o] = "first_recv"
    <2>1. CASE p = "p1"
      BY <1>a, <2>1 DEF FirstSend, At, Recv, Control, Empty, MessageFor, Ended, Proc, Other, invalid_time
    <2>2. CASE p = "p2"
      BY <1>a, <2>2 DEF FirstSend, At, Recv, Control, Empty, MessageFor, Ended, Proc, Other, invalid_time
    <2> QED BY <1>c, <2>1, <2>2
  <1> HIDE DEF o
  <1>e. /\ pc'[p] = IF p = "p1" THEN "first_recv" ELSE "second_recv"
        /\ pc'[o] = pc[o]
        /\ net'[o] = <<my_last_time[p]>> /\ net'[p] = << >>
        /\ UNCHANGED <<now, round, i, my_time, my_last_time, other_time,
                      td_min, td_max, ping_pong_min_time, tds>>
    BY <1>a, <1>b, <1>d, Channels DEF TypeOK, wtime, invalid_time, FirstSend, Goto, Send, locals, results
  <1>n. /\ now \in Nat /\ Offset[p] \in Nat /\ Offset[o] \in Nat
        /\ my_time[p] \in Int /\ my_last_time[p] \in Int /\ other_time[p] \in Int
        /\ my_time[o] \in Int /\ my_last_time[o] \in Int /\ other_time[o] \in Int
        /\ td_min[p] \in Int /\ td_max[p] \in Int
        /\ ping_pong_min_time[p] \in Int /\ tds[p] \in Int
    BY <1>a, <1>b, ClocksNonNegative DEF TypeOK
  <1>w. wtime(p) \in Int /\ other_time[p] - wtime(p) \in Int
    BY <1>n DEF wtime
  <1>m. net[p] # << >> => Head(net[p]) \in Int
    BY <1>a DEF TypeOK
  <1>1. TypeOK'
    <2>1. now' \in Nat /\ round' \in Nat /\ pc' \in [Proc -> Points]
      BY <1>a DEF TypeOK, Points, FirstSend, Goto, Send, locals, results
    <2>2. net' \in [Proc -> Seq(Int)]
      BY <1>a, <1>b, <1>d, <1>n DEF TypeOK, FirstSend, Goto, Send, locals, results
    <2>3. i' \in [Proc -> Nat] /\ other_time' \in [Proc -> Int]
      BY <1>a, <1>d, <1>m DEF TypeOK, FirstSend, Goto, Send, locals, results
    <2>4. my_time' \in [Proc -> Int] /\ my_last_time' \in [Proc -> Int]
      BY <1>a, <1>n, <1>w DEF TypeOK, FirstSend, locals, results
    <2>5. td_min' \in [Proc -> Int] /\ td_max' \in [Proc -> Int]
      BY <1>a, <1>n, <1>w DEF TypeOK, FirstSend, locals, results
    <2>6. ping_pong_min_time' \in [Proc -> Int] /\ tds' \in [Proc -> Int]
      BY <1>a, <1>n DEF TypeOK, FirstSend, locals, results
    <2> QED BY <2>1, <2>2, <2>3, <2>4, <2>5, <2>6 DEF TypeOK
  <1>k. NotFromFuture(p) /\ NotFromFuture(o)
    BY <1>a DEF Knowledge
  <1>2. Control'
    <2>1. CASE p = "p1" /\ o = "p2"
      BY <1>d, <1>e, <1>k, <1>m, <1>n, <2>1, Channels
      DEF NotFromFuture, Control, Empty, MessageFor, Ended, Proc, Other, invalid_time
    <2>2. CASE p = "p2" /\ o = "p1"
      BY <1>d, <1>e, <1>k, <1>m, <1>n, <2>2, Channels
      DEF NotFromFuture, Control, Empty, MessageFor, Ended, Proc, Other, invalid_time
    <2> QED BY <1>c, <2>1, <2>2
  <1>3. Knowledge(p)'
    <2>1. NotFromFuture(p)'
      BY <1>b, <1>d, <1>e, <1>k, <1>m, <1>n, Channels DEF NotFromFuture, wtime
    <2>2. Causality(p)'
      BY <1>a, <1>b, <1>c, <1>d, <1>e, <1>k, <1>m, <1>n, Channels
      DEF Knowledge, NotFromFuture, Causality, Sent, After, Awaits, TrueDiff, wtime, Ended
    <2>3. LowerBound(p)'
      BY <1>a, <1>b, <1>c, <1>d, <1>e, <1>k, <1>n
      DEF Knowledge, NotFromFuture, LowerBound, HasWindow, TrueDiff, wtime, fmax2, fmin2
    <2>4. UpperBound(p)'
      BY <1>a, <1>b, <1>d, <1>e, <1>n
      DEF Knowledge, Causality, Sent, After, UpperBound, HasWindow, TrueDiff, fmax2, fmin2
    <2>5. Recorded(p)'
      BY <1>a, <1>b, <1>d, <1>e, <1>n
      DEF Knowledge, LowerBound, UpperBound, Recorded, HasWindow, TrueDiff, fmax2, fmin2
    <2> QED BY <2>1, <2>2, <2>3, <2>4, <2>5 DEF Knowledge
  <1>4. Knowledge(o)'
    <2>1. NotFromFuture(o)'
      BY <1>b, <1>d, <1>e, <1>k, <1>m, <1>n, Channels DEF NotFromFuture, wtime
    <2>0. Sent(o)' = Sent(o) /\ Sent(o) <= now + Offset[o] /\ Sent(o) \in Int
      BY <1>b, <1>e, <1>k, <1>n DEF Sent, NotFromFuture, wtime
    <2>2. Causality(o)'
      BY <2>0, <1>a, <1>b, <1>c, <1>d, <1>e, <1>k, <1>m, <1>n, Channels
      DEF Knowledge, NotFromFuture, Causality, After, Awaits, TrueDiff, wtime, Ended
    <2>3. LowerBound(o)' /\ UpperBound(o)' /\ Recorded(o)'
      BY <1>a, <1>b, <1>e
      DEF Knowledge, LowerBound, UpperBound, Recorded, HasWindow, TrueDiff
    <2> QED BY <2>1, <2>2, <2>3 DEF Knowledge
  <1> QED BY <1>1, <1>2, <1>3, <1>4, Partners DEF IInv, o

\* FirstRecv keeps the invariant.
LEMMA FirstRecvInv == ASSUME IInv, NEW p \in Proc, FirstRecv(p) PROVE IInv'
  <1> DEFINE o == Other(p)
  <1>a. TypeOK /\ Control /\ Knowledge(p) /\ Knowledge(o)
    BY Partners DEF IInv
  <1>b. o \in Proc /\ o # p /\ Other(o) = p /\ Other(p) = o
    BY Partners
  <1>c. (p = "p1" /\ o = "p2") \/ (p = "p2" /\ o = "p1")
    BY DEF Proc, Other
  <1>d. /\ pc[p] = "first_recv"
        /\ net[p] = <<Head(net[p])>> /\ net[o] = << >> /\ Head(net[p]) >= 0
        /\ pc[o] = IF p = "p1" THEN "second_recv" ELSE "first_recv"
    <2>1. CASE p = "p1"
      BY <1>a, <2>1 DEF FirstRecv, At, Recv, Control, Empty, MessageFor, Ended, Proc, Other, invalid_time
    <2>2. CASE p = "p2"
      BY <1>a, <2>2 DEF FirstRecv, At, Recv, Control, Empty, MessageFor, Ended, Proc, Other, invalid_time
    <2> QED BY <1>c, <2>1, <2>2
  <1> HIDE DEF o
  <1>e. /\ pc'[p] = IF p = "p1" THEN "first_bounds" ELSE "first_clock"
        /\ pc'[o] = pc[o]
        /\ net'[p] = << >> /\ net'[o] = << >>
        /\ other_time'[p] = Head(net[p]) /\ other_time'[o] = other_time[o]
        /\ UNCHANGED <<now, round, i, my_time, my_last_time, td_min,
                      td_max, ping_pong_min_time, tds>>
    BY <1>a, <1>b, <1>d, Channels DEF TypeOK, wtime, invalid_time, FirstRecv, Goto, Recv, locals, results
  <1>n. /\ now \in Nat /\ Offset[p] \in Nat /\ Offset[o] \in Nat
        /\ my_time[p] \in Int /\ my_last_time[p] \in Int /\ other_time[p] \in Int
        /\ my_time[o] \in Int /\ my_last_time[o] \in Int /\ other_time[o] \in Int
        /\ td_min[p] \in Int /\ td_max[p] \in Int
        /\ ping_pong_min_time[p] \in Int /\ tds[p] \in Int
    BY <1>a, <1>b, ClocksNonNegative DEF TypeOK
  <1>w. wtime(p) \in Int /\ other_time[p] - wtime(p) \in Int
    BY <1>n DEF wtime
  <1>m. net[p] # << >> => Head(net[p]) \in Int
    BY <1>a DEF TypeOK
  <1>1. TypeOK'
    <2>1. now' \in Nat /\ round' \in Nat /\ pc' \in [Proc -> Points]
      BY <1>a DEF TypeOK, Points, FirstRecv, Goto, Recv, locals, results
    <2>2. net' \in [Proc -> Seq(Int)]
      BY <1>a, <1>b, <1>d, <1>n DEF TypeOK, FirstRecv, Goto, Recv, locals, results
    <2>3. i' \in [Proc -> Nat] /\ other_time' \in [Proc -> Int]
      BY <1>a, <1>d, <1>m DEF TypeOK, FirstRecv, Goto, Recv, locals, results
    <2>4. my_time' \in [Proc -> Int] /\ my_last_time' \in [Proc -> Int]
      BY <1>a, <1>n, <1>w DEF TypeOK, FirstRecv, locals, results
    <2>5. td_min' \in [Proc -> Int] /\ td_max' \in [Proc -> Int]
      BY <1>a, <1>n, <1>w DEF TypeOK, FirstRecv, locals, results
    <2>6. ping_pong_min_time' \in [Proc -> Int] /\ tds' \in [Proc -> Int]
      BY <1>a, <1>n DEF TypeOK, FirstRecv, locals, results
    <2> QED BY <2>1, <2>2, <2>3, <2>4, <2>5, <2>6 DEF TypeOK
  <1>k. NotFromFuture(p) /\ NotFromFuture(o)
    BY <1>a DEF Knowledge
  <1>2. Control'
    <2>1. CASE p = "p1" /\ o = "p2"
      BY <1>d, <1>e, <1>k, <1>m, <1>n, <2>1, Channels
      DEF NotFromFuture, Control, Empty, MessageFor, Ended, Proc, Other, invalid_time
    <2>2. CASE p = "p2" /\ o = "p1"
      BY <1>d, <1>e, <1>k, <1>m, <1>n, <2>2, Channels
      DEF NotFromFuture, Control, Empty, MessageFor, Ended, Proc, Other, invalid_time
    <2> QED BY <1>c, <2>1, <2>2
  <1>3. Knowledge(p)'
    <2>1. NotFromFuture(p)'
      BY <1>b, <1>d, <1>e, <1>k, <1>m, <1>n, Channels DEF NotFromFuture, wtime
    <2>2. Causality(p)'
      BY <1>a, <1>b, <1>c, <1>d, <1>e, <1>k, <1>m, <1>n, Channels
      DEF Knowledge, NotFromFuture, Causality, Sent, After, Awaits, TrueDiff, wtime, Ended
    <2>3. LowerBound(p)'
      BY <1>a, <1>b, <1>c, <1>d, <1>e, <1>k, <1>n
      DEF Knowledge, NotFromFuture, LowerBound, HasWindow, TrueDiff, wtime, fmax2, fmin2
    <2>4. UpperBound(p)'
      BY <1>a, <1>b, <1>d, <1>e, <1>n
      DEF Knowledge, Causality, Sent, After, UpperBound, HasWindow, TrueDiff, fmax2, fmin2
    <2>5. Recorded(p)'
      BY <1>a, <1>b, <1>d, <1>e, <1>n
      DEF Knowledge, LowerBound, UpperBound, Recorded, HasWindow, TrueDiff, fmax2, fmin2
    <2> QED BY <2>1, <2>2, <2>3, <2>4, <2>5 DEF Knowledge
  <1>4. Knowledge(o)'
    <2>1. NotFromFuture(o)'
      BY <1>b, <1>d, <1>e, <1>k, <1>m, <1>n, Channels DEF NotFromFuture, wtime
    <2>0. Sent(o)' = Sent(o) /\ Sent(o) <= now + Offset[o] /\ Sent(o) \in Int
      BY <1>b, <1>e, <1>k, <1>n DEF Sent, NotFromFuture, wtime
    <2>2. Causality(o)'
      BY <2>0, <1>a, <1>b, <1>c, <1>d, <1>e, <1>k, <1>m, <1>n, Channels
      DEF Knowledge, NotFromFuture, Causality, After, Awaits, TrueDiff, wtime, Ended
    <2>3. LowerBound(o)' /\ UpperBound(o)' /\ Recorded(o)'
      BY <1>a, <1>b, <1>e
      DEF Knowledge, LowerBound, UpperBound, Recorded, HasWindow, TrueDiff
    <2> QED BY <2>1, <2>2, <2>3 DEF Knowledge
  <1> QED BY <1>1, <1>2, <1>3, <1>4, Partners DEF IInv, o

\* SecondRecv keeps the invariant.
LEMMA SecondRecvInv == ASSUME IInv, NEW p \in Proc, SecondRecv(p) PROVE IInv'
  <1> DEFINE o == Other(p)
  <1>a. TypeOK /\ Control /\ Knowledge(p) /\ Knowledge(o)
    BY Partners DEF IInv
  <1>b. o \in Proc /\ o # p /\ Other(o) = p /\ Other(p) = o
    BY Partners
  <1>c. (p = "p1" /\ o = "p2") \/ (p = "p2" /\ o = "p1")
    BY DEF Proc, Other
  <1>d. /\ pc[p] = "second_recv"
        /\ net[p] = <<Head(net[p])>> /\ net[o] = << >> /\ Head(net[p]) >= 0
        /\ pc[o] = "recv" /\ p = "p2"
    <2>1. CASE p = "p1"
      BY <1>a, <2>1 DEF SecondRecv, At, Recv, Control, Empty, MessageFor, Ended, Proc, Other, invalid_time
    <2>2. CASE p = "p2"
      BY <1>a, <2>2 DEF SecondRecv, At, Recv, Control, Empty, MessageFor, Ended, Proc, Other, invalid_time
    <2> QED BY <1>c, <2>1, <2>2
  <1> HIDE DEF o
  <1>e. /\ pc'[p] = "first_bounds" /\ pc'[o] = pc[o]
        /\ net'[p] = << >> /\ net'[o] = << >>
        /\ other_time'[p] = Head(net[p]) /\ other_time'[o] = other_time[o]
        /\ UNCHANGED <<now, round, i, my_time, my_last_time, td_min,
                      td_max, ping_pong_min_time, tds>>
    BY <1>a, <1>b, <1>d, Channels DEF TypeOK, wtime, invalid_time, SecondRecv, Goto, Recv, locals, results
  <1>n. /\ now \in Nat /\ Offset[p] \in Nat /\ Offset[o] \in Nat
        /\ my_time[p] \in Int /\ my_last_time[p] \in Int /\ other_time[p] \in Int
        /\ my_time[o] \in Int /\ my_last_time[o] \in Int /\ other_time[o] \in Int
        /\ td_min[p] \in Int /\ td_max[p] \in Int
        /\ ping_pong_min_time[p] \in Int /\ tds[p] \in Int
    BY <1>a, <1>b, ClocksNonNegative DEF TypeOK
  <1>w. wtime(p) \in Int /\ other_time[p] - wtime(p) \in Int
    BY <1>n DEF wtime
  <1>m. net[p] # << >> => Head(net[p]) \in Int
    BY <1>a DEF TypeOK
  <1>1. TypeOK'
    <2>1. now' \in Nat /\ round' \in Nat /\ pc' \in [Proc -> Points]
      BY <1>a DEF TypeOK, Points, SecondRecv, Goto, Recv, locals, results
    <2>2. net' \in [Proc -> Seq(Int)]
      BY <1>a, <1>b, <1>d, <1>n DEF TypeOK, SecondRecv, Goto, Recv, locals, results
    <2>3. i' \in [Proc -> Nat] /\ other_time' \in [Proc -> Int]
      BY <1>a, <1>d, <1>m DEF TypeOK, SecondRecv, Goto, Recv, locals, results
    <2>4. my_time' \in [Proc -> Int] /\ my_last_time' \in [Proc -> Int]
      BY <1>a, <1>n, <1>w DEF TypeOK, SecondRecv, locals, results
    <2>5. td_min' \in [Proc -> Int] /\ td_max' \in [Proc -> Int]
      BY <1>a, <1>n, <1>w DEF TypeOK, SecondRecv, locals, results
    <2>6. ping_pong_min_time' \in [Proc -> Int] /\ tds' \in [Proc -> Int]
      BY <1>a, <1>n DEF TypeOK, SecondRecv, locals, results
    <2> QED BY <2>1, <2>2, <2>3, <2>4, <2>5, <2>6 DEF TypeOK
  <1>k. NotFromFuture(p) /\ NotFromFuture(o)
    BY <1>a DEF Knowledge
  <1>2. Control'
    <2>1. CASE p = "p1" /\ o = "p2"
      BY <1>d, <1>e, <1>k, <1>m, <1>n, <2>1, Channels
      DEF NotFromFuture, Control, Empty, MessageFor, Ended, Proc, Other, invalid_time
    <2>2. CASE p = "p2" /\ o = "p1"
      BY <1>d, <1>e, <1>k, <1>m, <1>n, <2>2, Channels
      DEF NotFromFuture, Control, Empty, MessageFor, Ended, Proc, Other, invalid_time
    <2> QED BY <1>c, <2>1, <2>2
  <1>3. Knowledge(p)'
    <2>1. NotFromFuture(p)'
      BY <1>b, <1>d, <1>e, <1>k, <1>m, <1>n, Channels DEF NotFromFuture, wtime
    <2>2. Causality(p)'
      BY <1>a, <1>b, <1>c, <1>d, <1>e, <1>k, <1>m, <1>n, Channels
      DEF Knowledge, NotFromFuture, Causality, Sent, After, Awaits, TrueDiff, wtime, Ended
    <2>3. LowerBound(p)'
      BY <1>a, <1>b, <1>c, <1>d, <1>e, <1>k, <1>n
      DEF Knowledge, NotFromFuture, LowerBound, HasWindow, TrueDiff, wtime, fmax2, fmin2
    <2>4. UpperBound(p)'
      BY <1>a, <1>b, <1>d, <1>e, <1>n
      DEF Knowledge, Causality, Sent, After, UpperBound, HasWindow, TrueDiff, fmax2, fmin2
    <2>5. Recorded(p)'
      BY <1>a, <1>b, <1>d, <1>e, <1>n
      DEF Knowledge, LowerBound, UpperBound, Recorded, HasWindow, TrueDiff, fmax2, fmin2
    <2> QED BY <2>1, <2>2, <2>3, <2>4, <2>5 DEF Knowledge
  <1>4. Knowledge(o)'
    <2>1. NotFromFuture(o)'
      BY <1>b, <1>d, <1>e, <1>k, <1>m, <1>n, Channels DEF NotFromFuture, wtime
    <2>0. Sent(o)' = Sent(o) /\ Sent(o) <= now + Offset[o] /\ Sent(o) \in Int
      BY <1>b, <1>e, <1>k, <1>n DEF Sent, NotFromFuture, wtime
    <2>2. Causality(o)'
      BY <2>0, <1>a, <1>b, <1>c, <1>d, <1>e, <1>k, <1>m, <1>n, Channels
      DEF Knowledge, NotFromFuture, Causality, After, Awaits, TrueDiff, wtime, Ended
    <2>3. LowerBound(o)' /\ UpperBound(o)' /\ Recorded(o)'
      BY <1>a, <1>b, <1>e
      DEF Knowledge, LowerBound, UpperBound, Recorded, HasWindow, TrueDiff
    <2> QED BY <2>1, <2>2, <2>3 DEF Knowledge
  <1> QED BY <1>1, <1>2, <1>3, <1>4, Partners DEF IInv, o

\* FirstBounds keeps the invariant.
LEMMA FirstBoundsInv == ASSUME IInv, NEW p \in Proc, FirstBounds(p) PROVE IInv'
  <1> DEFINE o == Other(p)
  <1>a. TypeOK /\ Control /\ Knowledge(p) /\ Knowledge(o)
    BY Partners DEF IInv
  <1>b. o \in Proc /\ o # p /\ Other(o) = p /\ Other(p) = o
    BY Partners
  <1>c. (p = "p1" /\ o = "p2") \/ (p = "p2" /\ o = "p1")
    BY DEF Proc, Other
  <1>d. /\ pc[p] = "first_bounds"
        /\ net[p] = << >> /\ net[o] = << >>
        /\ pc[o] = IF p = "p1" THEN "second_recv" ELSE "recv"
    <2>1. CASE p = "p1"
      BY <1>a, <2>1 DEF FirstBounds, At, Recv, Control, Empty, MessageFor, Ended, Proc, Other, invalid_time
    <2>2. CASE p = "p2"
      BY <1>a, <2>2 DEF FirstBounds, At, Recv, Control, Empty, MessageFor, Ended, Proc, Other, invalid_time
    <2> QED BY <1>c, <2>1, <2>2
  <1> HIDE DEF o
  <1>e. /\ pc'[p] = "send" /\ pc'[o] = pc[o]
        /\ i'[p] = 1 /\ i'[o] = i[o]
        /\ my_time'[p] = now + Offset[p] /\ my_time'[o] = my_time[o]
        /\ td_min'[p] = IF p = "p1" THEN other_time[p] - (now + Offset[p])
                      ELSE fmax2(td_min[p], other_time[p] - (now + Offset[p]))
        /\ td_min'[o] = td_min[o]
        /\ td_max'[p] = other_time[p] - my_last_time[p]
        /\ td_max'[o] = td_max[o]
        /\ UNCHANGED <<now, round, net, my_last_time, other_time,
                      ping_pong_min_time, tds>>
    BY <1>a, <1>b, <1>d, Channels DEF TypeOK, wtime, invalid_time, FirstBounds, Goto, fmax2, locals, results
  <1>n. /\ now \in Nat /\ Offset[p] \in Nat /\ Offset[o] \in Nat
        /\ my_time[p] \in Int /\ my_last_time[p] \in Int /\ other_time[p] \in Int
        /\ my_time[o] \in Int /\ my_last_time[o] \in Int /\ other_time[o] \in Int
        /\ td_min[p] \in Int /\ td_max[p] \in Int
        /\ ping_pong_min_time[p] \in Int /\ tds[p] \in Int
    BY <1>a, <1>b, ClocksNonNegative DEF TypeOK
  <1>w. wtime(p) \in Int /\ other_time[p] - wtime(p) \in Int
    BY <1>n DEF wtime
  <1>x. /\ fmax2(td_min[p], other_time[p] - wtime(p)) \in Int
        /\ other_time[p] - my_last_time[p] \in Int
    BY <1>n, <1>w DEF fmax2
  <1>m. net[p] # << >> => Head(net[p]) \in Int
    BY <1>a DEF TypeOK
  <1>1. TypeOK'
    <2>1. now' \in Nat /\ round' \in Nat /\ pc' \in [Proc -> Points]
      BY <1>a DEF TypeOK, Points, FirstBounds, Goto, fmax2, locals, results
    <2>2. net' \in [Proc -> Seq(Int)]
      BY <1>a, <1>b, <1>d, <1>n DEF TypeOK, FirstBounds, Goto, fmax2, locals, results
    <2>3. i' \in [Proc -> Nat] /\ other_time' \in [Proc -> Int]
      BY <1>a, <1>d, <1>m, <1>x DEF TypeOK, FirstBounds, Goto, fmax2, locals, results
    <2>4. my_time' \in [Proc -> Int] /\ my_last_time' \in [Proc -> Int]
      BY <1>a, <1>n, <1>w, <1>x DEF TypeOK, FirstBounds, locals, results
    <2>5. td_min' \in [Proc -> Int] /\ td_max' \in [Proc -> Int]
      BY <1>a, <1>n, <1>w, <1>x DEF TypeOK, FirstBounds, locals, results
    <2>6. ping_pong_min_time' \in [Proc -> Int] /\ tds' \in [Proc -> Int]
      BY <1>a, <1>n, <1>x DEF TypeOK, FirstBounds, locals, results
    <2> QED BY <2>1, <2>2, <2>3, <2>4, <2>5, <2>6 DEF TypeOK
  <1>k. NotFromFuture(p) /\ NotFromFuture(o)
    BY <1>a DEF Knowledge
  <1>2. Control'
    <2>1. CASE p = "p1" /\ o = "p2"
      BY <1>d, <1>e, <1>k, <1>m, <1>n, <2>1, Channels
      DEF NotFromFuture, Control, Empty, MessageFor, Ended, Proc, Other, invalid_time
    <2>2. CASE p = "p2" /\ o = "p1"
      BY <1>d, <1>e, <1>k, <1>m, <1>n, <2>2, Channels
      DEF NotFromFuture, Control, Empty, MessageFor, Ended, Proc, Other, invalid_time
    <2> QED BY <1>c, <2>1, <2>2
  <1>3. Knowledge(p)'
    <2>1. NotFromFuture(p)'
      BY <1>b, <1>d, <1>e, <1>k, <1>m, <1>n, Channels, SMTT(30) DEF NotFromFuture, wtime
    <2>2. Causality(p)'
      BY <1>a, <1>b, <1>c, <1>d, <1>e, <1>k, <1>m, <1>n, Channels
      DEF Knowledge, NotFromFuture, Causality, Sent, After, Awaits, TrueDiff, wtime, Ended
    <2>3. LowerBound(p)'
      BY <1>a, <1>b, <1>c, <1>d, <1>e, <1>k, <1>n, SMTT(30)
      DEF Knowledge, NotFromFuture, LowerBound, HasWindow, TrueDiff, wtime, fmax2, fmin2
    <2>4. UpperBound(p)'
      BY <1>a, <1>b, <1>d, <1>e, <1>n
      DEF Knowledge, Causality, Sent, After, UpperBound, HasWindow, TrueDiff, fmax2, fmin2
    <2>5. Recorded(p)'
      BY <1>a, <1>b, <1>d, <1>e, <1>n
      DEF Knowledge, LowerBound, UpperBound, Recorded, HasWindow, TrueDiff, fmax2, fmin2
    <2> QED BY <2>1, <2>2, <2>3, <2>4, <2>5 DEF Knowledge
  <1>4. Knowledge(o)'
    <2>1. NotFromFuture(o)'
      BY <1>b, <1>d, <1>e, <1>k, <1>m, <1>n, Channels DEF NotFromFuture, wtime
    <2>0. Sent(o)' = Sent(o) /\ Sent(o) <= now + Offset[o] /\ Sent(o) \in Int
      BY <1>b, <1>e, <1>k, <1>n DEF Sent, NotFromFuture, wtime
    <2>t. TrueDiff(o) <= (now + Offset[p]) - Sent(o)
      BY <2>0, <1>b, <1>n DEF TrueDiff
    <2>2. Causality(o)'
      BY <2>t, <2>0, <1>a, <1>b, <1>c, <1>d, <1>e, <1>k, <1>m, <1>n, Channels
      DEF Knowledge, NotFromFuture, Causality, After, Awaits, TrueDiff, wtime, Ended
    <2>3. LowerBound(o)' /\ UpperBound(o)' /\ Recorded(o)'
      BY <1>a, <1>b, <1>e
      DEF Knowledge, LowerBound, UpperBound, Recorded, HasWindow, TrueDiff
    <2> QED BY <2>1, <2>2, <2>3 DEF Knowledge
  <1> QED BY <1>1, <1>2, <1>3, <1>4, Partners DEF IInv, o

\* SendTime keeps the invariant.
LEMMA SendTimeInv == ASSUME IInv, NEW p \in Proc, SendTime(p) PROVE IInv'
  <1> DEFINE o == Other(p)
  <1>a. TypeOK /\ Control /\ Knowledge(p) /\ Knowledge(o)
    BY Partners DEF IInv
  <1>b. o \in Proc /\ o # p /\ Other(o) = p /\ Other(p) = o
    BY Partners
  <1>c. (p = "p1" /\ o = "p2") \/ (p = "p2" /\ o = "p1")
    BY DEF Proc, Other
  <1>d. /\ pc[p] = "send"
        /\ net[p] = << >> /\ net[o] = << >>
        /\ pc[o] = "recv" \/ (p = "p1" /\ pc[o] = "second_recv")
    <2>1. CASE p = "p1"
      BY <1>a, <2>1 DEF SendTime, At, Recv, Control, Empty, MessageFor, Ended, Proc, Other, invalid_time
    <2>2. CASE p = "p2"
      BY <1>a, <2>2 DEF SendTime, At, Recv, Control, Empty, MessageFor, Ended, Proc, Other, invalid_time
    <2> QED BY <1>c, <2>1, <2>2
  <1> HIDE DEF o
  <1>e. /\ pc'[p] = "recv" /\ pc'[o] = pc[o]
        /\ net'[o] = <<my_time[p]>> /\ net'[p] = << >>
        /\ UNCHANGED <<now, round, i, my_time, my_last_time, other_time,
                      td_min, td_max, ping_pong_min_time, tds>>
    BY <1>a, <1>b, <1>d, Channels DEF TypeOK, wtime, invalid_time, SendTime, Goto, Send, locals, results
  <1>n. /\ now \in Nat /\ Offset[p] \in Nat /\ Offset[o] \in Nat
        /\ my_time[p] \in Int /\ my_last_time[p] \in Int /\ other_time[p] \in Int
        /\ my_time[o] \in Int /\ my_last_time[o] \in Int /\ other_time[o] \in Int
        /\ td_min[p] \in Int /\ td_max[p] \in Int
        /\ ping_pong_min_time[p] \in Int /\ tds[p] \in Int
    BY <1>a, <1>b, ClocksNonNegative DEF TypeOK
  <1>w. wtime(p) \in Int /\ other_time[p] - wtime(p) \in Int
    BY <1>n DEF wtime
  <1>m. net[p] # << >> => Head(net[p]) \in Int
    BY <1>a DEF TypeOK
  <1>1. TypeOK'
    <2>1. now' \in Nat /\ round' \in Nat /\ pc' \in [Proc -> Points]
      BY <1>a DEF TypeOK, Points, SendTime, Goto, Send, locals, results
    <2>2. net' \in [Proc -> Seq(Int)]
      BY <1>a, <1>b, <1>d, <1>n DEF TypeOK, SendTime, Goto, Send, locals, results
    <2>3. i' \in [Proc -> Nat] /\ other_time' \in [Proc -> Int]
      BY <1>a, <1>d, <1>m DEF TypeOK, SendTime, Goto, Send, locals, results
    <2>4. my_time' \in [Proc -> Int] /\ my_last_time' \in [Proc -> Int]
      BY <1>a, <1>n, <1>w DEF TypeOK, SendTime, locals, results
    <2>5. td_min' \in [Proc -> Int] /\ td_max' \in [Proc -> Int]
      BY <1>a, <1>n, <1>w DEF TypeOK, SendTime, locals, results
    <2>6. ping_pong_min_time' \in [Proc -> Int] /\ tds' \in [Proc -> Int]
      BY <1>a, <1>n DEF TypeOK, SendTime, locals, results
    <2> QED BY <2>1, <2>2, <2>3, <2>4, <2>5, <2>6 DEF TypeOK
  <1>k. NotFromFuture(p) /\ NotFromFuture(o)
    BY <1>a DEF Knowledge
  <1>2. Control'
    <2>1. CASE p = "p1" /\ o = "p2"
      BY <1>d, <1>e, <1>k, <1>m, <1>n, <2>1, Channels
      DEF NotFromFuture, Control, Empty, MessageFor, Ended, Proc, Other, invalid_time
    <2>2. CASE p = "p2" /\ o = "p1"
      BY <1>d, <1>e, <1>k, <1>m, <1>n, <2>2, Channels
      DEF NotFromFuture, Control, Empty, MessageFor, Ended, Proc, Other, invalid_time
    <2> QED BY <1>c, <2>1, <2>2
  <1>3. Knowledge(p)'
    <2>1. NotFromFuture(p)'
      BY <1>b, <1>d, <1>e, <1>k, <1>m, <1>n, Channels DEF NotFromFuture, wtime
    <2>2. Causality(p)'
      BY <1>a, <1>b, <1>c, <1>d, <1>e, <1>k, <1>m, <1>n, Channels
      DEF Knowledge, NotFromFuture, Causality, Sent, After, Awaits, TrueDiff, wtime, Ended
    <2>3. LowerBound(p)'
      BY <1>a, <1>b, <1>c, <1>d, <1>e, <1>k, <1>n
      DEF Knowledge, NotFromFuture, LowerBound, HasWindow, TrueDiff, wtime, fmax2, fmin2
    <2>4. UpperBound(p)'
      BY <1>a, <1>b, <1>d, <1>e, <1>n
      DEF Knowledge, Causality, Sent, After, UpperBound, HasWindow, TrueDiff, fmax2, fmin2
    <2>5. Recorded(p)'
      BY <1>a, <1>b, <1>d, <1>e, <1>n
      DEF Knowledge, LowerBound, UpperBound, Recorded, HasWindow, TrueDiff, fmax2, fmin2
    <2> QED BY <2>1, <2>2, <2>3, <2>4, <2>5 DEF Knowledge
  <1>4. Knowledge(o)'
    <2>1. NotFromFuture(o)'
      BY <1>b, <1>d, <1>e, <1>k, <1>m, <1>n, Channels DEF NotFromFuture, wtime
    <2>0. Sent(o)' = Sent(o) /\ Sent(o) <= now + Offset[o] /\ Sent(o) \in Int
      BY <1>b, <1>e, <1>k, <1>n DEF Sent, NotFromFuture, wtime
    <2>2. Causality(o)'
      BY <2>0, <1>a, <1>b, <1>c, <1>d, <1>e, <1>k, <1>m, <1>n, Channels
      DEF Knowledge, NotFromFuture, Causality, After, Awaits, TrueDiff, wtime, Ended
    <2>3. LowerBound(o)' /\ UpperBound(o)' /\ Recorded(o)'
      BY <1>a, <1>b, <1>e
      DEF Knowledge, LowerBound, UpperBound, Recorded, HasWindow, TrueDiff
    <2> QED BY <2>1, <2>2, <2>3 DEF Knowledge
  <1> QED BY <1>1, <1>2, <1>3, <1>4, Partners DEF IInv, o

\* RecvTime keeps the invariant.
LEMMA RecvTimeInv == ASSUME IInv, NEW p \in Proc, RecvTime(p) PROVE IInv'
  <1> DEFINE o == Other(p)
  <1>a. TypeOK /\ Control /\ Knowledge(p) /\ Knowledge(o)
    BY Partners DEF IInv
  <1>b. o \in Proc /\ o # p /\ Other(o) = p /\ Other(p) = o
    BY Partners
  <1>c. (p = "p1" /\ o = "p2") \/ (p = "p2" /\ o = "p1")
    BY DEF Proc, Other
  <1>d. /\ pc[p] = "recv"
        /\ net[p] = <<Head(net[p])>> /\ net[o] = << >>
        /\ \/ Head(net[p]) >= 0 /\ pc[o] = "recv"
           \/ Head(net[p]) = -1 /\ pc[o] \in Ended
    <2>1. CASE p = "p1"
      BY <1>a, <2>1 DEF RecvTime, At, Recv, Control, Empty, MessageFor, Ended, Proc, Other, invalid_time
    <2>2. CASE p = "p2"
      BY <1>a, <2>2 DEF RecvTime, At, Recv, Control, Empty, MessageFor, Ended, Proc, Other, invalid_time
    <2> QED BY <1>c, <2>1, <2>2
  <1> HIDE DEF o
  <1>e. /\ pc'[p] = IF Head(net[p]) < 0 THEN "finish" ELSE "bounds"
        /\ pc'[o] = pc[o]
        /\ net'[p] = << >> /\ net'[o] = << >>
        /\ other_time'[p] = Head(net[p]) /\ other_time'[o] = other_time[o]
        /\ UNCHANGED <<now, round, i, my_time, my_last_time, td_min,
                      td_max, ping_pong_min_time, tds>>
    BY <1>a, <1>b, <1>d, Channels DEF TypeOK, wtime, invalid_time, RecvTime, Goto, Recv, locals, results
  <1>n. /\ now \in Nat /\ Offset[p] \in Nat /\ Offset[o] \in Nat
        /\ my_time[p] \in Int /\ my_last_time[p] \in Int /\ other_time[p] \in Int
        /\ my_time[o] \in Int /\ my_last_time[o] \in Int /\ other_time[o] \in Int
        /\ td_min[p] \in Int /\ td_max[p] \in Int
        /\ ping_pong_min_time[p] \in Int /\ tds[p] \in Int
    BY <1>a, <1>b, ClocksNonNegative DEF TypeOK
  <1>w. wtime(p) \in Int /\ other_time[p] - wtime(p) \in Int
    BY <1>n DEF wtime
  <1>m. net[p] # << >> => Head(net[p]) \in Int
    BY <1>a DEF TypeOK
  <1>1. TypeOK'
    <2>1. now' \in Nat /\ round' \in Nat /\ pc' \in [Proc -> Points]
      BY <1>a DEF TypeOK, Points, RecvTime, Goto, Recv, locals, results
    <2>2. net' \in [Proc -> Seq(Int)]
      BY <1>a, <1>b, <1>d, <1>n DEF TypeOK, RecvTime, Goto, Recv, locals, results
    <2>3. i' \in [Proc -> Nat] /\ other_time' \in [Proc -> Int]
      BY <1>a, <1>d, <1>m DEF TypeOK, RecvTime, Goto, Recv, locals, results
    <2>4. my_time' \in [Proc -> Int] /\ my_last_time' \in [Proc -> Int]
      BY <1>a, <1>n, <1>w DEF TypeOK, RecvTime, locals, results
    <2>5. td_min' \in [Proc -> Int] /\ td_max' \in [Proc -> Int]
      BY <1>a, <1>n, <1>w DEF TypeOK, RecvTime, locals, results
    <2>6. ping_pong_min_time' \in [Proc -> Int] /\ tds' \in [Proc -> Int]
      BY <1>a, <1>n DEF TypeOK, RecvTime, locals, results
    <2> QED BY <2>1, <2>2, <2>3, <2>4, <2>5, <2>6 DEF TypeOK
  <1>k. NotFromFuture(p) /\ NotFromFuture(o)
    BY <1>a DEF Knowledge
  <1>2. Control'
    <2>1. CASE p = "p1" /\ o = "p2"
      BY <1>d, <1>e, <1>k, <1>m, <1>n, <2>1, Channels, SMTT(30)
      DEF NotFromFuture, Control, Empty, MessageFor, Ended, Proc, Other, invalid_time
    <2>2. CASE p = "p2" /\ o = "p1"
      BY <1>d, <1>e, <1>k, <1>m, <1>n, <2>2, Channels, SMTT(30)
      DEF NotFromFuture, Control, Empty, MessageFor, Ended, Proc, Other, invalid_time
    <2> QED BY <1>c, <2>1, <2>2
  <1>3. Knowledge(p)'
    <2>1. NotFromFuture(p)'
      BY <1>b, <1>d, <1>e, <1>k, <1>m, <1>n, Channels DEF NotFromFuture, wtime
    <2>2. Causality(p)'
      BY <1>a, <1>b, <1>c, <1>d, <1>e, <1>k, <1>m, <1>n, Channels
      DEF Knowledge, NotFromFuture, Causality, Sent, After, Awaits, TrueDiff, wtime, Ended
    <2>3. LowerBound(p)'
      BY <1>a, <1>b, <1>c, <1>d, <1>e, <1>k, <1>n
      DEF Knowledge, NotFromFuture, LowerBound, HasWindow, TrueDiff, wtime, fmax2, fmin2
    <2>4. UpperBound(p)'
      BY <1>a, <1>b, <1>d, <1>e, <1>n
      DEF Knowledge, Causality, Sent, After, UpperBound, HasWindow, TrueDiff, fmax2, fmin2
    <2>5. Recorded(p)'
      BY <1>a, <1>b, <1>d, <1>e, <1>n
      DEF Knowledge, LowerBound, UpperBound, Recorded, HasWindow, TrueDiff, fmax2, fmin2
    <2> QED BY <2>1, <2>2, <2>3, <2>4, <2>5 DEF Knowledge
  <1>4. Knowledge(o)'
    <2>1. NotFromFuture(o)'
      BY <1>b, <1>d, <1>e, <1>k, <1>m, <1>n, Channels DEF NotFromFuture, wtime
    <2>0. Sent(o)' = Sent(o) /\ Sent(o) <= now + Offset[o] /\ Sent(o) \in Int
      BY <1>b, <1>e, <1>k, <1>n DEF Sent, NotFromFuture, wtime
    <2>2. Causality(o)'
      BY <2>0, <1>a, <1>b, <1>c, <1>d, <1>e, <1>k, <1>m, <1>n, Channels
      DEF Knowledge, NotFromFuture, Causality, After, Awaits, TrueDiff, wtime, Ended
    <2>3. LowerBound(o)' /\ UpperBound(o)' /\ Recorded(o)'
      BY <1>a, <1>b, <1>e
      DEF Knowledge, LowerBound, UpperBound, Recorded, HasWindow, TrueDiff
    <2> QED BY <2>1, <2>2, <2>3 DEF Knowledge
  <1> QED BY <1>1, <1>2, <1>3, <1>4, Partners DEF IInv, o

\* Bounds keeps the invariant.
LEMMA BoundsInv == ASSUME IInv, NEW p \in Proc, Bounds(p) PROVE IInv'
  <1> DEFINE o == Other(p)
  <1>a. TypeOK /\ Control /\ Knowledge(p) /\ Knowledge(o)
    BY Partners DEF IInv
  <1>b. o \in Proc /\ o # p /\ Other(o) = p /\ Other(p) = o
    BY Partners
  <1>c. (p = "p1" /\ o = "p2") \/ (p = "p2" /\ o = "p1")
    BY DEF Proc, Other
  <1>d. /\ pc[p] = "bounds"
        /\ net[p] = << >> /\ net[o] = << >> /\ pc[o] = "recv"
    <2>1. CASE p = "p1"
      BY <1>a, <2>1 DEF Bounds, At, Recv, Control, Empty, MessageFor, Ended, Proc, Other, invalid_time
    <2>2. CASE p = "p2"
      BY <1>a, <2>2 DEF Bounds, At, Recv, Control, Empty, MessageFor, Ended, Proc, Other, invalid_time
    <2> QED BY <1>c, <2>1, <2>2
  <1> HIDE DEF o
  <1>e. /\ pc'[p] \in {"send", "send_invalid"} /\ pc'[o] = pc[o]
        /\ i'[p] \in Nat /\ i'[o] = i[o]
        /\ my_time'[p] = now + Offset[p] /\ my_time'[o] = my_time[o]
        /\ my_last_time'[p] = my_time[p] /\ my_last_time'[o] = my_last_time[o]
        /\ td_min'[p] = fmax2(td_min[p], other_time[p] - (now + Offset[p]))
        /\ td_min'[o] = td_min[o]
        /\ td_max'[p] = fmin2(td_max[p], other_time[p] - my_time[p])
        /\ td_max'[o] = td_max[o]
        /\ UNCHANGED <<now, round, net, other_time, ping_pong_min_time, tds>>
    BY <1>a, <1>b, <1>d, Channels, SMTT(30) DEF TypeOK, wtime, invalid_time, Bounds, Goto, fmax2, fmin2, locals, results
  <1>n. /\ now \in Nat /\ Offset[p] \in Nat /\ Offset[o] \in Nat
        /\ my_time[p] \in Int /\ my_last_time[p] \in Int /\ other_time[p] \in Int
        /\ my_time[o] \in Int /\ my_last_time[o] \in Int /\ other_time[o] \in Int
        /\ td_min[p] \in Int /\ td_max[p] \in Int
        /\ ping_pong_min_time[p] \in Int /\ tds[p] \in Int
    BY <1>a, <1>b, ClocksNonNegative DEF TypeOK
  <1>w. wtime(p) \in Int /\ other_time[p] - wtime(p) \in Int
    BY <1>n DEF wtime
  <1>x. /\ fmax2(td_min[p], other_time[p] - wtime(p)) \in Int
        /\ fmin2(td_max[p], other_time[p] - my_time[p]) \in Int
    BY <1>n, <1>w DEF fmax2, fmin2
  <1>i. i[p] + 1 \in Nat
    BY <1>a DEF TypeOK
  <1>m. net[p] # << >> => Head(net[p]) \in Int
    BY <1>a DEF TypeOK
  <1>1. TypeOK'
    <2>1. now' \in Nat /\ round' \in Nat /\ pc' \in [Proc -> Points]
      BY <1>a DEF TypeOK, Points, Bounds, Goto, fmax2, fmin2, locals, results, FastEnough
    <2>2. net' \in [Proc -> Seq(Int)]
      BY <1>a, <1>b, <1>d, <1>n DEF TypeOK, Bounds, Goto, fmax2, fmin2, locals, results, FastEnough
    <2>3. i' \in [Proc -> Nat] /\ other_time' \in [Proc -> Int]
      BY <1>a, <1>d, <1>m, <1>i DEF TypeOK, Bounds, locals, results
    <2>4. my_time' \in [Proc -> Int] /\ my_last_time' \in [Proc -> Int]
      BY <1>a, <1>n, <1>w, <1>x DEF TypeOK, Bounds, locals, results
    <2>5. td_min' \in [Proc -> Int] /\ td_max' \in [Proc -> Int]
      BY <1>a, <1>n, <1>w, <1>x DEF TypeOK, Bounds, locals, results
    <2>6. ping_pong_min_time' \in [Proc -> Int] /\ tds' \in [Proc -> Int]
      BY <1>a, <1>n, <1>x DEF TypeOK, Bounds, locals, results
    <2> QED BY <2>1, <2>2, <2>3, <2>4, <2>5, <2>6 DEF TypeOK
  <1>k. NotFromFuture(p) /\ NotFromFuture(o)
    BY <1>a DEF Knowledge
  <1>2. Control'
    <2>1. CASE p = "p1" /\ o = "p2"
      BY <1>d, <1>e, <1>k, <1>m, <1>n, <2>1, Channels
      DEF NotFromFuture, Control, Empty, MessageFor, Ended, Proc, Other, invalid_time
    <2>2. CASE p = "p2" /\ o = "p1"
      BY <1>d, <1>e, <1>k, <1>m, <1>n, <2>2, Channels
      DEF NotFromFuture, Control, Empty, MessageFor, Ended, Proc, Other, invalid_time
    <2> QED BY <1>c, <2>1, <2>2
  <1>3. Knowledge(p)'
    <2>1. NotFromFuture(p)'
      <3>1. /\ now' = now /\ net'[p] = << >>
            /\ my_time'[p] = wtime(p) /\ my_last_time'[p] = my_time[p]
            /\ other_time'[p] = other_time[p]
        BY <1>d, <1>e DEF wtime
      <3>2. wtime(p)' = wtime(p) /\ wtime(Other(p))' = wtime(Other(p)) /\ wtime(p) >= 0
        BY <1>n, <3>1 DEF wtime
      <3> QED BY <3>1, <3>2, <1>k, <1>w DEF NotFromFuture
    <2>2. Causality(p)'
      BY <1>a, <1>b, <1>c, <1>d, <1>e, <1>k, <1>m, <1>n, Channels
      DEF Knowledge, NotFromFuture, Causality, Sent, After, Awaits, TrueDiff, wtime, Ended
    <2>3. LowerBound(p)'
      <3>1. td_min[p] <= TrueDiff(p)
        BY <1>a, <1>d DEF Knowledge, LowerBound, HasWindow
      <3>2. other_time[p] - (now + Offset[p]) <= TrueDiff(p)
        <4>1. other_time[p] <= now + Offset[o]
          BY <1>b, <1>k DEF NotFromFuture, wtime
        <4> QED BY <4>1, <1>b, <1>n DEF TrueDiff
      <3>3. td_min'[p] <= TrueDiff(p)
        BY <1>b, <1>e, <1>n, <3>1, <3>2 DEF fmax2, TrueDiff
      <3> QED BY <3>3 DEF LowerBound, TrueDiff
    <2>4. UpperBound(p)'
      BY <1>a, <1>b, <1>d, <1>e, <1>n
      DEF Knowledge, Causality, Sent, After, UpperBound, HasWindow, TrueDiff, fmax2, fmin2
    <2>5. Recorded(p)'
      BY <1>a, <1>b, <1>d, <1>e, <1>n
      DEF Knowledge, LowerBound, UpperBound, Recorded, HasWindow, TrueDiff, fmax2, fmin2
    <2> QED BY <2>1, <2>2, <2>3, <2>4, <2>5 DEF Knowledge
  <1>4. Knowledge(o)'
    <2>1. NotFromFuture(o)'
      BY <1>b, <1>d, <1>e, <1>k, <1>m, <1>n, Channels DEF NotFromFuture, wtime
    <2>0. Sent(o)' = Sent(o) /\ Sent(o) <= now + Offset[o] /\ Sent(o) \in Int
      BY <1>b, <1>e, <1>k, <1>n DEF Sent, NotFromFuture, wtime
    <2>t. TrueDiff(o) <= (now + Offset[p]) - Sent(o)
      BY <2>0, <1>b, <1>n DEF TrueDiff
    <2>2. Causality(o)'
      BY <2>t, <2>0, <1>a, <1>b, <1>c, <1>d, <1>e, <1>k, <1>m, <1>n, Channels
      DEF Knowledge, NotFromFuture, Causality, After, Awaits, TrueDiff, wtime, Ended
    <2>3. LowerBound(o)' /\ UpperBound(o)' /\ Recorded(o)'
      BY <1>a, <1>b, <1>e
      DEF Knowledge, LowerBound, UpperBound, Recorded, HasWindow, TrueDiff
    <2> QED BY <2>1, <2>2, <2>3 DEF Knowledge
  <1> QED BY <1>1, <1>2, <1>3, <1>4, Partners DEF IInv, o

\* SendInvalid keeps the invariant.
LEMMA SendInvalidInv == ASSUME IInv, NEW p \in Proc, SendInvalid(p) PROVE IInv'
  <1> DEFINE o == Other(p)
  <1>a. TypeOK /\ Control /\ Knowledge(p) /\ Knowledge(o)
    BY Partners DEF IInv
  <1>b. o \in Proc /\ o # p /\ Other(o) = p /\ Other(p) = o
    BY Partners
  <1>c. (p = "p1" /\ o = "p2") \/ (p = "p2" /\ o = "p1")
    BY DEF Proc, Other
  <1>d. /\ pc[p] = "send_invalid"
        /\ net[p] = << >> /\ net[o] = << >> /\ pc[o] = "recv"
    <2>1. CASE p = "p1"
      BY <1>a, <2>1 DEF SendInvalid, At, Recv, Control, Empty, MessageFor, Ended, Proc, Other, invalid_time
    <2>2. CASE p = "p2"
      BY <1>a, <2>2 DEF SendInvalid, At, Recv, Control, Empty, MessageFor, Ended, Proc, Other, invalid_time
    <2> QED BY <1>c, <2>1, <2>2
  <1> HIDE DEF o
  <1>e. /\ pc'[p] = "finish" /\ pc'[o] = pc[o]
        /\ net'[o] = <<-1>> /\ net'[p] = << >>
        /\ UNCHANGED <<now, round, i, my_time, my_last_time, other_time,
                      td_min, td_max, ping_pong_min_time, tds>>
    BY <1>a, <1>b, <1>d, Channels DEF TypeOK, wtime, invalid_time, SendInvalid, Goto, Send, invalid_time, locals, results
  <1>n. /\ now \in Nat /\ Offset[p] \in Nat /\ Offset[o] \in Nat
        /\ my_time[p] \in Int /\ my_last_time[p] \in Int /\ other_time[p] \in Int
        /\ my_time[o] \in Int /\ my_last_time[o] \in Int /\ other_time[o] \in Int
        /\ td_min[p] \in Int /\ td_max[p] \in Int
        /\ ping_pong_min_time[p] \in Int /\ tds[p] \in Int
    BY <1>a, <1>b, ClocksNonNegative DEF TypeOK
  <1>w. wtime(p) \in Int /\ other_time[p] - wtime(p) \in Int
    BY <1>n DEF wtime
  <1>m. net[p] # << >> => Head(net[p]) \in Int
    BY <1>a DEF TypeOK
  <1>1. TypeOK'
    <2>1. now' \in Nat /\ round' \in Nat /\ pc' \in [Proc -> Points]
      BY <1>a DEF TypeOK, Points, SendInvalid, Goto, Send, invalid_time, locals, results
    <2>2. net' \in [Proc -> Seq(Int)]
      BY <1>a, <1>b, <1>d, <1>n DEF TypeOK, SendInvalid, Goto, Send, invalid_time, locals, results
    <2>3. i' \in [Proc -> Nat] /\ other_time' \in [Proc -> Int]
      BY <1>a, <1>d, <1>m DEF TypeOK, SendInvalid, Goto, Send, invalid_time, locals, results
    <2>4. my_time' \in [Proc -> Int] /\ my_last_time' \in [Proc -> Int]
      BY <1>a, <1>n, <1>w DEF TypeOK, SendInvalid, locals, results
    <2>5. td_min' \in [Proc -> Int] /\ td_max' \in [Proc -> Int]
      BY <1>a, <1>n, <1>w DEF TypeOK, SendInvalid, locals, results
    <2>6. ping_pong_min_time' \in [Proc -> Int] /\ tds' \in [Proc -> Int]
      BY <1>a, <1>n DEF TypeOK, SendInvalid, locals, results
    <2> QED BY <2>1, <2>2, <2>3, <2>4, <2>5, <2>6 DEF TypeOK
  <1>k. NotFromFuture(p) /\ NotFromFuture(o)
    BY <1>a DEF Knowledge
  <1>2. Control'
    <2>1. CASE p = "p1" /\ o = "p2"
      BY <1>d, <1>e, <1>k, <1>m, <1>n, <2>1, Channels
      DEF NotFromFuture, Control, Empty, MessageFor, Ended, Proc, Other, invalid_time
    <2>2. CASE p = "p2" /\ o = "p1"
      BY <1>d, <1>e, <1>k, <1>m, <1>n, <2>2, Channels
      DEF NotFromFuture, Control, Empty, MessageFor, Ended, Proc, Other, invalid_time
    <2> QED BY <1>c, <2>1, <2>2
  <1>3. Knowledge(p)'
    <2>1. NotFromFuture(p)'
      BY <1>b, <1>d, <1>e, <1>k, <1>m, <1>n, Channels DEF NotFromFuture, wtime
    <2>2. Causality(p)'
      BY <1>a, <1>b, <1>c, <1>d, <1>e, <1>k, <1>m, <1>n, Channels
      DEF Knowledge, NotFromFuture, Causality, Sent, After, Awaits, TrueDiff, wtime, Ended
    <2>3. LowerBound(p)'
      BY <1>a, <1>b, <1>c, <1>d, <1>e, <1>k, <1>n
      DEF Knowledge, NotFromFuture, LowerBound, HasWindow, TrueDiff, wtime, fmax2, fmin2
    <2>4. UpperBound(p)'
      BY <1>a, <1>b, <1>d, <1>e, <1>n
      DEF Knowledge, Causality, Sent, After, UpperBound, HasWindow, TrueDiff, fmax2, fmin2
    <2>5. Recorded(p)'
      BY <1>a, <1>b, <1>d, <1>e, <1>n
      DEF Knowledge, LowerBound, UpperBound, Recorded, HasWindow, TrueDiff, fmax2, fmin2
    <2> QED BY <2>1, <2>2, <2>3, <2>4, <2>5 DEF Knowledge
  <1>4. Knowledge(o)'
    <2>1. NotFromFuture(o)'
      BY <1>b, <1>d, <1>e, <1>k, <1>m, <1>n, Channels, SMTT(30) DEF NotFromFuture, wtime
    <2>0. Sent(o)' = Sent(o) /\ Sent(o) <= now + Offset[o] /\ Sent(o) \in Int
      BY <1>b, <1>e, <1>k, <1>n DEF Sent, NotFromFuture, wtime
    <2>2. Causality(o)'
      BY <2>0, <1>a, <1>b, <1>c, <1>d, <1>e, <1>k, <1>m, <1>n, Channels
      DEF Knowledge, NotFromFuture, Causality, After, Awaits, TrueDiff, wtime, Ended
    <2>3. LowerBound(o)' /\ UpperBound(o)' /\ Recorded(o)'
      BY <1>a, <1>b, <1>e
      DEF Knowledge, LowerBound, UpperBound, Recorded, HasWindow, TrueDiff
    <2> QED BY <2>1, <2>2, <2>3 DEF Knowledge
  <1> QED BY <1>1, <1>2, <1>3, <1>4, Partners DEF IInv, o

\* Finish keeps the invariant.
LEMMA FinishInv == ASSUME IInv, NEW p \in Proc, Finish(p) PROVE IInv'
  <1> DEFINE o == Other(p)
  <1>a. TypeOK /\ Control /\ Knowledge(p) /\ Knowledge(o)
    BY Partners DEF IInv
  <1>b. o \in Proc /\ o # p /\ Other(o) = p /\ Other(p) = o
    BY Partners
  <1>c. (p = "p1" /\ o = "p2") \/ (p = "p2" /\ o = "p1")
    BY DEF Proc, Other
  <1>d. /\ pc[p] = "finish"
        /\ net[p] = << >>
        /\ \/ pc[o] = "recv" /\ net[o] = <<-1>>
           \/ pc[o] \in Ended /\ net[o] = << >>
    <2>1. CASE p = "p1"
      BY <1>a, <2>1 DEF Finish, At, Recv, Control, Empty, MessageFor, Ended, Proc, Other, invalid_time
    <2>2. CASE p = "p2"
      BY <1>a, <2>2 DEF Finish, At, Recv, Control, Empty, MessageFor, Ended, Proc, Other, invalid_time
    <2> QED BY <1>c, <2>1, <2>2
  <1> HIDE DEF o
  <1>e. /\ pc'[p] = "done" /\ pc'[o] = pc[o]
        /\ ping_pong_min_time'[p] = IF ping_pong_min_time[p] < 0 THEN td_max[p] - td_min[p]
                      ELSE fmin2(ping_pong_min_time[p], td_max[p] - td_min[p])
        /\ ping_pong_min_time'[o] = ping_pong_min_time[o]
        /\ tds'[p] = td_min[p] + td_max[p] /\ tds'[o] = tds[o]
        /\ UNCHANGED <<now, round, net, i, my_time, my_last_time,
                      other_time, td_min, td_max>>
    BY <1>a, <1>b, <1>d, Channels DEF TypeOK, wtime, invalid_time, Finish, Goto, fmin2, locals, results
  <1>n. /\ now \in Nat /\ Offset[p] \in Nat /\ Offset[o] \in Nat
        /\ my_time[p] \in Int /\ my_last_time[p] \in Int /\ other_time[p] \in Int
        /\ my_time[o] \in Int /\ my_last_time[o] \in Int /\ other_time[o] \in Int
        /\ td_min[p] \in Int /\ td_max[p] \in Int
        /\ ping_pong_min_time[p] \in Int /\ tds[p] \in Int
    BY <1>a, <1>b, ClocksNonNegative DEF TypeOK
  <1>w. wtime(p) \in Int /\ other_time[p] - wtime(p) \in Int
    BY <1>n DEF wtime
  <1>x. /\ fmin2(ping_pong_min_time[p], td_max[p] - td_min[p]) \in Int
        /\ td_max[p] - td_min[p] \in Int /\ td_min[p] + td_max[p] \in Int
    BY <1>n DEF fmin2
  <1>m. net[p] # << >> => Head(net[p]) \in Int
    BY <1>a DEF TypeOK
  <1>1. TypeOK'
    <2>1. now' \in Nat /\ round' \in Nat /\ pc' \in [Proc -> Points]
      BY <1>a DEF TypeOK, Points, Finish, Goto, fmin2, locals, results
    <2>2. net' \in [Proc -> Seq(Int)]
      BY <1>a, <1>b, <1>d, <1>n DEF TypeOK, Finish, Goto, fmin2, locals, results
    <2>3. i' \in [Proc -> Nat] /\ other_time' \in [Proc -> Int]
      BY <1>a, <1>d, <1>m, <1>x DEF TypeOK, Finish, Goto, fmin2, locals, results
    <2>4. my_time' \in [Proc -> Int] /\ my_last_time' \in [Proc -> Int]
      BY <1>a, <1>n, <1>w, <1>x DEF TypeOK, Finish, locals, results
    <2>5. td_min' \in [Proc -> Int] /\ td_max' \in [Proc -> Int]
      BY <1>a, <1>n, <1>w, <1>x DEF TypeOK, Finish, locals, results
    <2>6. ping_pong_min_time' \in [Proc -> Int] /\ tds' \in [Proc -> Int]
      BY <1>a, <1>n, <1>x DEF TypeOK, Finish, locals, results
    <2> QED BY <2>1, <2>2, <2>3, <2>4, <2>5, <2>6 DEF TypeOK
  <1>k. NotFromFuture(p) /\ NotFromFuture(o)
    BY <1>a DEF Knowledge
  <1>2. Control'
    <2>1. CASE p = "p1" /\ o = "p2"
      BY <1>d, <1>e, <1>k, <1>m, <1>n, <2>1, Channels
      DEF NotFromFuture, Control, Empty, MessageFor, Ended, Proc, Other, invalid_time
    <2>2. CASE p = "p2" /\ o = "p1"
      BY <1>d, <1>e, <1>k, <1>m, <1>n, <2>2, Channels
      DEF NotFromFuture, Control, Empty, MessageFor, Ended, Proc, Other, invalid_time
    <2> QED BY <1>c, <2>1, <2>2
  <1>3. Knowledge(p)'
    <2>1. NotFromFuture(p)'
      BY <1>b, <1>d, <1>e, <1>k, <1>m, <1>n, Channels DEF NotFromFuture, wtime
    <2>2. Causality(p)'
      BY <1>a, <1>b, <1>c, <1>d, <1>e, <1>k, <1>m, <1>n, Channels
      DEF Knowledge, NotFromFuture, Causality, Sent, After, Awaits, TrueDiff, wtime, Ended
    <2>3. LowerBound(p)'
      BY <1>a, <1>b, <1>c, <1>d, <1>e, <1>k, <1>n
      DEF Knowledge, NotFromFuture, LowerBound, HasWindow, TrueDiff, wtime, fmax2, fmin2
    <2>4. UpperBound(p)'
      BY <1>a, <1>b, <1>d, <1>e, <1>n
      DEF Knowledge, Causality, Sent, After, UpperBound, HasWindow, TrueDiff, fmax2, fmin2
    <2>5. Recorded(p)'
      <3>1. td_min[p] <= TrueDiff(p) /\ TrueDiff(p) <= td_max[p] /\ TrueDiff(p) \in Int
        BY <1>a, <1>b, <1>d, <1>n DEF Knowledge, LowerBound, UpperBound, HasWindow, TrueDiff
      <3>2. 0 <= td_max[p] - td_min[p]
        BY <3>1, <1>n
      <3>3. 0 <= ping_pong_min_time'[p] /\ ping_pong_min_time'[p] <= td_max[p] - td_min[p]
        BY <3>2, <1>e, <1>n DEF fmin2
      <3> QED BY <3>3, <1>e DEF Recorded
    <2> QED BY <2>1, <2>2, <2>3, <2>4, <2>5 DEF Knowledge
  <1>4. Knowledge(o)'
    <2>1. NotFromFuture(o)'
      BY <1>b, <1>d, <1>e, <1>k, <1>m, <1>n, Channels DEF NotFromFuture, wtime
    <2>0. Sent(o)' = Sent(o) /\ Sent(o) <= now + Offset[o] /\ Sent(o) \in Int
      BY <1>b, <1>e, <1>k, <1>n DEF Sent, NotFromFuture, wtime
    <2>2. Causality(o)'
      BY <2>0, <1>a, <1>b, <1>c, <1>d, <1>e, <1>k, <1>m, <1>n, Channels
      DEF Knowledge, NotFromFuture, Causality, After, Awaits, TrueDiff, wtime, Ended
    <2>3. LowerBound(o)' /\ UpperBound(o)' /\ Recorded(o)'
      BY <1>a, <1>b, <1>e
      DEF Knowledge, LowerBound, UpperBound, Recorded, HasWindow, TrueDiff
    <2> QED BY <2>1, <2>2, <2>3 DEF Knowledge
  <1> QED BY <1>1, <1>2, <1>3, <1>4, Partners DEF IInv, o

\* The next call of ping_pong starts from empty channels.
LEMMA NextRoundInv == ASSUME IInv, NextRound PROVE IInv'
  <1>a. TypeOK /\ Control /\ \A p \in Proc : Knowledge(p)
    BY DEF IInv
  <1>b. Empty
    BY <1>a DEF NextRound, Control, Ended, Proc
  <1>1. TypeOK'
    BY <1>a DEF TypeOK, NextRound, Start, Points, locals, results
  <1>2. Control'
    BY <1>b DEF NextRound, Start, Control, Empty, Proc
  <1>3. ASSUME NEW p \in Proc PROVE Knowledge(p)'
    <2>1. net[p] = << >> /\ net[Other(p)] = << >>
      BY <1>b, Partners DEF Empty, Proc
    <2>2. NotFromFuture(p)'
      BY <1>a DEF Knowledge, NotFromFuture, wtime, NextRound, locals, results
    <2>3. Causality(p)'
      BY <2>1, Partners DEF Causality, Awaits, NextRound, Start
    <2>4. LowerBound(p)' /\ UpperBound(p)' /\ Recorded(p)'
      BY DEF LowerBound, UpperBound, Recorded, HasWindow, NextRound, Start
    <2> QED BY <2>2, <2>3, <2>4 DEF Knowledge
  <1> QED BY <1>1, <1>2, <1>3 DEF IInv

\* Time passing leaves all knowledge valid.
LEMMA TickInv == ASSUME IInv, Tick PROVE IInv'
  <1>a. TypeOK /\ Control /\ \A p \in Proc : Knowledge(p)
    BY DEF IInv
  <1>b. now' = now + 1 /\ now \in Nat /\ UNCHANGED <<round, pc, net, locals, results>>
    BY <1>a DEF Tick, TypeOK
  <1>1. TypeOK'
    BY <1>a, <1>b DEF TypeOK, locals, results
  <1>2. Control'
    BY <1>a, <1>b DEF Control, Empty, MessageFor
  <1>3. ASSUME NEW p \in Proc PROVE Knowledge(p)'
    <2>1. /\ Offset[p] \in Nat /\ Offset[Other(p)] \in Nat
          /\ my_time[p] \in Int /\ my_last_time[p] \in Int /\ other_time[p] \in Int
      BY <1>a, Partners, ClocksNonNegative DEF TypeOK
    <2>2. net[p] # << >> => Head(net[p]) \in Int
      BY <1>a DEF TypeOK
    <2>3. NotFromFuture(p)
      BY <1>a DEF Knowledge
    <2>4. NotFromFuture(p)'
      BY <1>b, <2>1, <2>2, <2>3, SMTT(30) DEF NotFromFuture, wtime, locals
    <2>5. Causality(p)' /\ LowerBound(p)' /\ UpperBound(p)' /\ Recorded(p)'
      BY <1>a, <1>b DEF Knowledge, Causality, Awaits, After, Sent, TrueDiff, LowerBound,
                        UpperBound, Recorded, HasWindow, locals, results
    <2> QED BY <2>4, <2>5 DEF Knowledge
  <1> QED BY <1>1, <1>2, <1>3 DEF IInv

\* A step that changes nothing keeps the invariant.
LEMMA StutterInv == ASSUME IInv, UNCHANGED vars PROVE IInv'
  <1> USE DEF vars, locals, results
  <1>1. TypeOK'
    BY DEF IInv, TypeOK
  <1>2. Control'
    BY DEF IInv, Control, Empty, MessageFor
  <1>3. ASSUME NEW p \in Proc PROVE Knowledge(p)'
    <2>1. Knowledge(p)
      BY DEF IInv
    <2> QED BY <2>1 DEF Knowledge, NotFromFuture, Causality, Awaits, After, Sent, TrueDiff,
                        wtime, LowerBound, UpperBound, Recorded, HasWindow
  <1> QED BY <1>1, <1>2, <1>3 DEF IInv

\* Every step keeps the invariant.
LEMMA NextInv == IInv /\ [Next]_vars => IInv'
  <1> SUFFICES ASSUME IInv, [Next]_vars PROVE IInv'
    OBVIOUS
  <1>1. ASSUME NEW p \in Proc, Step(p) PROVE IInv'
    BY <1>1, FirstClockInv, FirstSendInv, FirstRecvInv, SecondRecvInv, FirstBoundsInv,
       SendTimeInv, RecvTimeInv, BoundsInv, SendInvalidInv, FinishInv DEF Step
  <1>2. CASE NextRound
    BY <1>2, NextRoundInv
  <1>3. CASE Tick
    BY <1>3, TickInv
  <1>4. CASE Terminated \/ UNCHANGED vars
    BY <1>4, StutterInv DEF Terminated
  <1> QED BY <1>1, <1>2, <1>3, <1>4 DEF Next

\* The inductive invariant holds throughout.
THEOREM Invariance == Spec => []IInv
  <1>1. Init => IInv
    BY InitInv
  <1> QED BY <1>1, NextInv, PTL DEF Spec

-----------------------------------------------------------------------------
\* The variables of ping_pong keep their types in every state.
THEOREM TypeCorrect == Spec => []TypeOK
  <1>1. IInv => TypeOK
    BY DEF IInv
  <1> QED BY <1>1, Invariance, PTL

\* For all clock offsets and message delays the real difference of the clocks
\* stays between td_min and td_max of both processes, in every call.
THEOREM WindowCorrect == Spec => []WindowHoldsTruth
  <1>1. IInv => WindowHoldsTruth
    BY DEF IInv, Knowledge, LowerBound, UpperBound, WindowHoldsTruth
  <1> QED BY <1>1, Invariance, PTL

\* The recorded difference is within half a window of the real one, and the
\* recorded width can never be mistaken for "not yet determined".
THEOREM EstimateCorrect == Spec => []EstimateWithinWindow
  <1>1. ASSUME IInv PROVE EstimateWithinWindow
    <2>1. ASSUME NEW p \in Proc, pc[p] = "done"
          PROVE  /\ tds[p] - 2 * TrueDiff(p) <= td_max[p] - td_min[p]
                 /\ 2 * TrueDiff(p) - tds[p] <= td_max[p] - td_min[p]
                 /\ 0 <= ping_pong_min_time[p]
                 /\ ping_pong_min_time[p] <= td_max[p] - td_min[p]
      <3>1. td_min[p] <= TrueDiff(p) /\ TrueDiff(p) <= td_max[p]
        BY <1>1, <2>1 DEF IInv, Knowledge, LowerBound, UpperBound, HasWindow
      <3>2. /\ tds[p] = td_min[p] + td_max[p]
            /\ 0 <= ping_pong_min_time[p]
            /\ ping_pong_min_time[p] <= td_max[p] - td_min[p]
        BY <1>1, <2>1 DEF IInv, Knowledge, Recorded
      <3>3. td_min[p] \in Int /\ td_max[p] \in Int /\ TrueDiff(p) \in Int
        BY <1>1, Clocks DEF IInv, TypeOK
      <3> QED BY <3>1, <3>2, <3>3
    <2> QED BY <2>1 DEF EstimateWithinWindow
  <1> QED BY <1>1, Invariance, PTL

\* At most one message of the pair is on its way, with eager and with
\* synchronous sends.
THEOREM AtMostOne == Spec => []OneMessage
  <1>1. IInv => OneMessage
    <2> SUFFICES ASSUME IInv PROVE OneMessage
      OBVIOUS
    <2>1. \A x : Len(<<x>>) = 1 /\ Len(<< >>) = 0
      OBVIOUS
    <2>2. \/ Empty
          \/ \E q \in Proc, v \in BOOLEAN : MessageFor(q, v)
      BY DEF IInv, Control, Proc
    <2>3. CASE Empty
      BY <2>1, <2>3 DEF Empty, OneMessage
    <2>4. ASSUME NEW q \in Proc, NEW v \in BOOLEAN, MessageFor(q, v) PROVE OneMessage
      <3>1. Len(net[q]) = 1 /\ Len(net[Other(q)]) = 0
        BY <2>1, <2>4 DEF MessageFor
      <3>2. (q = "p1" /\ Other(q) = "p2") \/ (q = "p2" /\ Other(q) = "p1")
        BY DEF Proc, Other
      <3>3. \/ Len(net["p1"]) = 1 /\ Len(net["p2"]) = 0
            \/ Len(net["p1"]) = 0 /\ Len(net["p2"]) = 1
        BY <3>1, <3>2
      <3>4. \A m, n : (m = 1 /\ n = 0) \/ (m = 0 /\ n = 1) => m + n <= 1
        OBVIOUS
      <3> QED BY <3>3, <3>4 DEF OneMessage
    <2> QED BY <2>2, <2>3, <2>4
  <1> QED BY <1>1, Invariance, PTL

\* No call leaves a message that a later call with the same tag would receive.
THEOREM Clean == Spec => []NothingLeftBehind
  <1>1. IInv => NothingLeftBehind
    BY DEF IInv, Control, Ended, Empty, NothingLeftBehind, Proc
  <1> QED BY <1>1, Invariance, PTL

\* The exchange of ping_pong alternates and leaves nothing behind.
THEOREM Alternates == Spec => []Alternation
BY AtMostOne, Clean, PTL DEF Alternation

\* The two processes never both decide to stop.
THEOREM SingleStop == Spec => []OneSideStops
  <1>1. IInv => OneSideStops
    BY DEF IInv, Control, Ended, Empty, OneSideStops, Proc, Other
  <1> QED BY <1>1, Invariance, PTL
=============================================================================
