---------------------------- MODULE MPIMeasurement ----------------------------
(***************************************************************************)
(* The ranks of a measurement of pt2pt.c, node2node.c, coll.c, delayed.c   *)
(* or onesided.c executing their programs: buffers, messages, windows.     *)
(* MPI is free to buffer what it sends and to move the data of one-sided   *)
(* calls at once (eager), or to do both only when it can no longer be      *)
(* avoided; a measurement has to be right either way.  An element of a     *)
(* buffer is the bag of what has been combined in it.                      *)
(***************************************************************************)
EXTENDS PointToPoint, Collective, OneSided

\* Records of the name of a measurement, its argument, its program on each rank, and
\* with what MPI it may run: those that poll for data count on an eager one.
CONSTANT Measurements

ASSUME MeasurementsKnown ==
  \A m \in Measurements :
    /\ m.arg.np > 0 /\ m.arg.calls > 0 /\ m.eager \in SUBSET BOOLEAN
    /\ \A p \in World(m.arg) : {"send", "recv", "calls"} = DOMAIN m.program[p]

VARIABLES
  measurement,  \* name, argument, and whether MPI is eager
  todo,         \* calls that each rank has still to make
  mem,          \* contents of the buffers of each rank
  messages,     \* messages sent and not received, in the order of sending
  receives,     \* receives of each rank that are posted and not matched
  requests,     \* how many sends and receives each rank has not waited for
  windows,      \* state of the windows that exist
  transfers     \* one-sided transfers that are not done, in the order of the calls

vars == <<measurement, todo, mem, messages, receives, requests, windows, transfers>>

name == measurement.name
arg == measurement.arg
eager == measurement.eager
Rank == World(arg)
WindowNames == {W, "send", "recv"}

\* Contents at the start: each element is of its own.
Sent(p, i) == SetToBag({<<p, i, 0>>})
Garbage(p, i) == SetToBag({<<p, -1 - i, 0>>})
Buffers(m, p) ==
  [send |-> [i \in 0 .. m.program[p].send - 1 |-> Sent(p, i)],
   recv |-> [i \in 0 .. m.program[p].recv - 1 |-> Garbage(p, i)],
   local |-> [i \in 0 .. m.arg.count - 1 |-> EmptyBag]]

Init ==
  \E m \in Measurements : \E e \in m.eager :
    /\ measurement = [name |-> m.name, arg |-> m.arg, eager |-> e]
    /\ todo = [p \in World(m.arg) |-> Times(m.arg.calls, LAMBDA i : m.program[p].calls)]
    /\ mem = [p \in World(m.arg) |-> Buffers(m, p)]
    /\ messages = << >>
    /\ receives = [p \in World(m.arg) |-> << >>]
    /\ requests = [p \in World(m.arg) |-> [sends |-> 0, receives |-> 0]]
    /\ windows = << >>
    /\ transfers = << >>

-----------------------------------------------------------------------------
(* The next call; memory. *)

Finished(p) == todo[p] = << >>
Call(p) == Head(todo[p])
At(p, op) == ~Finished(p) /\ Call(p).op = op
MadeN(ranks, n) ==
  todo' = [p \in Rank |-> IF p \in ranks THEN SubSeq(todo[p], n + 1, Len(todo[p])) ELSE todo[p]]
Made(ranks) == MadeN(ranks, 1)

Cells(p, area) == {<<p, area.buf, i>> : i \in area.first .. area.first + area.n - 1}
\* What the program declared not to use is not there.
Element(p, buf, i) == IF i \in DOMAIN mem[p][buf] THEN mem[p][buf][i] ELSE EmptyBag
Contents(p, area) == [k \in 1 .. area.n |-> Element(p, area.buf, area.first + k - 1)]
Write(m, p, area, values) ==
  [m EXCEPT ![p][area.buf] =
     [i \in DOMAIN @ |-> IF i - area.first + 1 \in DOMAIN values
                         THEN values[i - area.first + 1] ELSE @[i]]]

-----------------------------------------------------------------------------
(* Messages. *)

Buffered(m) == m.mode = "buffered" \/ (m.mode = "standard" /\ eager)

Isend(p) ==
  /\ At(p, "isend")
  /\ LET c == Call(p)
         m == [from |-> p, to |-> c.peer, tag |-> c.tag, mode |-> c.mode, area |-> c.area,
               data |-> << >>]
     IN messages' = Append(messages,
                           IF Buffered(m) THEN [m EXCEPT !.data = Contents(p, c.area)] ELSE m)
  /\ requests' = [requests EXCEPT ![p].sends = @ + 1]
  /\ Made({p})
  /\ UNCHANGED <<measurement, mem, receives, windows, transfers>>

Irecv(p) ==
  /\ At(p, "irecv")
  /\ receives' = [receives EXCEPT ![p] = Append(@, Call(p))]
  /\ requests' = [requests EXCEPT ![p].receives = @ + 1]
  /\ Made({p})
  /\ UNCHANGED <<measurement, mem, messages, windows, transfers>>

Matches(m, r, p) == m.to = p /\ m.from = r.peer /\ r.tag \in {m.tag, AnyTag}

\* Messages between two ranks do not overtake each other.
Deliver(i, p, j) ==
  LET m == messages[i]
      r == receives[p][j]
  IN /\ Matches(m, r, p)
     /\ \A h \in 1 .. i - 1 : ~Matches(messages[h], r, p)
     /\ \A h \in 1 .. j - 1 : ~Matches(m, receives[p][h], p)
     /\ mem' = Write(mem, p, r.area, IF Buffered(m) THEN m.data ELSE Contents(m.from, m.area))
     /\ messages' = RemoveAt(messages, i)
     /\ receives' = [receives EXCEPT ![p] = RemoveAt(@, j)]
     /\ UNCHANGED <<measurement, todo, requests, windows, transfers>>

SendsDone(p) == \A i \in DOMAIN messages : messages[i].from = p => Buffered(messages[i])

WaitRequests(p) ==
  /\ At(p, "wait")
  /\ Call(p).sends => SendsDone(p)
  /\ Call(p).receives => receives[p] = << >>
  /\ requests' = [requests EXCEPT ![p] =
       [sends |-> IF Call(p).sends THEN 0 ELSE @.sends,
        receives |-> IF Call(p).receives THEN 0 ELSE @.receives]]
  /\ Made({p})
  /\ UNCHANGED <<measurement, mem, messages, receives, windows, transfers>>

Iprobe(p) ==
  /\ At(p, "probe")
  /\ \E i \in DOMAIN messages : Matches(messages[i], Call(p), p)
  /\ Made({p})
  /\ UNCHANGED <<measurement, mem, messages, receives, requests, windows, transfers>>

-----------------------------------------------------------------------------
(* Collective calls.  All ranks make them together. *)

AllAt(op) == \A p \in Rank : At(p, op)

SumBags(Value(_), S) == FoldSet(LAMBDA q, bag : bag (+) Value(q), EmptyBag, S)

\* What rank p has in its buffers afterwards.
Received(p) ==
  LET c == Call(p)
      From == {q \in Rank : c.in[q].n > 0}
      Value(q, k) == Element(q, Call(q).out[p].buf, Call(q).out[p].first + k - 1)
      Values(q) == [k \in 1 .. Call(q).out[p].n |-> Value(q, k)]
      area == c.in[CHOOSE q \in From : TRUE]
  IN IF From = {} THEN mem[p]
     ELSE IF c.reduces
     THEN Write(mem, p, area, [k \in 1 .. area.n |-> SumBags(LAMBDA q : Value(q, k), From)])[p]
     ELSE FoldSet(LAMBDA q, m : Write(m, p, c.in[q], Values(q)), mem, From)[p]

Collective(c) ==
  /\ AllAt("collective") /\ \A p \in Rank : Call(p).name = c
  /\ mem' = [p \in Rank |-> Received(p)]
  /\ Made(Rank)
  /\ UNCHANGED <<measurement, messages, receives, requests, windows, transfers>>

-----------------------------------------------------------------------------
(* Windows and their epochs. *)

TransfersOn(w) == {i \in DOMAIN transfers : transfers[i].win = w}
By(p, w) == {i \in TransfersOn(w) : transfers[i].origin = p}
Nobody == [p \in Rank |-> {}]

WinCreate(w) ==
  /\ AllAt("win_create") /\ \A p \in Rank : Call(p).win = w
  /\ windows' = (w :> [area |-> [p \in Rank |-> Call(p).area], fenced |-> FALSE,
                       exposed |-> Nobody,        \* ranks that have not completed
                       accesses |-> Nobody,       \* ranks whose window is accessed
                       locks |-> Nobody]) @@ windows
  /\ Made(Rank)
  /\ UNCHANGED <<measurement, mem, messages, receives, requests, transfers>>

WinFree(w) ==
  /\ AllAt("win_free") /\ \A p \in Rank : Call(p).win = w
  /\ windows' = [v \in DOMAIN windows \ {w} |-> windows[v]]
  /\ Made(Rank)
  /\ UNCHANGED <<measurement, mem, messages, receives, requests, transfers>>

WinFence(w) ==
  /\ AllAt("fence") /\ \A p \in Rank : Call(p).win = w
  /\ TransfersOn(w) = {}
  /\ windows' = [windows EXCEPT ![w].fenced = \A p \in Rank : Call(p).succeed]
  /\ Made(Rank)
  /\ UNCHANGED <<measurement, mem, messages, receives, requests, transfers>>

WinPost(p) ==
  /\ At(p, "post")
  /\ windows' = [windows EXCEPT ![Call(p).win].exposed[p] = Call(p).group]
  /\ Made({p})
  /\ UNCHANGED <<measurement, mem, messages, receives, requests, transfers>>

Posted(p, w, group) == \A q \in group : p \in windows[w].exposed[q]

\* MPI may wait for the posts here.
WinStart(p) ==
  /\ At(p, "start")
  /\ eager \/ Posted(p, Call(p).win, Call(p).group)
  /\ windows' = [windows EXCEPT ![Call(p).win].accesses[p] = Call(p).group]
  /\ Made({p})
  /\ UNCHANGED <<measurement, mem, messages, receives, requests, transfers>>

WinComplete(p) ==
  /\ At(p, "complete")
  /\ LET w == Call(p).win
         group == windows[w].accesses[p]
     IN /\ Posted(p, w, group) /\ By(p, w) = {}
        /\ windows' = [windows EXCEPT
             ![w].accesses[p] = {},
             ![w].exposed = [q \in Rank |-> IF q \in group THEN @[q] \ {p} ELSE @[q]]]
  /\ Made({p})
  /\ UNCHANGED <<measurement, mem, messages, receives, requests, transfers>>

WinWait(p) ==
  /\ At(p, "wait_win")
  /\ windows[Call(p).win].exposed[p] = {}
  /\ Made({p})
  /\ UNCHANGED <<measurement, mem, messages, receives, requests, windows, transfers>>

\* If all have completed, the wait that follows is left out.
WinTest(p) ==
  /\ At(p, "test")
  /\ MadeN({p}, IF windows[Call(p).win].exposed[p] = {} THEN 2 ELSE 1)
  /\ UNCHANGED <<measurement, mem, messages, receives, requests, windows, transfers>>

WinLock(p) ==
  /\ At(p, "lock")
  /\ LET w == Call(p).win
         q == Call(p).peer
     IN /\ \A l \in windows[w].locks[q] : l.shared /\ Call(p).shared
        /\ windows' = [windows EXCEPT ![w].locks[q] = @ \cup {[by |-> p, shared |-> Call(p).shared]}]
  /\ Made({p})
  /\ UNCHANGED <<measurement, mem, messages, receives, requests, transfers>>

WinUnlock(p) ==
  /\ At(p, "unlock")
  /\ By(p, Call(p).win) = {}
  /\ windows' = [windows EXCEPT ![Call(p).win].locks[Call(p).peer] = {l \in @ : l.by # p}]
  /\ Made({p})
  /\ UNCHANGED <<measurement, mem, messages, receives, requests, transfers>>

StartTransfer(p) ==
  /\ At(p, "transfer")
  /\ LET c == Call(p)
         base == windows[c.win].area[c.peer]
     IN transfers' = Append(transfers,
          [kind |-> c.kind, win |-> c.win, origin |-> p, area |-> c.area, target |-> c.peer,
           place |-> Area(base.buf, base.first + c.at, c.area.n)])
  /\ Made({p})
  /\ UNCHANGED <<measurement, mem, messages, receives, requests, windows>>

\* Rank p may access the window of rank q.
Locked(w, p, q) == \E l \in windows[w].locks[q] : l.by = p
Accessible(w, p, q) ==
  windows[w].fenced \/ p \in windows[w].exposed[q] \/ Locked(w, p, q)
\* Rank p is in the call that ends its access to window w.
Ending(p, w) ==
  /\ At(p, "fence") \/ At(p, "complete") \/ At(p, "unlock")
  /\ Call(p).win = w

Transfer(i) ==
  LET t == transfers[i]
      local == Contents(t.origin, t.area)
      remote == Contents(t.target, t.place)
  IN /\ Accessible(t.win, t.origin, t.target)
     /\ eager \/ Ending(t.origin, t.win)
     /\ mem' = CASE t.kind = "put" -> Write(mem, t.target, t.place, local)
                 [] t.kind = "get" -> Write(mem, t.origin, t.area, remote)
                 [] t.kind = "accumulate" ->
                      Write(mem, t.target, t.place,
                            [k \in 1 .. t.area.n |-> remote[k] (+) local[k]])
     /\ transfers' = RemoveAt(transfers, i)
     /\ UNCHANGED <<measurement, todo, messages, receives, requests, windows>>

-----------------------------------------------------------------------------
(* Work of a rank on its own. *)

\* Row i at time t from its neighbours at that time, the borders being rows of
\* other ranks; anything else gives no value of a row.
Row(p, i, t) ==
  SetToBag({IF i = 0 THEN <<prev_rank(arg, p), border_rows(arg), t>>
            ELSE IF i = border_rows(arg) + 1 THEN <<next_rank(arg, p), 1, t>>
            ELSE <<p, i, t>>})
Mean(p, buf, i) ==
  LET t == {s \in 0 .. arg.msg_count : \A k \in i - 1 .. i + 1 : Element(p, buf, k) = Row(p, k, s)}
  IN IF t = {} THEN EmptyBag ELSE Row(p, i, 1 + CHOOSE s \in t : TRUE)

LocalWork(p) ==
  /\ \/ /\ At(p, "copy")
        /\ mem' = Write(mem, p, Call(p).to, Contents(p, Call(p).from))
     \/ /\ At(p, "store")
        /\ mem' = Write(mem, p, Call(p).to, <<Call(p).value>>)
     \/ /\ At(p, "relax")
        /\ mem' = [mem EXCEPT ![p][Call(p).to] =
             [i \in DOMAIN @ |-> IF i \in Call(p).rows THEN Mean(p, Call(p).from, i) ELSE @[i]]]
     \/ /\ At(p, "poll")
        /\ Contents(Call(p).peer, Call(p).area) = <<Call(p).value>>
        /\ UNCHANGED mem
  /\ Made({p})
  /\ UNCHANGED <<measurement, messages, receives, requests, windows, transfers>>

-----------------------------------------------------------------------------

Alone(p) ==
  \/ Isend(p) \/ Irecv(p) \/ WaitRequests(p) \/ Iprobe(p)
  \/ WinPost(p) \/ WinStart(p) \/ WinComplete(p) \/ WinWait(p) \/ WinTest(p)
  \/ WinLock(p) \/ WinUnlock(p) \/ StartTransfer(p)
  \/ LocalWork(p)

Together ==
  \/ \E c \in {Call(p).name : p \in {q \in Rank : At(q, "collective")}} : Collective(c)
  \/ \E w \in WindowNames : WinCreate(w) \/ WinFree(w) \/ WinFence(w)

\* MPI at work.
Progress ==
  \/ \E i \in DOMAIN messages, p \in Rank : \E j \in DOMAIN receives[p] : Deliver(i, p, j)
  \/ \E i \in DOMAIN transfers : Transfer(i)

AllFinished == \A p \in Rank : Finished(p)
Returned == AllFinished /\ UNCHANGED vars

Next == (\E p \in Rank : Alone(p)) \/ Together \/ Progress \/ Returned

\* MPI makes progress, and completes calls that can complete.
Spec == Init /\ [][Next]_vars /\ WF_vars(Next)

-----------------------------------------------------------------------------
(* Properties. *)

Access(reads, adds, writes) == [reads |-> reads, adds |-> adds, writes |-> writes]
AccessOfTransfer(t) ==
  LET local == Cells(t.origin, t.area)
      remote == IF Accessible(t.win, t.origin, t.target) THEN Cells(t.target, t.place) ELSE {}
  IN CASE t.kind = "put" -> Access(local, {}, remote)
       [] t.kind = "get" -> Access(remote, {}, local)
       [] t.kind = "accumulate" -> Access(local, remote, {})
Unbuffered(m) == ~Buffered(m)
PendingSends == SelectSeq(messages, Unbuffered)
PendingAccesses ==
  [i \in DOMAIN transfers |-> AccessOfTransfer(transfers[i])]
  \o [i \in DOMAIN PendingSends |->
       Access(Cells(PendingSends[i].from, PendingSends[i].area), {}, {})]
  \o Times(arg.np, LAMBDA p :
       [j \in DOMAIN receives[p] |-> Access({}, {}, Cells(p, receives[p][j].area))])

\* What the rank itself is about to access.  Polling is meant to meet a pending transfer.
RowCells(p, buf, rows) == {<<p, buf, i>> : i \in rows}
OwnAccess(p) ==
  LET c == Call(p)
  IN CASE At(p, "copy") -> Access(Cells(p, c.from), {}, Cells(p, c.to))
       [] At(p, "store") -> Access({}, {}, Cells(p, c.to))
       [] At(p, "relax") ->
            Access(RowCells(p, c.from, UNION {i - 1 .. i + 1 : i \in c.rows}), {},
                   RowCells(p, c.to, c.rows))
       [] At(p, "isend") -> Access(Cells(p, c.area), {}, {})
       [] At(p, "collective") ->
            Access(UNION {Cells(p, c.out[q]) : q \in Rank}, {},
                   UNION {Cells(p, c.in[q]) : q \in Rank})
       [] OTHER -> Access({}, {}, {})

Conflict(x, y) ==
  \/ x.writes \cap (y.reads \cup y.adds \cup y.writes) # {}
  \/ y.writes \cap (x.reads \cup x.adds) # {}
  \/ x.adds \cap y.reads # {} \/ y.adds \cap x.reads # {}

\* Nobody touches what a pending transfer or message will write, or writes what it will read:
\* whatever the order in which MPI moves the data, the result is the same.
NoConflict ==
  /\ \A i, j \in DOMAIN PendingAccesses : i < j => ~Conflict(PendingAccesses[i], PendingAccesses[j])
  /\ \A i \in DOMAIN PendingAccesses, p \in Rank : ~Conflict(PendingAccesses[i], OwnAccess(p))

Declared(p, cells) == \A c \in cells : c[1] \in Rank /\ c[3] \in DOMAIN mem[c[1]][c[2]]
\* Rank p neither accesses window w nor has it exposed.
EpochsClosed(p, w) ==
  /\ By(p, w) = {} /\ windows[w].exposed[p] = {} /\ windows[w].accesses[p] = {}
  /\ \A q \in Rank : ~Locked(w, p, q)

\* Every call stays within the memory that the init function has declared, within the
\* window and the epoch that it belongs to, and the two sides of a call agree about the
\* amount of data.
CallsFit ==
  /\ \A p \in Rank :
       LET c == Call(p)
           own == OwnAccess(p)
       IN /\ Declared(p, own.reads \cup own.writes)
          /\ At(p, "irecv") \/ At(p, "transfer") => Declared(p, Cells(p, c.area))
          /\ At(p, "isend") \/ At(p, "irecv") => c.peer \in Rank
          /\ At(p, "isend") => c.mode # "buffered"       \* nobody attaches a buffer
          /\ At(p, "win_create") => Declared(p, Cells(p, c.area)) /\ c.win \notin DOMAIN windows
          /\ At(p, "win_free") => EpochsClosed(p, c.win)
          /\ At(p, "post") => windows[c.win].exposed[p] = {}
          /\ At(p, "start") => windows[c.win].accesses[p] = {}
          /\ At(p, "transfer") =>
               /\ c.peer \in Rank /\ c.at + c.area.n <= windows[c.win].area[c.peer].n
               /\ \/ windows[c.win].fenced
                  \/ c.peer \in windows[c.win].accesses[p]
                  \/ Locked(c.win, p, c.peer)
  /\ AllAt("collective") => \A p, q \in Rank : Call(p).out[q].n = Call(q).in[p].n
  /\ \A i \in DOMAIN messages, p \in Rank : \A j \in DOMAIN receives[p] :
       Matches(messages[i], receives[p][j], p) => messages[i].area.n <= receives[p][j].area.n

\* A measurement leaves no message, request, window or transfer to the next one.
NothingLeft ==
  AllFinished =>
    /\ messages = << >> /\ receives = [p \in Rank |-> << >>]
    /\ requests = [p \in Rank |-> [sends |-> 0, receives |-> 0]]
    /\ windows = << >> /\ transfers = << >>

-----------------------------------------------------------------------------
(* What the measured operations are for. *)

n_ == arg.count
\* Element i of a receive buffer is number At(i) of part Part(i).
Part(i) == i \div n_
Pos(i) == i % n_
Sum(ranks, i) == SumBags(LAMBDA q : Sent(q, i), ranks)
Counts(i) == initialize_counts(arg, arg.count, i)
Displ(i) == initialize_displs(Counts, i)
Before(p, k) == (p - k - 1) % arg.np
\* Element i of what rank p gets from all ranks, if the counts differ.
Charged_part(p, i) ==
  LET In(q) == init_recv_counts(arg, p, arg.recv_count * arg.np, q)
      Out(q) == init_send_counts(arg, arg.count * arg.np, q)
      q == CHOOSE r \in Rank : i - initialize_displs(In, r) \in 0 .. In(r) - 1
  IN Sent(q, initialize_displs(Out, p) + i - initialize_displs(In, q))

Pingpongs == {"Pingpong_Send_Recv", "Pingpong_Send_Iprobe_Recv", "Pingpong_Send_Irecv",
  "Pingpong_Send_Recv_AT", "Pingpong_Ssend_Recv", "Pingpong_Isend_Recv", "Pingpong_Issend_Recv",
  "Pingpong_Bsend_Recv"}
Alltoalls == {"Alltoall", "Alltoall_using_Isend_Irecv", "Alltoallv",
  "Alltoallv_using_Isend_Irecv", "delayed_Alltoall"}
Gathers == {"Gather", "Gatherv", "delayed_Gather"}
GathersFromOthers == {"Gather_using_Send_Recv", "Gather_using_Isend_Irecv_Waitall"}
\* Rank 0 writes the window or the receive buffer of rank 1.
Puts == {"Put_callduration", "Put_fence", "Put_dedicated", "Put_passive", "Isend_callduration",
  "Send", "Combining_Put_fence", "Combining_Put_dedicated", "Datatype_complex_everytime",
  "Datatype_complex_once", "Datatype_complex_mixed_everytime", "Datatype_complex_mixed_once",
  "Datatype_int", "Datatype_simple"}
\* Rank 0 reads the receive buffer of rank 1 into its send buffer.
Gets == {"Get_callduration", "Get_fence", "Get_dedicated", "Get_passive"}
\* Rank 0 reads the send buffer of rank 1 into its receive buffer.
SendBufferGets == {"Datatype_complex_Get", "Datatype_simple_Get"}
OwnPuts == {"Win_fence_close", "Win_fence_openclose", "Win_free"}
RootPuts == {"Win_complete", "Win_startcomplete", "Win_complete_delayed_wait"}
PutsToRoot == {"Win_fence_close_collective", "Win_wait_early_complete",
  "Win_wait_delayed_complete", "Win_test", "Win_test_delayed"}
ActiveWaits == {"Put_activewait_get", "Put_activewait_twosided", "Put_activewait_twosided_sleep",
  "Accumulate_activewait_twosided", "Get_activewait", "Get_activewait_sleep"}
Borders == {"onesided_borderexchange", "onesided_borderexchange_fence", "twosided_borderexchange"}

PromisedInRecv(p, i) ==
  CASE name \in Pingpongs /\ arg.iterations > 0 -> Sent(1 - p, i)
    [] name = "Pingpong_Sendrecv" /\ arg.iterations > 0 ->
         IF p = 1 \/ i < arg.recv_count THEN Sent(1 - p, i) ELSE Garbage(p, i)
    [] name = "Par_Pingpong_Send_Recv" /\ arg.iterations > 0 ->
         IF p < arg.procs THEN Sent(p + arg.nodesize, i)
         ELSE IF p \in arg.nodesize .. arg.nodesize + arg.procs - 1
         THEN Sent(p - arg.nodesize, i) ELSE Garbage(p, i)
    [] name = "Pingpong_Put_Put" /\ arg.iterations > 0 -> Sent(0, i)
    [] name \in Puts /\ p = 1 -> Sent(0, i)
    [] name = "Exchange" -> Sent(Before(p, Part(i)), Pos(i))
    [] name = "Reduce" /\ p = arg.root -> Sum(Rank, i)
    [] name = "Reduce_Scatterv" /\ p = arg.root -> Sum(Rank, i)
    [] name \in {"Allreduce", "Allreduce_using_Reduce_Bcast"} -> Sum(Rank, i)
    [] name = "Reduce_scatter" -> Sum(Rank, Displ(p) + i)
    [] name = "Scan" -> Sum(0 .. p, i)
    [] name \in Alltoalls -> Sent(Part(i), p * n_ + Pos(i))
    [] name \in Gathers -> Sent(Part(i), Pos(i))
    [] name \in GathersFromOthers /\ Part(i) # p -> Sent(Part(i), Pos(i))
    [] name = "myalltoallv" -> Charged_part(p, i)
    [] name \in {"Allgather", "Allgatherv"} -> Sent(Part(i), Pos(i))
    [] name \in {"Scatter", "Scatterv"} -> Sent(arg.root, p * n_ + i)
    [] name \in {"multi_Alltoall", "onesided_alltoall"} -> Sent(Part(i) % arg.np, p * n_ + Pos(i))
    [] name \in OwnPuts /\ arg.do_a_put /\ i = 0 -> Sent(p, 0)
    [] name = "Win_fence_close_delayed" -> Sent(Before(p, 0), i)
    [] name \in RootPuts /\ arg.do_a_put /\ p # 0 -> Sent(0, i)
    [] name = "Win_complete_n" /\ p # 0 -> Sent(0, Pos(i))
    [] name \in PutsToRoot /\ arg.do_a_put /\ Part(i) # 0 -> Sent(Part(i), Pos(i))
    [] name = "Win_unlock" /\ arg.do_a_put /\ p = arg.dest -> Sent(0, i)
    [] name = "Put_fence_bidirectional" -> Sent(1 - p, i)
    [] name = "Put_passive_concurrent" /\ p = 0 -> Sent(Part(i), Pos(i))
    [] name = "Caching" /\ p # 0 -> Sent(0, i)
    [] name = "Get_Pingpong" /\ p = 0 -> Garbage(1, i)
    [] name \in SendBufferGets /\ p = 0 -> Sent(1, i)
    [] name = "Accumulate" /\ p = 1 -> Garbage(p, i) (+) Sent(0, i)
    [] name = "Accumulate_concurrent" /\ p = 0 ->
         Garbage(0, i) (+) IF arg.disjoint THEN Sent(Part(i) + 1, Pos(i)) ELSE Sum(Others(arg), i)
    [] name = "Accumulate_concurrent_multi" ->
         Garbage(p, i) (+) IF arg.disjoint THEN Sent(Before(p, Part(i)), Pos(i))
                           ELSE Sum({Before(p, m) : m \in 0 .. arg.msg_count - 1}, i)
    [] name = "Put_Shift" -> Sent((p - arg.distance) % arg.np, i)
    [] name = "onesided_bcast" -> Sent(0, Pos(i))
    [] name = "onesided_reduce" /\ p = 0 -> Garbage(0, i) (+) Sum(Rank, i)
    [] name = "onesided_allreduce" -> Garbage(p, i) (+) Sum(Rank, i)
    [] OTHER -> Garbage(p, i)

PromisedInSend(p, i) ==
  CASE name \in {"Bcast", "Bcast_using_Send_Recv"} -> Sent(arg.root, i)
    [] name = "Pingpong_Sendrecv_replace" ->
         Sent(IF arg.iterations * arg.calls % 2 = 0 THEN p ELSE 1 - p, i)
    [] name = "Reduce_Scatterv" /\ i < Counts(p) -> Sum(Rank, Displ(p) + i)
    [] name \in Gets /\ p = 0 -> Garbage(1, i)
    [] name = "Get_Pingpong" /\ p = 1 -> Garbage(1, i)
    [] OTHER -> Sent(p, i)

\* Where the rows of the last step of a relaxation are.
LastGrid == IF arg.msg_count % 2 = 0 THEN "recv" ELSE "send"
Relaxed ==
  arg.compute /\ border_rows(arg) >= 3 => \A p \in Rank, i \in 1 .. border_rows(arg) :
    mem[p][LastGrid][i] = Row(p, i, arg.msg_count + 1)

\* When all have returned, every element of the buffers of every rank has what the measured
\* operation promises, and the elements it has no business with are untouched.
Delivered ==
  AllFinished =>
    CASE name \in Borders -> Relaxed
      [] name \in ActiveWaits ->
           \A p \in Rank : Element(p, "recv", n_ - 1) = Marker <=>
             p = IF name \in {"Get_activewait", "Get_activewait_sleep"} THEN 0 ELSE 1
      [] OTHER ->
           \A p \in Rank :
             /\ \A i \in DOMAIN mem[p].recv : mem[p].recv[i] = PromisedInRecv(p, i)
             /\ \A i \in DOMAIN mem[p].send : mem[p].send[i] = PromisedInSend(p, i)

\* No rank waits for ever for a message, for the other ranks, for a lock or an epoch.
AllReturn == <>AllFinished
=============================================================================
