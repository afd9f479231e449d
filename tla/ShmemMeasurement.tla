---------------------------- MODULE ShmemMeasurement ----------------------------
(***************************************************************************)
(* The PEs of a measurement of openshmem*.c executing their programs:      *)
(* symmetric memory, transfers, collective calls, locks, contexts.  A put  *)
(* that does not wait is delivered at any time before a call that          *)
(* completes it.                                                           *)
(***************************************************************************)
EXTENDS ShmemSync, BagsExt

\* Records of the name of a measurement, its argument and its program on each PE.
CONSTANT Measurements

ASSUME ShmemMeasurementsKnown ==
  \A m \in Measurements :
    /\ m.arg.np > 0 /\ m.arg.calls > 0 /\ m.arg.iterations \in Nat
    /\ \A p \in World(m.arg) : {"init", "measure", "finalize"} = DOMAIN m.program[p]

VARIABLES
  measurement,  \* name and argument
  todo,         \* calls that each PE has still to make
  mem,          \* contents of the objects of each PE, those released included
  heap,         \* size of the symmetric objects that are allocated, and of the buffer
  transfers,    \* bag of puts, gets and atomic operations that are not done
  entered,      \* how many collective calls each PE has entered
  holder,       \* the PE that holds the lock
  context       \* whether each PE has a context

vars == <<measurement, todo, mem, heap, transfers, entered, holder, context>>

name == measurement.name
arg == measurement.arg
PE == World(arg)
Nobody == -1

Object(p, obj, n) == obj :> [i \in 0 .. n - 1 |-> Original(p, obj, i)]

\* execute_measurement: init_, a reduction of whether the buffers are too small, the
\* measure function, the release of the arrays of results, finalize_.  The reduction
\* and the release are collective, with memory allocated and released.
Program(m, p) ==
  m.program[p].init \o shmem_barrier_all
  \o Times(m.arg.calls, LAMBDA i : m.program[p].measure)
  \o shmem_barrier_all \o m.program[p].finalize

Init ==
  \E m \in Measurements :
    /\ measurement = [name |-> m.name, arg |-> m.arg]
    /\ todo = [p \in World(m.arg) |-> Program(m, p)]
    /\ mem = [p \in World(m.arg) |-> Object(p, buffer, m.arg.buffer)]
    /\ heap = buffer :> m.arg.buffer
    /\ transfers = EmptyBag
    /\ entered = [p \in World(m.arg) |-> 0]
    /\ holder = Nobody
    /\ context = [p \in World(m.arg) |-> FALSE]

-----------------------------------------------------------------------------
(* The next call; memory. *)

Finished(p) == todo[p] = << >>
Call(p) == Head(todo[p])
At(p, op) == ~Finished(p) /\ Call(p).op = op
AllAt(op) == \A p \in PE : At(p, op)
Made(pes) == todo' = [p \in PE |-> IF p \in pes THEN Tail(todo[p]) ELSE todo[p]]

Contents(m, p, area) == [k \in DOMAIN area.cells |-> m[p][area.obj][area.cells[k]]]
Write(m, p, area, values) ==
  IF values = << >> THEN m
  ELSE [m EXCEPT ![p][area.obj] =
          [i \in DOMAIN @ |->
             IF \E k \in DOMAIN area.cells : area.cells[k] = i
             THEN values[CHOOSE k \in DOMAIN area.cells : area.cells[k] = i] ELSE @[i]]]

\* Transfers of PE p that a barrier or shmem_quiet waits for, and those of its context.
Pending(p, ctx) == {t \in DOMAIN transfers : t.from = p /\ t.context = ctx}
Quiet(pes) == \A p \in pes : Pending(p, FALSE) = {}

-----------------------------------------------------------------------------
(* Symmetric memory and barriers: all PEs together. *)

Malloc(obj) ==
  /\ AllAt("malloc") /\ \A p \in PE : Call(p).obj = obj
  /\ Quiet(PE)
  /\ LET n == Call(CHOOSE p \in PE : TRUE).size
     IN /\ heap' = obj :> n @@ heap
        /\ mem' = [p \in PE |-> Object(p, obj, n) @@ mem[p]]
  /\ Made(PE)
  /\ UNCHANGED <<measurement, transfers, entered, holder, context>>

Free(obj) ==
  /\ AllAt("free") /\ \A p \in PE : Call(p).obj = obj
  /\ Quiet(PE)
  /\ heap' = [o \in DOMAIN heap \ {obj} |-> heap[o]]
  /\ Made(PE)
  /\ UNCHANGED <<measurement, mem, transfers, entered, holder, context>>

Barrier ==
  /\ \/ AllAt("barrier") /\ Quiet(PE)
     \/ AllAt("sync")
  /\ Made(PE)
  /\ UNCHANGED <<measurement, mem, heap, transfers, entered, holder, context>>

-----------------------------------------------------------------------------
(* Transfers. *)

\* What a put takes with it: shmem_put the contents, as the caller may change them.
Taken(p, c) == CASE c.kind = "put" -> Contents(mem, p, c.area)
                 [] c.kind = "p" -> <<c.area>>
                 [] OTHER -> << >>

StartTransfer(p) ==
  /\ At(p, "transfer")
  /\ LET c == Call(p)
     IN transfers' = BagAdd(transfers,
          [kind |-> c.kind, from |-> p, peer |-> c.peer, at |-> c.at, area |-> c.area,
           context |-> c.context, data |-> Taken(p, c)])
  /\ Made({p})
  /\ UNCHANGED <<measurement, mem, heap, entered, holder, context>>

\* What an atomic operation makes of an int.
Results(old, atomic) ==
  CASE atomic.kind = "fetch" -> {old}
    [] atomic.kind = "change" -> {Changed(old)}
    [] atomic.kind = "set" -> {Number(atomic.value)}
    [] atomic.kind = "compare" ->
         {IF same THEN Number(atomic.value) ELSE old : same \in Equal(old, atomic.cmp)}

Atomically(q, at, atomic) ==
  \E new \in Results(Contents(mem, q, at)[1], atomic) : mem' = Write(mem, q, at, <<new>>)

Deliver(t) ==
  /\ CASE t.kind \in {"put", "p"} -> mem' = Write(mem, t.peer, t.at, t.data)
       [] t.kind = "put_nbi" -> mem' = Write(mem, t.peer, t.at, Contents(mem, t.from, t.area))
       [] t.kind = "get_nbi" -> mem' = Write(mem, t.from, t.area, Contents(mem, t.peer, t.at))
       [] t.kind = "atomic" -> Atomically(t.peer, t.at, t.area)
  /\ transfers' = BagRemove(transfers, t)
  /\ UNCHANGED <<measurement, todo, heap, entered, holder, context>>

Get(p) ==
  /\ At(p, "get")
  /\ LET c == Call(p) IN
       mem' = Write(mem, p, c.area, [k \in DOMAIN c.area.cells |-> Contents(mem, c.peer, c.at)[k]])
  /\ Made({p})
  /\ UNCHANGED <<measurement, heap, transfers, entered, holder, context>>

Fetch(p) ==
  /\ At(p, "fetch")
  /\ Atomically(Call(p).peer, Call(p).at, Call(p).atomic)
  /\ Made({p})
  /\ UNCHANGED <<measurement, heap, transfers, entered, holder, context>>

WaitQuiet(p) ==
  /\ At(p, "quiet")
  /\ Quiet({p})
  /\ Made({p})
  /\ UNCHANGED <<measurement, mem, heap, transfers, entered, holder, context>>

TakeTime(p) ==
  /\ At(p, "wtime") \/ At(p, "stop")
  /\ Made({p})
  /\ UNCHANGED <<measurement, mem, heap, transfers, entered, holder, context>>

-----------------------------------------------------------------------------
(* A PE on its own memory. *)

StoreInt(p) ==
  /\ At(p, "store")
  /\ mem' = Write(mem, p, Int_of(Call(p).obj), <<Call(p).value>>)
  /\ Made({p})
  /\ UNCHANGED <<measurement, heap, transfers, entered, holder, context>>

WaitUntil(p) ==
  /\ At(p, "wait")
  /\ TRUE \in Equal(mem[p][Call(p).obj][0], Call(p).value)
  /\ Made({p})
  /\ UNCHANGED <<measurement, mem, heap, transfers, entered, holder, context>>

-----------------------------------------------------------------------------
(* Collective calls. *)

Enter(p) ==
  /\ At(p, "enter")
  /\ entered' = [entered EXCEPT ![p] = @ + 1]
  /\ Made({p})
  /\ UNCHANGED <<measurement, mem, heap, transfers, holder, context>>

\* What PE p has in its memory when it leaves.
Received(p) ==
  LET c == Call(p)
      Sent(q) == Contents(mem, q, c.from[q])
      first == CHOOSE q \in PE : TRUE
  IN IF c.reduces
     THEN Write(mem, p, c.in[first],
                [k \in DOMAIN c.in[first].cells |-> All_of({Sent(q)[k] : q \in PE})])
     ELSE FoldSet(LAMBDA q, m : IF c.in[q].cells = << >> THEN m
                                ELSE Write(m, p, c.in[q], Sent(q)), mem, PE)

Leave(p) ==
  /\ At(p, "leave")
  /\ \A q \in Call(p).waits : entered[q] >= entered[p]
  /\ mem' = Received(p)
  /\ Made({p})
  /\ UNCHANGED <<measurement, heap, transfers, entered, holder, context>>

-----------------------------------------------------------------------------
(* Locks and contexts. *)

SetLock(p) ==
  /\ At(p, "set_lock")
  /\ holder = Nobody
  /\ holder' = p
  /\ Made({p})
  /\ UNCHANGED <<measurement, mem, heap, transfers, entered, context>>

\* Takes a lock that is free.
TestLock(p) ==
  /\ At(p, "test_lock")
  /\ holder' = IF holder = Nobody THEN p ELSE holder
  /\ Made({p})
  /\ UNCHANGED <<measurement, mem, heap, transfers, entered, context>>

ClearLock(p) ==
  /\ At(p, "clear_lock")
  /\ holder' = Nobody
  /\ Made({p})
  /\ UNCHANGED <<measurement, mem, heap, transfers, entered, context>>

CtxCreate(p) ==
  /\ At(p, "ctx_create")
  /\ context' = [context EXCEPT ![p] = TRUE]
  /\ Made({p})
  /\ UNCHANGED <<measurement, mem, heap, transfers, entered, holder>>

CtxDestroy(p) ==
  /\ At(p, "ctx_destroy")
  /\ Pending(p, TRUE) = {}
  /\ context' = [context EXCEPT ![p] = FALSE]
  /\ Made({p})
  /\ UNCHANGED <<measurement, mem, heap, transfers, entered, holder>>

AllFinished == \A p \in PE : Finished(p)
Done == AllFinished /\ UNCHANGED vars

Next ==
  \/ \E obj \in {sym, target, source, pwrk, ack, "ptr", "newptr"} : Malloc(obj) \/ Free(obj)
  \/ Barrier
  \/ \E t \in DOMAIN transfers : Deliver(t)
  \/ \E p \in PE :
       \/ StartTransfer(p) \/ Get(p) \/ Fetch(p) \/ WaitQuiet(p) \/ TakeTime(p)
       \/ StoreInt(p) \/ WaitUntil(p) \/ Enter(p) \/ Leave(p)
       \/ SetLock(p) \/ TestLock(p) \/ ClearLock(p) \/ CtxCreate(p) \/ CtxDestroy(p)
  \/ Done

\* OpenSHMEM makes progress.
Spec == Init /\ [][Next]_vars /\ WF_vars(Next)

-----------------------------------------------------------------------------
(* Properties. *)

\* Liveness.  Every PE gets through the measurement: barriers, waiting for a signal
\* that another PE may already have sent, collective calls and locks never leave
\* all waiting (the rounds of measure_Shmem_Bcast_All_SK, size + 1 barriers of the
\* locker in measure_Shmem_Lock_Test_Busy_Round).
AllReturn == <>AllFinished

Allocated(area) ==
  area.cells # << >> =>
    /\ area.obj \in DOMAIN heap
    /\ \A k \in DOMAIN area.cells : area.cells[k] \in 0 .. heap[area.obj] - 1

Used(p) ==
  LET c == Call(p)
  IN CASE c.op = "transfer" -> {c.at} \cup (IF c.kind \in {"p", "atomic"} THEN {} ELSE {c.area})
       [] c.op = "get" -> {c.at, c.area}
       [] c.op = "fetch" -> {c.at}
       [] c.op \in {"store", "wait"} -> {Int_of(c.obj)}
       [] c.op = "leave" -> UNION {{c.from[q], c.in[q]} : q \in PE}
       [] OTHER -> {}

\* No PE reads or writes outside of an object that is allocated, and no transfer is on
\* its way to one that has been released; what is released was allocated.  The objects
\* of init_ and what measure_ does are in functions that share only the names, and
\* transfers outlive the calls that started them.
InBounds ==
  /\ \A p \in PE : ~Finished(p) =>
       /\ \A area \in Used(p) : Allocated(area)
       /\ At(p, "free") => Call(p).obj \in DOMAIN heap
       /\ At(p, "malloc") => Call(p).obj \notin DOMAIN heap
       /\ At(p, "transfer") \/ At(p, "fetch") => (Call(p).context => context[p])
  /\ \A t \in DOMAIN transfers : Allocated(t.at)

\* The measurements of "the time to post a non-blocking operation, and only the time
\* to post it" (openshmem_p2p.c:422).
Posting == {"Shmem_" \o direction \o "_Nonblocking_" \o kind :
              direction \in {"Put", "Get"}, kind \in {"Post", "Post_Single"}}
NextTime(p) == SelectSeq(todo[p], LAMBDA c : c.op \in {"wtime", "stop"})[1].op
Complete(p) == Pending(p, FALSE) = {} /\ Pending(p, TRUE) = {}

\* When a PE takes the time of transfers, they are complete and not only posted, but
\* in the measurements of posting: those take the time before they wait, and what they
\* posted is complete, too, when stop_synchronization judges whether the run took too
\* long.  A fence, which only orders, completes nothing.
CompleteWhenTimed ==
  name # "Shmem_Fence_Put" =>
    \A p \in PE :
      /\ At(p, "stop") => Complete(p)
      /\ At(p, "wtime") /\ name \notin Posting => Complete(p)
      /\ At(p, "quiet") /\ name \in Posting => NextTime(p) = "stop"

\* Locks are in the state in which their operations are to be measured: a lock that is
\* tested is held, and in the measurements "in turns" by one PE at a time; a lock that
\* is set is free.  In the end no lock is held.
LockAsMeant ==
  /\ \A p \in PE : At(p, "test_lock") => holder # Nobody
  /\ name \in {"Shmem_Lock_Test_Busy_Turns", "Shmem_Lock_Test_Busy_Round"} =>
       \A p, q \in PE : At(p, "test_lock") /\ At(q, "test_lock") => p = q
  /\ \A p \in PE : At(p, "set_lock") => holder = Nobody
  /\ AllFinished => holder = Nobody

-----------------------------------------------------------------------------
(* What the PEs have in their memory in the end. *)

Left(p) == (p - 1) % arg.np
Right(p) == (p + 1) % arg.np

\* The names of the measurements that share an expectation.
Posted(direction) == {"Shmem_" \o direction \o "_Nonblocking_" \o kind :
                        kind \in {"Post", "Full", "Quiet", "Overlap", "Quiet_Single", "Overlap_Single"}}
By_therank(direction) == {"Shmem_" \o direction \o "_Nonblocking_" \o kind :
                        kind \in {"Post_Single", "Full_Single"}}
Of_kind(kind) == {"Shmem_Atomic_" \o kind, "Shmem_Ctx_Atomic_" \o kind}

\* Elements of an object of PE p are those of a PE of qs, or what they were if there is none.
Copied(p, obj, cells, qs, from) ==
  \A i \in cells : mem[p][obj][i] =
    IF qs = {} THEN Original(p, obj, i) ELSE Original(CHOOSE q \in qs : TRUE, from, i)
Bytes == 0 .. arg.count - 1
InWords == 0 .. Words(arg.count) - 1

PutsDelivered(p) ==
  /\ name \in Posted("Put") \cup {"Shmem_Put_Round", "Shmem_Put_Full"} =>
       Copied(p, sym, Bytes, {Left(p)}, buffer)
  /\ name \in By_therank("Put") \cup {"Shmem_Put_Full_Single"} =>
       Copied(p, sym, Bytes, {Left(p)} \cap {arg.therank}, buffer)
  /\ name = "Shmem_Put_Simple" => Copied(p, sym, Bytes, {0} \cap {1 - p}, buffer)
  /\ name = "Shmem_Pingpong_Put_Put" => Copied(p, sym, Bytes, {0, 1} \cap {1 - p}, buffer)
  /\ name = "Shmem_Iput_Round" =>
       Copied(p, sym, {arg.stride * i : i \in Bytes}, {Left(p)}, buffer)
  /\ name \in {"Shmem_Quiet_Put", "Shmem_Fence_Put"} =>
       Copied(p, target, 0 .. arg.nb - 1, {Left(p)}, buffer)
  /\ name = "Shmem_P_Round" \/ (name = "Shmem_P_Simple" /\ p = 1) =>
       mem[p][sym][0] = Number(arg.iterations - 1)

GetsDelivered(p) ==
  /\ name \in Posted("Get") \cup {"Shmem_Get_Round"} =>
       Copied(p, buffer, Bytes, {Right(p)}, sym)
  /\ name \in By_therank("Get") =>
       Copied(p, buffer, Bytes, IF p = arg.therank THEN {Right(p)} ELSE {}, sym)

CollectivesDelivered(p) ==
  /\ name \in {"Shmem_Bcast_All", "Shmem_Bcast_All_Synchro", "Shmem_Bcast_All_SK",
                "Shmem_Bcast_All_SK_time"} =>
       Copied(p, target, InWords, {arg.root} \ {p}, source)
  /\ name = "Shmem_Bcast_All_Rounds" =>
       Copied(p, target, InWords, IF PE = {p} THEN {} ELSE {Max(PE \ {p})}, source)
  /\ name \in {"Shmem_Reduce_And_Consecutive", "Shmem_Reduce_And_Barrier",
                "Shmem_Reduce_And_Synchro"} =>
       \A i \in 0 .. 2 * (arg.count \div 2) - 1 :
         mem[p][target][i] = All_of({Original(q, source, i) : q \in PE})
  /\ name \in {"Shmem_Collect_Consecutive", "Shmem_Collect_Barrier", "Shmem_Collect_Synchro"} =>
       \A q \in PE, i \in InWords :
         mem[p][source][q * Words(arg.count) + i] = Original(q, target, i)
  /\ name \in {"Shmem_Alltoall_Consecutive", "Shmem_Alltoall_Barrier"} =>
       \A q \in PE, i \in InWords :
         mem[p][source][q * Words(arg.count) + i] = Original(q, target, p * Words(arg.count) + i)
  /\ name \in {"Shmem_Alltoalls_Consecutive", "Shmem_Alltoalls_Barrier",
                "Shmem_Alltoalls_Synchro"} =>
       \A q \in PE, i \in InWords :
         mem[p][target][q * Words(arg.count) + i] = Original(q, source, p * Words(arg.count) + i)

\* PEs whose partner PE p is: its neighbour in a pair, the last of an odd number.
Partners(p) ==
  {q \in PE : q = (IF p % 2 = 0 THEN p + 1 ELSE p - 1) \/ (p = 0 /\ arg.np % 2 = 1 /\ q = arg.np - 1)}
\* What a compare-and-swap with a context leaves is not known: the int was never set.
AtomicsDelivered(p) ==
  LET now == mem[p][ack][0]
      at_first == IF name \in {"Shmem_Atomic_" \o k : k \in
                                 {"Fetch", "Fetch_Inc", "Fetch_Add", "Swap", "Compare_Swap_Yes",
                                  "Compare_Swap_No", "Inc", "Add", "Set"}}
                  THEN Number(p) ELSE Original(p, ack, 0)
  IN /\ name \in Of_kind("Fetch_Inc") \cup Of_kind("Fetch_Add") \cup Of_kind("Inc") \cup Of_kind("Add") =>
          now = [at_first EXCEPT !.changes = Cardinality(Partners(p)) * arg.iterations * arg.calls]
     /\ name \in Of_kind("Swap") \cup Of_kind("Set") =>
          now = IF Partners(p) = {} THEN at_first ELSE Number(value)
     /\ name = "Shmem_Atomic_Compare_Swap_Yes" =>
          now = IF Partners(p) = {} THEN at_first ELSE Number(value)
     /\ name \in {"Shmem_Atomic_Compare_Swap_No"} \cup Of_kind("Fetch") => now = at_first

\* When all have finished, each PE has exactly what the measurement was to transfer,
\* wherever transfers of different PEs, of successive iterations and of successive
\* calls overlap: a put or get round the ring, the pieces of a collective call, as many
\* atomic operations as PEs and iterations, a comparison that succeeds once ("Yes") or
\* never ("No").
Delivered ==
  AllFinished /\ arg.iterations > 0 =>
    \A p \in PE : PutsDelivered(p) /\ GetsDelivered(p) /\ CollectivesDelivered(p) /\ AtomicsDelivered(p)
=============================================================================
