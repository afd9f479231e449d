------------------------------ MODULE ShmemCalls ------------------------------
(***************************************************************************)
(* The calls to OpenSHMEM that the measurements of openshmem*.c make.  A   *)
(* program is the sequence of calls of one PE; the module ShmemMeasurement *)
(* executes it.  Sizes are in bytes, but an int is one element.  Calls     *)
(* that only order (shmem_fence) are left out, and of wtime() all but the  *)
(* calls that end the time of transfers.  An argument a holds              *)
(*   np          number of PEs                                             *)
(*   count       bytes                                                     *)
(*   iterations  repetitions within a call of the measure function         *)
(*   calls       how often the measure function is called                  *)
(*   barrier     whether the user chose SYNC_BARRIER                       *)
(*   buffer      bytes in the send buffer; as these measurements do not    *)
(*               say what they use of it, the receive buffer is the same   *)
(* and the other parameters of the measurements under their names.         *)
(***************************************************************************)
EXTENDS Integers, Sequences, FiniteSets, SequencesExt, FiniteSetsExt

World(a) == 0 .. a.np - 1

Times(n, F(_)) == FlattenSeq([i \in 1 .. n |-> F(i - 1)])
Iterated(a, calls) == FlattenSeq([i \in 1 .. a.iterations |-> calls])
When(b, calls) == IF b THEN calls ELSE << >>

\* The contents of an element: what was stored, and how many atomic operations changed it.
Stored(what) == [what |-> what, changes |-> 0]
Number(v) == Stored(<<"int", v>>)
Original(p, obj, i) == Stored(<<"original", p, obj, i>>)
All_of(values) == Stored(<<"all", values>>)       \* the result of a reduction
Changed(v) == [v EXCEPT !.changes = @ + 1]
\* Nobody knows whether what was never stored is the number.
Equal(v, number) == IF v.what[1] = "int" THEN {v.what[2] + v.changes = number} ELSE BOOLEAN

\* n elements of an object, stride apart.
Strided(obj, n, stride) == [obj |-> obj, cells |-> [k \in 1 .. n |-> (k - 1) * stride]]
From(obj, first, n) == [obj |-> obj, cells |-> [k \in 1 .. n |-> first + k - 1]]
All(obj, n) == From(obj, 0, n)
Int_of(obj) == All(obj, 1)
buffer == "buffer"                          \* get_send_buffer(), get_recv_buffer()

\* What init_, measure_ and finalize_ do.
Measured(init, measure, finalize) ==
  [init |-> init, measure |-> measure, finalize |-> finalize]

-----------------------------------------------------------------------------
(* Symmetric memory.  Allocation ends and release begins with a barrier. *)

shmem_malloc(obj, n) == << [op |-> "malloc", obj |-> obj, size |-> n] >>
shmem_free(obj) == << [op |-> "free", obj |-> obj] >>
shmem_realloc(obj, new, n) == shmem_malloc(new, n) \o shmem_free(obj)

shmem_barrier_all == << [op |-> "barrier"] >>
shmem_sync_all == << [op |-> "sync"] >>
\* The start of a measurement that has called init_synchronization.
start_synchronization(a) == When(a.barrier, shmem_barrier_all)
stop_synchronization == << [op |-> "stop"] >>
\* The end of a time that stop_synchronization does not take.
wtime == << [op |-> "wtime"] >>

-----------------------------------------------------------------------------
(* Transfers.  Those that return before they are complete are waited for by
   shmem_quiet, if they do not belong to a context. *)

Transfer_call(kind, q, at, area, context) ==
  << [op |-> "transfer", kind |-> kind, peer |-> q, at |-> at, area |-> area,
      context |-> context] >>
shmem_put(to, from, q) == Transfer_call("put", q, to, from, FALSE)
shmem_int_p(obj, v, q) == Transfer_call("p", q, Int_of(obj), Number(v), FALSE)
shmem_put_nbi(to, from, q) == Transfer_call("put_nbi", q, to, from, FALSE)
shmem_get_nbi(to, from, q) == Transfer_call("get_nbi", q, from, to, FALSE)
shmem_get(to, from, q) == << [op |-> "get", peer |-> q, at |-> from, area |-> to] >>
shmem_int_g(obj, q) == shmem_get(All(buffer, 0), Int_of(obj), q)   \* into a variable
shmem_quiet == << [op |-> "quiet"] >>

\* Atomic operations on an int: "fetch" leaves it, "change" adds or combines a value,
\* "set" stores value, "compare" stores it if the int is cmp.
Atomic(kind, cmp, value) == [kind |-> kind, cmp |-> cmp, value |-> value]
Fetching(context, obj, q, atomic) ==
  << [op |-> "fetch", peer |-> q, at |-> Int_of(obj), atomic |-> atomic, context |-> context] >>
Not_fetching(context, obj, q, atomic) == Transfer_call("atomic", q, Int_of(obj), atomic, context)
shmem_int_atomic_fetch_inc(obj, q) == Fetching(FALSE, obj, q, Atomic("change", 0, 0))
shmem_ctx_create == << [op |-> "ctx_create"] >>
shmem_ctx_destroy == << [op |-> "ctx_destroy"] >>

-----------------------------------------------------------------------------
(* Work of a PE on its own memory. *)

Store(obj, v) == << [op |-> "store", obj |-> obj, value |-> v] >>
shmem_int_wait_until(obj, v) == << [op |-> "wait", obj |-> obj, value |-> v] >>

-----------------------------------------------------------------------------
(* Collective calls.  A PE leaves when the PEs it gets data from have entered; in[q]
   is where it puts what comes from from[q] in the memory of PE q. *)

Coll(waits, from, in, reduces) ==
  << [op |-> "enter"],
     [op |-> "leave", waits |-> waits, from |-> from, in |-> in, reduces |-> reduces] >>
Nothing == All(buffer, 0)
Each(a, area) == [q \in World(a) |-> area]

\* Elements of 32 bits: what does not fill a whole one is not sent.
Words(n) == 4 * (n \div 4)
shmem_broadcast32(a, p, to, from, n, root) ==
  IF p = root \/ Words(n) = 0 THEN Coll({}, Each(a, Nothing), Each(a, Nothing), FALSE)
  ELSE Coll({root}, Each(a, All(from, Words(n))),
            [q \in World(a) |-> IF q = root THEN All(to, Words(n)) ELSE Nothing], FALSE)
shmem_short_and_to_all(a, to, from, n) ==
  LET bytes == 2 * (n \div 2)
  IN Coll(World(a), Each(a, All(from, bytes)), Each(a, All(to, bytes)), TRUE)
\* Also shmem_fcollect32.
shmem_collect32(a, p, to, from, n) ==
  Coll(World(a), Each(a, All(from, Words(n))),
       [q \in World(a) |-> From(to, q * Words(n), Words(n))], FALSE)
\* Also shmem_alltoalls32, with strides of 1.
shmem_alltoall32(a, p, to, from, n) ==
  Coll(World(a), Each(a, From(from, p * Words(n), Words(n))),
       [q \in World(a) |-> From(to, q * Words(n), Words(n))], FALSE)

-----------------------------------------------------------------------------
(* Locks. *)

shmem_set_lock(l) == << [op |-> "set_lock", lock |-> l] >>
shmem_test_lock(l) == << [op |-> "test_lock", lock |-> l] >>
shmem_clear_lock(l) == << [op |-> "clear_lock", lock |-> l] >>
=============================================================================
