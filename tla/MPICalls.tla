------------------------------ MODULE MPICalls ------------------------------
(***************************************************************************)
(* The calls to MPI that the measurements of pt2pt.c, node2node.c, coll.c, *)
(* delayed.c and onesided.c make.  A program is the sequence of calls of   *)
(* one rank; loops, counts and displacements are worked out here, the      *)
(* module MPIMeasurement executes the calls.  Sizes are in elements of the *)
(* datatype, so that get_extent(count, datatype) is count.  An argument a  *)
(* holds                                                                   *)
(*   np                   size of the measurement communicator             *)
(*   count, recv_count    elements                                         *)
(*   calls                how often the measure function is called         *)
(* and the other parameters of the measurements under their names.         *)
(***************************************************************************)
EXTENDS Integers, Sequences, FiniteSets, SequencesExt, FiniteSetsExt

World(a) == 0 .. a.np - 1                   \* get_measurement_comm()

Times(n, F(_)) == FlattenSeq([i \in 1 .. n |-> F(i - 1)])
When(b, calls) == IF b THEN calls ELSE << >>

\* n elements of the send buffer, of the receive buffer, of a local variable.
Area(buf, first, n) == [buf |-> buf, first |-> first, n |-> n]
SB(first, n) == Area("send", first, n)
RB(first, n) == Area("recv", first, n)
Local == Area("local", 0, 1)
Nothing == SB(0, 0)

\* What init_ declares to be used of the two buffers, what measure_ does.
Measured(send, recv, calls) == [send |-> send, recv |-> recv, calls |-> calls]

-----------------------------------------------------------------------------
Copy(from, to) == << [op |-> "copy", from |-> from, to |-> to] >>    \* memcpy

(* Messages.  A blocking call is started and then waited for. *)

AnyTag == -1
Start_send(mode, q, tag, area) ==
  << [op |-> "isend", mode |-> mode, peer |-> q, tag |-> tag, area |-> area] >>
MPI_Isend(q, tag, area) == Start_send("standard", q, tag, area)
MPI_Issend(q, tag, area) == Start_send("synchronous", q, tag, area)
MPI_Irecv(q, tag, area) == << [op |-> "irecv", peer |-> q, tag |-> tag, area |-> area] >>
Wait_sends == << [op |-> "wait", sends |-> TRUE, receives |-> FALSE] >>
Wait_receives == << [op |-> "wait", sends |-> FALSE, receives |-> TRUE] >>
MPI_Waitall == << [op |-> "wait", sends |-> TRUE, receives |-> TRUE] >>

MPI_Send(q, tag, area) == MPI_Isend(q, tag, area) \o Wait_sends
MPI_Ssend(q, tag, area) == MPI_Issend(q, tag, area) \o Wait_sends
MPI_Bsend(q, tag, area) == Start_send("buffered", q, tag, area) \o Wait_sends
MPI_Recv(q, tag, area) == MPI_Irecv(q, tag, area) \o Wait_receives
MPI_Sendrecv(q, send_tag, out, recv_tag, in) ==
  MPI_Irecv(q, recv_tag, in) \o MPI_Isend(q, send_tag, out) \o MPI_Waitall
MPI_Sendrecv_replace(q, send_tag, recv_tag, area) ==
  Copy(area, Area("local", 0, area.n))
  \o MPI_Sendrecv(q, send_tag, Area("local", 0, area.n), recv_tag, area)
\* do { MPI_Iprobe } while (!flag)
Probe(q, tag) == << [op |-> "probe", peer |-> q, tag |-> tag] >>

-----------------------------------------------------------------------------
(* Collective calls: out[q] is what goes to rank q, in[q] where to put what comes
   from q; if the call reduces, what comes is combined. *)

Coll(name, a, out, in, reduces) ==
  << [op |-> "collective", name |-> name, out |-> [q \in World(a) |-> out[q]],
      in |-> [q \in World(a) |-> in[q]], reduces |-> reduces] >>
To(a, q, area) == [r \in World(a) |-> IF r = q THEN area ELSE Nothing]
Each(a, area) == [q \in World(a) |-> area]
None(a) == Each(a, Nothing)

MPI_Barrier(a) == Coll("MPI_Barrier", a, None(a), None(a), FALSE)
\* Waits in SYNC_BARRIER only; in the other modes ranks wait for a time or not at all.
start_synchronization(a) == When(a.barrier, MPI_Barrier(a))
MPI_Comm_split(a) == Coll("MPI_Comm_split", a, None(a), None(a), FALSE)
MPI_Comm_dup(a) == Coll("MPI_Comm_dup", a, None(a), None(a), FALSE)
MPI_Comm_free(a) == Coll("MPI_Comm_free", a, None(a), None(a), FALSE)
MPI_Bcast(a, p, area, root) ==
  Coll("MPI_Bcast", a,
       IF p = root THEN [q \in World(a) |-> IF q = root THEN Nothing ELSE area] ELSE None(a),
       IF p = root THEN None(a) ELSE To(a, root, area), FALSE)
MPI_Reduce(a, p, out, in, root) ==
  Coll("MPI_Reduce", a, To(a, root, out), IF p = root THEN Each(a, in) ELSE None(a), TRUE)
MPI_Allreduce(a, out, in) == Coll("MPI_Allreduce", a, Each(a, out), Each(a, in), TRUE)
MPI_Reduce_scatter(a, Out(_), in) ==
  Coll("MPI_Reduce_scatter", a, [q \in World(a) |-> Out(q)], Each(a, in), TRUE)
MPI_Scan(a, p, out, in) ==
  Coll("MPI_Scan", a, [q \in World(a) |-> IF q >= p THEN out ELSE Nothing],
       [q \in World(a) |-> IF q <= p THEN in ELSE Nothing], TRUE)
\* Also the variants with one count for all.
MPI_Gatherv(a, p, out, In(_), root) ==
  Coll("MPI_Gatherv", a, To(a, root, out),
       [q \in World(a) |-> IF p = root THEN In(q) ELSE Nothing], FALSE)
MPI_Scatterv(a, p, Out(_), in, root) ==
  Coll("MPI_Scatterv", a, [q \in World(a) |-> IF p = root THEN Out(q) ELSE Nothing],
       To(a, root, in), FALSE)
MPI_Allgatherv(a, out, In(_)) ==
  Coll("MPI_Allgatherv", a, Each(a, out), [q \in World(a) |-> In(q)], FALSE)
MPI_Alltoallv(a, Out(_), In(_)) ==
  Coll("MPI_Alltoallv", a, [q \in World(a) |-> Out(q)], [q \in World(a) |-> In(q)], FALSE)

-----------------------------------------------------------------------------
(* Windows.  Displacements are in elements. *)

MPI_Win_create(w, area) == << [op |-> "win_create", win |-> w, area |-> area] >>
MPI_Win_free(w) == << [op |-> "win_free", win |-> w] >>
Fence(w, succeed) == << [op |-> "fence", win |-> w, succeed |-> succeed] >>
MPI_Win_fence(w) == Fence(w, TRUE)
MPI_Win_fence_last(w) == Fence(w, FALSE)    \* MPI_MODE_NOSUCCEED
MPI_Win_post(w, group) == << [op |-> "post", win |-> w, group |-> group] >>
MPI_Win_start(w, group) == << [op |-> "start", win |-> w, group |-> group] >>
MPI_Win_complete(w) == << [op |-> "complete", win |-> w] >>
MPI_Win_wait(w) == << [op |-> "wait_win", win |-> w] >>
\* MPI_Win_test, and MPI_Win_wait if the flag is 0.
Test_or_wait(w) == << [op |-> "test", win |-> w] >> \o MPI_Win_wait(w)
MPI_Win_lock(w, q, shared) == << [op |-> "lock", win |-> w, peer |-> q, shared |-> shared] >>
MPI_Win_unlock(w, q) == << [op |-> "unlock", win |-> w, peer |-> q] >>
Transfer_call(kind, w, area, q, at) ==
  << [op |-> "transfer", kind |-> kind, win |-> w, area |-> area, peer |-> q, at |-> at] >>
MPI_Put(w, area, q, at) == Transfer_call("put", w, area, q, at)
MPI_Get(w, area, q, at) == Transfer_call("get", w, area, q, at)
MPI_Accumulate(w, area, q, at) == Transfer_call("accumulate", w, area, q, at)

-----------------------------------------------------------------------------
(* Work of one rank on its memory. *)

Store(area, value) == << [op |-> "store", to |-> area, value |-> value] >>
\* while (*lastitem != value) ;  on the memory of rank q
Poll(q, area, value) == << [op |-> "poll", peer |-> q, area |-> area, value |-> value] >>
\* Row i of the grid to becomes the mean of the rows i - 1, i, i + 1 of from.
Relax(from, to, rows) == << [op |-> "relax", from |-> from, to |-> to, rows |-> rows] >>
=============================================================================
