-------------------------- MODULE MCMPIMeasurement --------------------------
(* Small instances of MPIMeasurement for TLC. *)
EXTENDS MPIMeasurement

Argument ==
  [np |-> 2, count |-> 2, recv_count |-> 2, calls |-> 2, barrier |-> FALSE,
   iterations |-> 1, procs |-> 1, nodesize |-> 1, root |-> 0, msg_count |-> 2,
   node |-> 0, ratio |-> 2, do_a_put |-> TRUE, delay_rank |-> -1, dest |-> 1,
   shared |-> FALSE, disjoint |-> FALSE, distance |-> 1, rows |-> 3, compute |-> TRUE]

RunOn(name_, A, eagers, Op(_, _)) ==
  {[name |-> name_, arg |-> a, program |-> [p \in World(a) |-> Op(a, p)], eager |-> eagers] : a \in A}
Run(name_, A, Op(_, _)) == RunOn(name_, A, BOOLEAN, Op)
RunEager(name_, A, Op(_, _)) == RunOn(name_, A, {TRUE}, Op)

Once == [Argument EXCEPT !.calls = 1]
On(n, a) == [a EXCEPT !.np = n]
Sync(A) == {[a EXCEPT !.barrier = b] : a \in A, b \in BOOLEAN}
Optional(A) == {[a EXCEPT !.do_a_put = b] : a \in A, b \in BOOLEAN}
Overlapping(A) == {[a EXCEPT !.disjoint = b] : a \in A, b \in BOOLEAN}
Locking(A) == {[a EXCEPT !.shared = b] : a \in A, b \in BOOLEAN}
Rooted(A) == UNION {{[a EXCEPT !.root = r] : r \in World(a)} : a \in A}
Counted(A, counts) == {[a EXCEPT !.count = n, !.recv_count = n] : a \in A, n \in counts}

-----------------------------------------------------------------------------
(* Messages between two ranks *)

Two == {[Argument EXCEPT !.iterations = i] : i \in 0 .. 2}
Swapped == {[a EXCEPT !.recv_count = n] : a \in Two, n \in 0 .. 2}
\* Two groups of one rank each.
Groups == {[On(n, Argument) EXCEPT !.nodesize = 1, !.iterations = i] : n \in 2 .. 3, i \in 0 .. 2}
Exchanged == Sync({[On(3, Once) EXCEPT !.count = 1, !.msg_count = 1], Argument})

Messages ==
  Run("Pingpong_Send_Recv", Two, Pingpong_Send_Recv)
  \cup Run("Pingpong_Send_Iprobe_Recv", Two, Pingpong_Send_Iprobe_Recv)
  \cup Run("Pingpong_Send_Irecv", Two, Pingpong_Send_Irecv)
  \cup Run("Pingpong_Send_Recv_AT", Two, Pingpong_Send_Recv_AT)
  \cup Run("Pingpong_Ssend_Recv", Two, Pingpong_Ssend_Recv)
  \cup Run("Pingpong_Isend_Recv", Two, Pingpong_Isend_Recv)
  \cup Run("Pingpong_Issend_Recv", Two, Pingpong_Issend_Recv)
  \cup Run("Pingpong_Sendrecv", Swapped, Pingpong_Sendrecv)
  \cup Run("Pingpong_Sendrecv_replace", Two, Pingpong_Sendrecv_replace)
  \cup Run("Par_Pingpong_Send_Recv", Groups, Par_Pingpong_Send_Recv)
  \cup Run("Isend_callduration", Sync({Argument}), Isend_callduration)
  \cup Run("Send", {Argument}, Send)
  \cup Run("Exchange", Exchanged, Exchange)

-----------------------------------------------------------------------------
(* Collective calls *)

Colls == Rooted(Sync({On(3, Argument)}))
Uneven == Counted(Colls, {1, 2, 4})
Single == [Argument EXCEPT !.count = 1, !.recv_count = 1]
Trees == Rooted({On(n, Argument) : n \in 1 .. 3}) \cup Sync({[On(4, Once) EXCEPT !.root = 2]})
Charges == UNION {{[On(3, Argument) EXCEPT !.count = n, !.recv_count = n, !.node = q, !.ratio = r] :
                     q \in 0 .. 2} : n \in 1 .. 3, r \in 1 .. 2}
Sums == Counted(Rooted(Sync({On(3, Once)})), {1, 3, 4})
Slow == Sync({On(3, Once)})

Collectives ==
  Run("Bcast", Colls, Bcast)
  \cup Run("Bcast_using_Send_Recv", Trees, Bcast_using_Send_Recv)
  \cup Run("Barrier", Colls, Barrier)
  \cup Run("Reduce", Colls, Reduce)
  \cup Run("Allreduce", Colls, Allreduce)
  \cup Run("Allreduce_using_Reduce_Bcast", Colls, Allreduce_using_Reduce_Bcast)
  \cup Run("Reduce_scatter", Uneven, Reduce_scatter)
  \cup Run("Alltoall", Colls, Alltoall)
  \cup Run("Alltoall_using_Isend_Irecv", {Single}, Alltoall_using_Isend_Irecv)
  \cup Run("Gather", Colls, Gather)
  \cup Run("Gather_using_Send_Recv", Colls, Gather_using_Send_Recv)
  \cup Run("Gather_using_Isend_Irecv_Waitall", Colls, Gather_using_Isend_Irecv_Waitall)
  \cup Run("Allgather", Colls, Allgather)
  \cup Run("Scatter", Colls, Scatter)
  \cup Run("Reduce_Scatterv", Sums, Reduce_Scatterv)
  \cup Run("Alltoallv", Uneven, Alltoallv)
  \cup Run("Alltoallv_using_Isend_Irecv", Sync({Once}), Alltoallv_using_Isend_Irecv)
  \cup Run("Gatherv", Uneven, Gatherv)
  \cup Run("Allgatherv", Uneven, Allgatherv)
  \cup Run("Scatterv", Uneven, Scatterv)
  \cup Run("Scan", Colls, Scan)
  \cup Run("Comm_split", Colls, Comm_split)
  \cup Run("Comm_dup", Colls, Comm_dup)
  \cup Run("myalltoallv", Charges, myalltoallv)
  \cup Run("delayed_Alltoall", Slow, delayed_Alltoall)
  \cup Run("delayed_Gather", Slow, delayed_Gather)
  \cup Run("multi_Alltoall", Slow, multi_Alltoall)

-----------------------------------------------------------------------------
(* One-sided calls *)

All == Sync({Argument, On(3, Once)})
Putting == Optional(All)
Late == {[a EXCEPT !.delay_rank = r] : a \in All, r \in {-1, 1}}
Passively == Locking(Sync({Argument}))
Together_ == Locking(Sync({Once, On(3, Single)}))
Adding == Sync({Once})
AddingTogether == Overlapping(Sync({Once, [On(3, Once) EXCEPT !.count = 1]}))
Grid_(n, t) == [Once EXCEPT !.rows = n, !.msg_count = t]
Grids == {Grid_(3, t) : t \in 0 .. 2} \cup {Grid_(4, 1), On(1, Grid_(3, 1))}
Rows == Sync({Grid_(2, 1), [Grid_(3, 1) EXCEPT !.compute = FALSE]}) \cup {On(3, Grid_(3, 0))}

Synchronizations ==
  Run("Win_fence_open", All, Win_fence_open)
  \cup Run("Win_fence_close", Putting, Win_fence_close)
  \cup Run("Win_fence_close_collective", Putting, Win_fence_close_collective)
  \cup Run("Win_fence_close_delayed", All, Win_fence_close_delayed)
  \cup Run("Win_fence_openclose", Putting, Win_fence_openclose)
  \cup Run("Win_start", All, Win_start)
  \cup Run("Win_start_delayed_post", Late, Win_start_delayed_post)
  \cup Run("Win_post", All, Win_post)
  \cup Run("Win_complete", Putting, Win_complete)
  \cup Run("Win_startcomplete", Putting, Win_startcomplete)
  \cup Run("Win_complete_n", All, Win_complete_n)
  \cup Run("Win_complete_delayed_wait", All, Win_complete_delayed_wait)
  \cup Run("Win_wait_early_complete", Putting, Win_wait_early_complete)
  \cup Run("Win_wait_delayed_complete", All, Win_wait_delayed_complete)
  \cup Run("Win_test", Putting, Win_test)
  \cup Run("Win_test_delayed", Putting, Win_test_delayed)
  \cup Run("Win_create", All, Win_create)
  \cup Run("Win_free", Putting, Win_free)
  \cup Run("Win_lock", Passively, Win_lock)
  \cup Run("Win_lock_desync", Passively, Win_lock_desync)
  \cup Run("Win_unlock", Optional(Passively), Win_unlock)

Transfers ==
  Run("Pingpong_Put_Put", Two, Pingpong_Put_Put)
  \cup Run("Put_fence_bidirectional", Sync({Argument}), Put_fence_bidirectional)
  \cup Run("Put_callduration", All, Put_callduration)
  \cup Run("Put_fence", All, Put_fence)
  \cup Run("Get_callduration", All, Get_callduration)
  \cup Run("Get_fence", All, Get_fence)
  \cup Run("Get_Pingpong", All, Get_Pingpong)
  \cup Run("Caching", All, Caching)
  \cup Run("Put_dedicated", Sync({Argument}), Put_dedicated)
  \cup Run("Get_dedicated", Sync({Argument}), Get_dedicated)
  \cup Run("Accumulate", Adding, Accumulate)
  \cup Run("Combining_Put_fence", All, Combining_Put_fence)
  \cup Run("Combining_Put_dedicated", Sync({Argument}), Combining_Put_dedicated)
  \cup Run("Put_passive", Sync({Argument}), Put_passive)
  \cup Run("Get_passive", Sync({Argument}), Get_passive)
  \cup Run("Put_passive_concurrent", Together_, Put_passive_concurrent)
  \cup Run("Accumulate_concurrent", AddingTogether, Accumulate_concurrent)
  \cup Run("Datatype_complex_everytime", All, Datatype_complex_everytime)
  \cup Run("Datatype_complex_once", All, Datatype_complex_once)
  \cup Run("Datatype_complex_mixed_everytime", All, Datatype_complex_mixed_everytime)
  \cup Run("Datatype_complex_mixed_once", All, Datatype_complex_mixed_once)
  \cup Run("Datatype_complex_Get", All, Datatype_complex_Get)
  \cup Run("Datatype_int", All, Datatype_int)
  \cup Run("Datatype_simple", All, Datatype_simple)
  \cup Run("Datatype_simple_Get", All, Datatype_simple_Get)
  \cup Run("Put_Shift", All, Put_Shift)
  \cup Run("Accumulate_concurrent_multi", Overlapping(Adding), Accumulate_concurrent_multi)
  \cup Run("onesided_reduce", Sync({Once, On(3, Once)}), onesided_reduce)
  \cup Run("onesided_allreduce", Adding, onesided_allreduce)
  \cup Run("onesided_borderexchange", Grids \cup Rows, onesided_borderexchange)
  \cup Run("onesided_borderexchange_fence", Grids \cup Rows, onesided_borderexchange_fence)
  \cup Run("twosided_borderexchange", Grids \cup Rows, twosided_borderexchange)

\* With another MPI they do not return.
Polling ==
  RunEager("Put_activewait_get", Sync({Argument}), Put_activewait_get)
  \cup RunEager("Put_activewait_twosided", Sync({Argument}), Put_activewait_twosided)
  \cup RunEager("Put_activewait_twosided_sleep", Sync({Argument}), Put_activewait_twosided_sleep)
  \cup RunEager("Accumulate_activewait_twosided", Adding, Accumulate_activewait_twosided)
  \cup RunEager("Get_activewait", Sync({Argument}), Get_activewait)
  \cup RunEager("Get_activewait_sleep", Sync({Argument}), Get_activewait_sleep)

MCMeasurements == Messages \cup Collectives \cup Synchronizations \cup Transfers \cup Polling
=============================================================================
