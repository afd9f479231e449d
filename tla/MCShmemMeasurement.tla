---------------------------- MODULE MCShmemMeasurement ----------------------------
(* The measurements of openshmem*.c that work, with arguments that bring out what can go
   wrong; those that do not are listed at the end. *)
EXTENDS ShmemMeasurement

CONSTANTS Iterations, Calls, Counts

Argument(np, barrier, count) ==
  [np |-> np, barrier |-> barrier, count |-> count, iterations |-> Iterations, calls |-> Calls,
   therank |-> np - 1, root |-> np - 1, stride |-> 2, size |-> 2, nb |-> 2, buffer |-> 2 * count]

\* Three PEs, two, and one alone; two PEs for what counts on them.
All3 == {Argument(np, b, c) : np \in {1, 2, 3}, b \in BOOLEAN, c \in Counts}
Two == {x \in All3 : x.np >= 2}
Nothing_to_do == {[x EXCEPT !.iterations = 0] : x \in {Argument(2, TRUE, 1)}}
\* Elements of 32 bits: all and a rest that is not sent.
Whole == {Argument(np, b, 5) : np \in {1, 2, 3}, b \in BOOLEAN}
          \cup {[x EXCEPT !.root = 0] : x \in {Argument(3, FALSE, 4)}}

Run(n, args, Program_of(_, _)) ==
  {[name |-> n, arg |-> x, program |-> [p \in World(x) |-> Program_of(x, p)]] : x \in args}
Both(n, args, Program_of(_, _, _)) ==
  Run("Shmem_Atomic_" \o n, args, LAMBDA x, p : Program_of(x, p, FALSE))
  \cup Run("Shmem_Ctx_Atomic_" \o n, args, LAMBDA x, p : Program_of(x, p, TRUE))

AllPuts ==
  Run("Shmem_Put_Simple", Two \cup Nothing_to_do, Shmem_Put_Simple)
  \cup Run("Shmem_Pingpong_Put_Put", Two, Shmem_Pingpong_Put_Put)
  \cup Run("Shmem_Put_Round", All3, Shmem_Put_Round)
  \cup Run("Shmem_Put_Full", All3, Shmem_Put_Full)
  \cup Run("Shmem_Put_Full_Single", All3, Shmem_Put_Full_Single)
  \cup Run("Shmem_P_Simple", Two, Shmem_P_Simple)
  \cup Run("Shmem_P_Round", All3, Shmem_P_Round)
  \cup Run("Shmem_Iput_Round", All3, Shmem_Iput_Round)
  \cup Run("Shmem_Put_Nonblocking_Post", All3, Shmem_Put_Nonblocking_Post)
  \cup Run("Shmem_Put_Nonblocking_Post_Single", All3, Shmem_Put_Nonblocking_Post_Single)
  \cup Run("Shmem_Put_Nonblocking_Full", All3, Shmem_Put_Nonblocking_Full)
  \cup Run("Shmem_Put_Nonblocking_Full_Single", All3, Shmem_Put_Nonblocking_Full_Single)
  \cup Run("Shmem_Put_Nonblocking_Quiet", All3, Shmem_Put_Nonblocking_Quiet)
  \cup Run("Shmem_Put_Nonblocking_Quiet_Single", All3, Shmem_Put_Nonblocking_Quiet_Single)
  \cup Run("Shmem_Put_Nonblocking_Overlap", All3, Shmem_Put_Nonblocking_Overlap)
  \cup Run("Shmem_Put_Nonblocking_Overlap_Single", All3, Shmem_Put_Nonblocking_Overlap_Single)

AllGets ==
  Run("Shmem_Get_Round", All3, Shmem_Get_Round)
  \cup Run("Shmem_Get_Nonblocking_Post", All3, Shmem_Get_Nonblocking_Post)
  \cup Run("Shmem_Get_Nonblocking_Post_Single", All3, Shmem_Get_Nonblocking_Post_Single)
  \cup Run("Shmem_Get_Nonblocking_Full", All3, Shmem_Get_Nonblocking_Full)
  \cup Run("Shmem_Get_Nonblocking_Full_Single", All3, Shmem_Get_Nonblocking_Full_Single)
  \cup Run("Shmem_Get_Nonblocking_Quiet", All3, Shmem_Get_Nonblocking_Quiet)
  \cup Run("Shmem_Get_Nonblocking_Quiet_Single", All3, Shmem_Get_Nonblocking_Quiet_Single)
  \cup Run("Shmem_Get_Nonblocking_Overlap", All3, Shmem_Get_Nonblocking_Overlap)
  \cup Run("Shmem_Get_Nonblocking_Overlap_Single", All3, Shmem_Get_Nonblocking_Overlap_Single)
  \cup Run("Shmem_G_Round", All3, Shmem_G_Round)
  \cup Run("Shmem_G_Simple", All3, Shmem_G_Simple)

Memory ==
  Run("Shmem_Malloc", All3, Shmem_Malloc) \cup Run("Shmem_Free", All3, Shmem_Free)
  \cup Run("Shmem_Align", All3, Shmem_Align) \cup Run("Shmem_Calloc", All3, Shmem_Calloc)
  \cup Run("Shmem_Quiet", All3, Shmem_Quiet) \cup Run("Shmem_Quiet_Put", All3, Shmem_Quiet_Put)
  \cup Run("Shmem_Fence", All3, Shmem_Fence) \cup Run("Shmem_Fence_Put", All3, Shmem_Fence_Put)
  \cup Run("Shmem_Wait_Until", All3, Shmem_Wait_Until) \cup Run("Shmem_Test", All3, Shmem_Test)
  \cup Run("Shmem_Ctx_Create", All3, Shmem_Ctx_Create)
  \cup Run("Shmem_Ctx_Destroy", All3, Shmem_Ctx_Destroy)

Collectives ==
  Run("Shmem_Bcast_All", Whole, Shmem_Bcast_All)
  \cup Run("Shmem_Bcast_All_Synchro", Whole, Shmem_Bcast_All_Synchro)
  \cup Run("Shmem_Bcast_All_Rounds", Whole, Shmem_Bcast_All_Rounds)
  \cup Run("Shmem_Bcast_All_SK", Whole, Shmem_Bcast_All_SK)
  \cup Run("Shmem_Bcast_All_SK_time", Whole, Shmem_Bcast_All_SK_time)
  \cup Run("Shmem_Reduce_And_Consecutive", Whole, Shmem_Reduce_And_Consecutive)
  \cup Run("Shmem_Reduce_And_Barrier", Whole, Shmem_Reduce_And_Barrier)
  \cup Run("Shmem_Reduce_And_Synchro", Whole, Shmem_Reduce_And_Synchro)
  \cup Run("Shmem_Collect_Consecutive", Whole, Shmem_Collect_Consecutive)
  \cup Run("Shmem_Collect_Barrier", Whole, Shmem_Collect_Barrier)
  \cup Run("Shmem_Collect_Synchro", Whole, Shmem_Collect_Synchro)
  \cup Run("Shmem_Alltoall_Consecutive", Whole, Shmem_Alltoall_Consecutive)
  \cup Run("Shmem_Alltoalls_Consecutive", Whole, Shmem_Alltoalls_Consecutive)
  \cup Run("Shmem_Alltoall_Barrier", Whole, Shmem_Alltoall_Barrier)
  \cup Run("Shmem_Alltoalls_Barrier", Whole, Shmem_Alltoalls_Barrier)
  \cup Run("Shmem_Alltoalls_Synchro", Whole, Shmem_Alltoalls_Synchro)
  \cup Run("Shmem_Barrier", All3, Shmem_Barrier)
  \cup Run("Shmem_Barrier_Consecutive", All3, Shmem_Barrier_Consecutive)
  \cup Run("Shmem_Sync", All3, Shmem_Sync)
  \cup Run("Shmem_Sync_Consecutive", All3, Shmem_Sync_Consecutive)

Atomics ==
  Both("Fetch", All3, Shmem_Atomic_Fetch) \cup Both("Fetch_Inc", All3, Shmem_Atomic_Fetch_Inc)
  \cup Both("Swap", All3, Shmem_Atomic_Swap) \cup Both("Fetch_Add", All3, Shmem_Atomic_Fetch_Add)
  \cup Both("Compare_Swap_Yes", All3, Shmem_Atomic_Compare_Swap_Yes)
  \cup Both("Compare_Swap_No", All3, Shmem_Atomic_Compare_Swap_No)
  \cup Run("Shmem_Atomic_Inc", All3, LAMBDA x, p : Shmem_Atomic_Inc(x, p, FALSE))
  \cup Run("Shmem_Atomic_Set", All3, LAMBDA x, p : Shmem_Atomic_Set(x, p, FALSE))
  \cup Run("Shmem_Atomic_Add", All3, LAMBDA x, p : Shmem_Atomic_Add(x, p, FALSE))

AllLocks ==
  Run("Shmem_Lock_Test_Busy_All", Two, Shmem_Lock_Test_Busy_All)
  \cup Run("Shmem_Lock_Test_Busy_Turns", Two, Shmem_Lock_Test_Busy_Turns)
  \cup Run("Shmem_Lock_Test_Busy_Round", All3, Shmem_Lock_Test_Busy_Round)
  \cup Run("Shmem_Set_Lock", All3, Shmem_Set_Lock)
  \cup Run("Shmem_Clear_Lock", All3, Shmem_Clear_Lock)

MCMeasurements == AllPuts \cup AllGets \cup Memory \cup Collectives \cup Atomics \cup AllLocks

\* What fails: PEs that wait for ever, accesses out of bounds, locks that are free.
Waiting == Run("Shmem_Get_Simple", {Argument(2, TRUE, 1)}, Shmem_Get_Simple)
  \cup Run("Shmem_Bcast_All_SK", {Argument(3, TRUE, 2)}, Shmem_Bcast_All_SK)
OutOfBounds == Run("Shmem_Iget_Round", Two, Shmem_Iget_Round)
  \cup Run("Shmem_Realloc", Two, Shmem_Realloc)
  \cup Run("Shmem_Alltoall_Synchro", Whole, Shmem_Alltoall_Synchro)
FreeLock == Run("Shmem_Lock_Test_Busy", Two, Shmem_Lock_Test_Busy)
Incomplete ==
  Run("Shmem_Ctx_Atomic_Inc", Two, LAMBDA x, p : Shmem_Atomic_Inc(x, p, TRUE))
  \cup Run("Shmem_Ctx_Atomic_Set", Two, LAMBDA x, p : Shmem_Atomic_Set(x, p, TRUE))
  \cup Run("Shmem_Ctx_Atomic_Add", Two, LAMBDA x, p : Shmem_Atomic_Add(x, p, TRUE))
=============================================================================
