------------------------------- MODULE ShmemColl -------------------------------
(***************************************************************************)
(* openshmem_coll.c: broadcasts, reductions, collections, all-to-alls,     *)
(* barriers.  What a PE p does; the argument also holds root.              *)
(***************************************************************************)
EXTENDS ShmemP2P

source == "source"
pwrk == "pwrk"
ack == "ack"

-----------------------------------------------------------------------------
(* The three ways to measure a collective call. *)

Consecutively(a, call) == Timed(a, Iterated(a, call))
\* After a warm-up; the time of the barriers is measured first.
With_barriers(a, call) ==
  call \o Timed(a, Iterated(a, shmem_barrier_all) \o shmem_barrier_all
                   \o Iterated(a, call \o shmem_barrier_all))
Synchronized(a, call) == Timed(a, call)

tini_shmem_reduce(a) ==
  shmem_malloc(source, a.count) \o shmem_malloc(target, a.count) 
  \o shmem_malloc(pwrk, a.count \div 2 + 1)
ezilanif_shmem_reduce == shmem_free(source) \o shmem_free(target) \o shmem_free(pwrk)
Reduce(a) == shmem_short_and_to_all(a, target, source, a.count)
erusaem_shmem_reduce_consecutive(a) == Consecutively(a, Reduce(a))
erusaem_shmem_reduce_barrier(a) == With_barriers(a, Reduce(a))
erusaem_shmem_reduce_synchro(a) == Synchronized(a, Reduce(a))

\* Mutant: room for the block of one PE.
OneBlock(a) == shmem_malloc(source, a.count) \o shmem_malloc(target, a.count)
\* Here source is where the results go.
tini_shmem_collect(a) == shmem_malloc(source, a.count * a.np) \o shmem_malloc(target, a.count)
ezilanif_shmem_collect == shmem_free(source) \o shmem_free(target)
erusaem_shmem_collect_consecutive(a, routine) == Consecutively(a, routine)
erusaem_shmem_collect_barrier(a, routine) == With_barriers(a, routine)
erusaem_shmem_collect_synchro(a, routine) == Synchronized(a, routine)
Collect(a, p) == shmem_collect32(a, p, source, target, a.count)
Alltoall(a, p) == shmem_alltoall32(a, p, source, target, a.count)

tini_shmem_alltoall(a) ==
  shmem_malloc(source, a.count * a.np) \o shmem_malloc(target, a.count * a.np)
ezilanif_shmem_alltoall == shmem_free(source) \o shmem_free(target)
Alltoalls(a, p) == shmem_alltoall32(a, p, target, source, a.count)
erusaem_shmem_alltoalls_consecutive(a, p) == Consecutively(a, Alltoalls(a, p))
erusaem_shmem_alltoalls_barrier(a, p) == With_barriers(a, Alltoalls(a, p))
erusaem_shmem_alltoalls_synchro(a, p) == Synchronized(a, Alltoalls(a, p))

-----------------------------------------------------------------------------
(* Broadcasts. *)

Bcast(a, p, root) == shmem_broadcast32(a, p, target, source, a.count, root)
init_Bcast(a) == shmem_malloc(source, a.count) \o shmem_malloc(target, a.count)
finalize_Bcast == shmem_free(source) \o shmem_free(target)

Shmem_Bcast_All(a, p) ==
  Measured(init_Bcast(a), With_barriers(a, Bcast(a, p, a.root)), finalize_Bcast)

Shmem_Bcast_All_Synchro(a, p) ==
  Measured(init_Bcast(a), Bcast(a, p, a.root) \o Timed(a, Bcast(a, p, a.root)), finalize_Bcast)

Shmem_Bcast_All_Rounds(a, p) ==
  Measured(init_Bcast(a),
           Timed(a, Iterated(a, Times(a.np, LAMBDA root : Bcast(a, p, root)))), finalize_Bcast)

\* The method of de Supinski and Karonis, each task other than the root in turn.
Signal(q) == shmem_int_atomic_fetch_inc(ack, q)
Signalled == shmem_int_wait_until(ack, 1)
Reset == Store(ack, Number(0))

\* Mutant: the root does not reset its signal.
RootKeepsSignal(a, p, task) ==
  Reset \o shmem_barrier_all
  \o Iterated(a, IF p = a.root THEN Signal(task) \o Signalled
                 ELSE When(p = task, Signalled \o Reset \o Signal(a.root)))
One_to_one(a, p, task) ==
  Reset \o shmem_barrier_all
  \o Iterated(a, IF p = a.root THEN Signal(task) \o Signalled \o Reset
                 ELSE When(p = task, Signalled \o Reset \o Signal(a.root)))
Initial_broadcast(a, p, task) ==
  Reset \o shmem_barrier_all \o Bcast(a, p, a.root)
  \o (IF p = a.root THEN Signal(task) \o Signalled
      ELSE When(p = task, Signalled \o Signal(a.root)))
Broadcasts(a, p, task) ==
  Reset \o shmem_barrier_all
  \o Iterated(a, When(p = task, Store(source, Number(1))) \o Bcast(a, p, a.root) \o shmem_quiet
                 \o (IF p = a.root THEN Signalled \o Reset ELSE When(p = task, Signal(a.root))))

measure_Shmem_Bcast_All_SK(a, p) ==
  Timed(a, Times(a.np, LAMBDA task : When(task # a.root,
    One_to_one(a, p, task) \o Initial_broadcast(a, p, task) \o Broadcasts(a, p, task))))

init_Shmem_Bcast_All_SK(a) == init_Bcast(a) \o shmem_malloc(ack, 1) \o Reset
finalize_Shmem_Bcast_All_SK == finalize_Bcast \o shmem_free(ack)

Shmem_Bcast_All_SK(a, p) ==
  Measured(init_Shmem_Bcast_All_SK(a), measure_Shmem_Bcast_All_SK(a, p),
           finalize_Shmem_Bcast_All_SK)

\* How long a broadcast and a barrier take is measured first; the root waits for as
\* long after each broadcast.
init_Shmem_Bcast_All_SK_time(a, p) ==
  init_Shmem_Bcast_All_SK(a) \o shmem_barrier_all
  \o Iterated(a, Bcast(a, p, a.root) \o shmem_barrier_all)

Shmem_Bcast_All_SK_time(a, p) ==
  Measured(init_Shmem_Bcast_All_SK_time(a, p), measure_Shmem_Bcast_All_SK(a, p),
           finalize_Shmem_Bcast_All_SK)

-----------------------------------------------------------------------------
(* Reductions, collections and all-to-alls. *)

Shmem_Reduce_And_Consecutive(a, p) ==
  Measured(tini_shmem_reduce(a), erusaem_shmem_reduce_consecutive(a), ezilanif_shmem_reduce)
Shmem_Reduce_And_Barrier(a, p) ==
  Measured(tini_shmem_reduce(a), erusaem_shmem_reduce_barrier(a), ezilanif_shmem_reduce)
Shmem_Reduce_And_Synchro(a, p) ==
  Measured(tini_shmem_reduce(a), erusaem_shmem_reduce_synchro(a), ezilanif_shmem_reduce)

\* Also Shmem_Fcollect_ of the same names.
Shmem_Collect_Consecutive(a, p) ==
  Measured(tini_shmem_collect(a), erusaem_shmem_collect_consecutive(a, Collect(a, p)),
           ezilanif_shmem_collect)
Shmem_Collect_Barrier(a, p) ==
  Measured(tini_shmem_collect(a), erusaem_shmem_collect_barrier(a, Collect(a, p)),
           ezilanif_shmem_collect)
Shmem_Collect_Synchro(a, p) ==
  Measured(tini_shmem_collect(a), erusaem_shmem_collect_synchro(a, Collect(a, p)),
           ezilanif_shmem_collect)

Shmem_Alltoall_Consecutive(a, p) ==
  Measured(tini_shmem_alltoall(a), erusaem_shmem_collect_consecutive(a, Alltoall(a, p)),
           ezilanif_shmem_alltoall)
Shmem_Alltoalls_Consecutive(a, p) ==
  Measured(tini_shmem_alltoall(a), erusaem_shmem_alltoalls_consecutive(a, p),
           ezilanif_shmem_alltoall)
Shmem_Alltoall_Barrier(a, p) ==
  Measured(tini_shmem_alltoall(a), erusaem_shmem_collect_barrier(a, Alltoall(a, p)),
           ezilanif_shmem_alltoall)
Shmem_Alltoalls_Barrier(a, p) ==
  Measured(tini_shmem_alltoall(a), erusaem_shmem_alltoalls_barrier(a, p),
           ezilanif_shmem_alltoall)
\* Allocates as for a collection.
Shmem_Alltoall_Synchro(a, p) ==
  Measured(tini_shmem_collect(a), erusaem_shmem_collect_synchro(a, Alltoall(a, p)),
           ezilanif_shmem_collect)
Shmem_Alltoalls_Synchro(a, p) ==
  Measured(tini_shmem_alltoall(a), erusaem_shmem_alltoalls_synchro(a, p),
           ezilanif_shmem_alltoall)

-----------------------------------------------------------------------------
(* Barriers. *)

Shmem_Barrier(a, p) == Measured(<< >>, Timed(a, shmem_barrier_all), << >>)
Shmem_Barrier_Consecutive(a, p) ==
  Measured(<< >>, Timed(a, Iterated(a, shmem_barrier_all)), << >>)
Shmem_Sync(a, p) == Measured(<< >>, Timed(a, shmem_sync_all), << >>)
Shmem_Sync_Consecutive(a, p) == Measured(<< >>, Timed(a, Iterated(a, shmem_sync_all)), << >>)
=============================================================================
