------------------------------- MODULE ShmemP2P -------------------------------
(***************************************************************************)
(* openshmem_p2p.c, openshmem.c and openshmem_ctx.c: puts, gets, symmetric *)
(* memory, quiet and fence, contexts.  What a PE p does; the argument also *)
(* holds stride, therank, and size and nb of the memory measurements.      *)
(***************************************************************************)
EXTENDS ShmemCalls

sym == "sym"
target == "target"

\* Mutant: the ring is not closed.
Not_round(a, p) == IF p + 1 < a.np THEN p + 1 ELSE p
\* dst = (rank + 1) % size
Next_pe(a, p) == (p + 1) % a.np

measure_quiet(a) == Iterated(a, shmem_quiet)
Timed(a, calls) == start_synchronization(a) \o calls \o stop_synchronization
\* With no iterations all PEs return at once.
Measure(a, calls) == When(a.iterations > 0, calls)
WithSym(n, measure) == Measured(shmem_malloc(sym, n), measure, shmem_free(sym))

-----------------------------------------------------------------------------
(* Puts. *)

Put_to(a, q) == shmem_put(All(sym, a.count), All(buffer, a.count), q) \o shmem_quiet
Puts(a, p) == Iterated(a, Put_to(a, Next_pe(a, p)))

Shmem_Put_Simple(a, p) ==
  WithSym(a.count, Measure(a, Timed(a, When(p = 0, measure_quiet(a) \o Iterated(a, Put_to(a, 1)) \o wtime))))

Shmem_Pingpong_Put_Put(a, p) ==
  WithSym(a.count, Measure(a, Timed(a,
    When(p <= 1, measure_quiet(a) \o Iterated(a, Put_to(a, 1 - p))))))

Shmem_Put_Round(a, p) ==
  WithSym(a.count, Measure(a, Timed(a, measure_quiet(a) \o Puts(a, p))))

Shmem_Put_Full(a, p) == WithSym(a.count, Measure(a, Timed(a, Puts(a, p))))

Shmem_Put_Full_Single(a, p) ==
  WithSym(a.count, Measure(a, Timed(a, When(p = a.therank, Puts(a, p))) \o shmem_barrier_all))

Numbers(a, q) == Times(a.iterations, LAMBDA i : shmem_int_p(sym, i, q) \o shmem_quiet)

Shmem_P_Simple(a, p) ==
  WithSym(1, Measure(a, Timed(a, When(p = 0, measure_quiet(a) \o Numbers(a, 1) \o wtime))))

Shmem_P_Round(a, p) ==
  WithSym(1, Measure(a, Timed(a, measure_quiet(a) \o Numbers(a, Next_pe(a, p)) \o wtime)))

Shmem_Iput_Round(a, p) ==
  WithSym(a.count * a.stride, Measure(a, Timed(a,
    measure_quiet(a)
    \o Iterated(a, shmem_put(Strided(sym, a.count, a.stride), Strided(buffer, a.count, a.stride),
                             Next_pe(a, p)) \o shmem_quiet))))

-----------------------------------------------------------------------------
(* Puts that do not wait. *)

Put_nbi(a, p) == shmem_put_nbi(All(sym, a.count), All(buffer, a.count), Next_pe(a, p))
Put_and_quiet(a, p) == Iterated(a, Put_nbi(a, p) \o shmem_quiet) \o wtime
\* Only the time to post them.
Put_posted(a, p) == Iterated(a, Put_nbi(a, p)) \o wtime

Shmem_Put_Nonblocking_Post(a, p) ==
  WithSym(a.count, Measure(a, Timed(a, Put_posted(a, p) \o shmem_quiet)))

Shmem_Put_Nonblocking_Post_Single(a, p) ==
  WithSym(a.count, Measure(a,
    Timed(a, When(p = a.therank, Put_posted(a, p)) \o shmem_quiet) \o shmem_barrier_all))

\* Mutant: one wait for all puts, after the time is taken.
QuietTooLate(a, p) ==
  WithSym(a.count, Measure(a, Timed(a, Put_posted(a, p) \o shmem_quiet)))
Shmem_Put_Nonblocking_Full(a, p) == WithSym(a.count, Measure(a, Timed(a, Put_and_quiet(a, p))))

Shmem_Put_Nonblocking_Full_Single(a, p) ==
  WithSym(a.count, Measure(a,
    Timed(a, When(p = a.therank, Put_and_quiet(a, p))) \o shmem_barrier_all))

\* The time to post is taken first, before shmem_quiet; this call of wtime() is left out.
init_Shmem_Put_Nonblocking_Quiet(a, p) ==
  shmem_malloc(sym, a.count) \o Iterated(a, Put_nbi(a, p)) \o shmem_quiet

Shmem_Put_Nonblocking_Quiet(a, p) ==
  Measured(init_Shmem_Put_Nonblocking_Quiet(a, p),
           Measure(a, Timed(a, Put_and_quiet(a, p)) \o shmem_barrier_all), shmem_free(sym))

Shmem_Put_Nonblocking_Quiet_Single(a, p) ==
  Measured(init_Shmem_Put_Nonblocking_Quiet(a, p),
           Measure(a, Timed(a, When(p = a.therank, Put_and_quiet(a, p))) \o shmem_barrier_all),
           shmem_free(sym))

\* The time of a put is measured first, and a loop calibrated to take longer.
init_Shmem_Put_Nonblocking_Overlap(a, p) == shmem_malloc(sym, a.count) \o Put_and_quiet(a, p)

Shmem_Put_Nonblocking_Overlap(a, p) ==
  Measured(init_Shmem_Put_Nonblocking_Overlap(a, p),
           Measure(a, Timed(a, Put_and_quiet(a, p) \o shmem_barrier_all)), shmem_free(sym))

Shmem_Put_Nonblocking_Overlap_Single(a, p) ==
  Measured(init_Shmem_Put_Nonblocking_Overlap(a, p),
           Measure(a, Timed(a, When(p = a.therank, Put_and_quiet(a, p)) \o shmem_barrier_all)),
           shmem_free(sym))

-----------------------------------------------------------------------------
(* Gets. *)

\* Only PE 0 synchronizes.
Shmem_Get_Simple(a, p) ==
  WithSym(a.count, Measure(a, When(p = 0,
    Timed(a, Iterated(a, shmem_get(All(buffer, a.count), All(sym, a.count), 1))))))

Shmem_Get_Round(a, p) ==
  WithSym(a.count, Measure(a, Timed(a,
    Iterated(a, shmem_get(All(buffer, a.count), All(sym, a.count), Next_pe(a, p))))))

\* The variable of the measure function hides the one that was allocated.
Shmem_Iget_Round(a, p) ==
  WithSym(a.count * a.stride, Measure(a, Timed(a,
    Iterated(a, shmem_get(Strided(buffer, a.count, a.stride),
                          Strided("sym of measure_", a.count, a.stride), Next_pe(a, p))))))

Get_nbi(a, p) == shmem_get_nbi(All(buffer, a.count), All(sym, a.count), Next_pe(a, p))
Get_and_quiet(a, p) == Iterated(a, Get_nbi(a, p) \o shmem_quiet) \o wtime
Get_posted(a, p) == Iterated(a, Get_nbi(a, p)) \o wtime

Shmem_Get_Nonblocking_Post(a, p) ==
  WithSym(a.count, Measure(a, Timed(a, Get_posted(a, p) \o shmem_quiet)))

Shmem_Get_Nonblocking_Post_Single(a, p) ==
  WithSym(a.count, Measure(a,
    Timed(a, When(p = a.therank, Get_posted(a, p) \o shmem_quiet)) \o shmem_barrier_all))

Shmem_Get_Nonblocking_Full(a, p) == WithSym(a.count, Measure(a, Timed(a, Get_and_quiet(a, p))))

Shmem_Get_Nonblocking_Full_Single(a, p) ==
  WithSym(a.count, Measure(a,
    Timed(a, When(p = a.therank, Get_and_quiet(a, p))) \o shmem_barrier_all))

init_Shmem_Get_Nonblocking_Quiet(a, p) ==
  shmem_malloc(sym, a.count) \o Iterated(a, Get_nbi(a, p)) \o shmem_quiet

Shmem_Get_Nonblocking_Quiet(a, p) ==
  Measured(init_Shmem_Get_Nonblocking_Quiet(a, p),
           Measure(a, Timed(a, Get_and_quiet(a, p))), shmem_free(sym))

Shmem_Get_Nonblocking_Quiet_Single(a, p) ==
  Measured(init_Shmem_Get_Nonblocking_Quiet(a, p),
           Measure(a, Timed(a, When(p = a.therank, Get_and_quiet(a, p))) \o shmem_barrier_all),
           shmem_free(sym))

init_Shmem_Get_Nonblocking_Overlap(a, p) == shmem_malloc(sym, a.count) \o Get_and_quiet(a, p)

Shmem_Get_Nonblocking_Overlap(a, p) ==
  Measured(init_Shmem_Get_Nonblocking_Overlap(a, p),
           Measure(a, Timed(a, Get_and_quiet(a, p) \o shmem_barrier_all)), shmem_free(sym))

Shmem_Get_Nonblocking_Overlap_Single(a, p) ==
  Measured(init_Shmem_Get_Nonblocking_Overlap(a, p),
           Measure(a, Timed(a, When(p = a.therank, Get_and_quiet(a, p)) \o shmem_barrier_all)),
           shmem_free(sym))

Shmem_G_Round(a, p) ==
  WithSym(1, Measure(a, Timed(a, Iterated(a, shmem_int_g(sym, Next_pe(a, p))))))

Shmem_G_Simple(a, p) ==
  WithSym(1, Measure(a, Timed(a, When(p = 0, Iterated(a, shmem_int_g(sym, Next_pe(a, p)))))))

-----------------------------------------------------------------------------
(* openshmem.c.  The measurements of memory do not initialise the
   synchronization, so that nobody waits at their start. *)

Unsynchronized(calls) == Measured(<< >>, calls \o stop_synchronization, << >>)
Taken_and_given_back(a, n) == Iterated(a, shmem_malloc("ptr", n) \o shmem_free("ptr"))

Shmem_Malloc(a, p) == Unsynchronized(Taken_and_given_back(a, a.size))
Shmem_Free(a, p) == Unsynchronized(Taken_and_given_back(a, 4))
\* The old block, which shmem_realloc has released, is released again.
Shmem_Realloc(a, p) ==
  Unsynchronized(Iterated(a, shmem_malloc("ptr", a.size \div 2)
                             \o shmem_realloc("ptr", "newptr", a.size) \o shmem_free("ptr")))
Shmem_Align(a, p) == Unsynchronized(Taken_and_given_back(a, a.size))
Shmem_Calloc(a, p) == Unsynchronized(Taken_and_given_back(a, a.nb * a.size))

Shmem_Quiet(a, p) == Measured(<< >>, Timed(a, Iterated(a, shmem_quiet)), << >>)

WithTarget(n, measure) == Measured(shmem_malloc(target, n), measure, shmem_free(target))
Put_target(a, p) == shmem_put(All(target, a.nb), All(buffer, a.nb), Next_pe(a, p))

Shmem_Quiet_Put(a, p) ==
  WithTarget(a.nb, Timed(a, Iterated(a, Put_target(a, p) \o shmem_quiet \o wtime)))
Shmem_Fence(a, p) == Measured(<< >>, Timed(a, << >>), << >>)
Shmem_Fence_Put(a, p) == WithTarget(a.nb, Timed(a, Iterated(a, Put_target(a, p) \o wtime)))

Shmem_Wait_Until(a, p) ==
  WithTarget(1, Store(target, Number(1))
                \o Timed(a, Iterated(a, shmem_int_wait_until(target, 1))))
Shmem_Test(a, p) == WithTarget(1, Store(target, Number(1)) \o Timed(a, << >>))

-----------------------------------------------------------------------------
(* openshmem_ctx.c.  The options make no difference. *)

Shmem_Ctx_Create(a, p) ==
  Measured(<< >>, Timed(a, shmem_ctx_create) \o shmem_ctx_destroy, << >>)
Shmem_Ctx_Destroy(a, p) ==
  Measured(<< >>, shmem_ctx_create \o Timed(a, shmem_ctx_destroy), << >>)
=============================================================================
