------------------------------- MODULE ShmemSync -------------------------------
(***************************************************************************)
(* openshmem_atomic.c and openshmem_locks.c.  What a PE p does; the        *)
(* measurements of atomic operations come with and without a context.      *)
(***************************************************************************)
EXTENDS ShmemColl

-----------------------------------------------------------------------------
(* Atomic operations.  to[q] is what is done to the int of PE q. *)

\* Odd PEs and the PE before them, even PEs and the one after them, the last PE of
\* an odd number and PE 0.
Pairwise(a, p, to) ==
  Iterated(a, When(p % 2 = 1, to[p - 1]) \o shmem_barrier_all
              \o When(p % 2 = 0 /\ p < a.np - 1, to[p + 1]) \o shmem_barrier_all
              \o When(a.np % 2 > 0 /\ p = a.np - 1, to[0]))

Fetched(a, p, context, atomic) ==
  Timed(a, Pairwise(a, p, [q \in World(a) |-> Fetching(context, ack, q, atomic)]))
Completed(a, p, context, atomic) ==
  Timed(a, measure_quiet(a)
           \o Pairwise(a, p, [q \in World(a) |-> Not_fetching(context, ack, q, atomic)
                                                 \o shmem_quiet \o wtime]))

value == 4242
erusaem_Shmem_Atomic_XXX(a, p, context) == Fetched(a, p, context, Atomic("change", 0, 0))
erusaem_Shmem_Atomic_C_XXX(a, p, context) == Fetched(a, p, context, Atomic("fetch", 0, 0))
erusaem_Shmem_Atomic_XXX_2(a, p, context, kind) == Fetched(a, p, context, Atomic(kind, 0, value))
\* With cond, the number expected is the rank of the PE it is done to.
erusaem_Shmem_Atomic_XXX_3(a, p, context, cond) ==
  LET cmp == IF ~cond THEN a.np
             ELSE IF a.np % 2 > 0 /\ p = a.np - 1 THEN 0
             ELSE IF p % 2 = 1 THEN p - 1 ELSE p + 1
  IN Fetched(a, p, context, Atomic("compare", cmp, value))
\* Completed with shmem_quiet, with a context too.
erusaem_Shmem_Atomic_NF(a, p, context) == Completed(a, p, context, Atomic("change", 0, 0))
erusaem_Shmem_Atomic_NF_2(a, p, context, kind) ==
  Completed(a, p, context, Atomic(kind, 0, value))

tini_Shmem_Atomic(p) == shmem_malloc(ack, 1) \o Store(ack, Number(p))
\* The int is not initialised.
tini_Shmem_Ctx_Atomic == shmem_malloc(ack, 1) \o shmem_ctx_create
ezilanif_Shmem_Atomic == shmem_free(ack)
ezilanif_Shmem_Ctx_Atomic == shmem_free(ack) \o shmem_ctx_destroy

Atomic_measurement(p, context, measure) ==
  IF context THEN Measured(tini_Shmem_Ctx_Atomic, measure, ezilanif_Shmem_Ctx_Atomic)
  ELSE Measured(tini_Shmem_Atomic(p), measure, ezilanif_Shmem_Atomic)

Shmem_Atomic_Fetch(a, p, context) ==
  Atomic_measurement(p, context, erusaem_Shmem_Atomic_C_XXX(a, p, context))
Shmem_Atomic_Fetch_Inc(a, p, context) ==
  Atomic_measurement(p, context, erusaem_Shmem_Atomic_XXX(a, p, context))
Shmem_Atomic_Swap(a, p, context) ==
  Atomic_measurement(p, context, erusaem_Shmem_Atomic_XXX_2(a, p, context, "set"))
\* Also Fetch_And, Fetch_Or and Fetch_Xor.
Shmem_Atomic_Fetch_Add(a, p, context) ==
  Atomic_measurement(p, context, erusaem_Shmem_Atomic_XXX_2(a, p, context, "change"))
Shmem_Atomic_Compare_Swap_Yes(a, p, context) ==
  Atomic_measurement(p, context, erusaem_Shmem_Atomic_XXX_3(a, p, context, TRUE))
Shmem_Atomic_Compare_Swap_No(a, p, context) ==
  Atomic_measurement(p, context, erusaem_Shmem_Atomic_XXX_3(a, p, context, FALSE))
Shmem_Atomic_Inc(a, p, context) ==
  Atomic_measurement(p, context, erusaem_Shmem_Atomic_NF(a, p, context))
Shmem_Atomic_Set(a, p, context) ==
  Atomic_measurement(p, context, erusaem_Shmem_Atomic_NF_2(a, p, context, "set"))
\* Also And, Or and Xor.
Shmem_Atomic_Add(a, p, context) ==
  Atomic_measurement(p, context, erusaem_Shmem_Atomic_NF_2(a, p, context, "change"))

-----------------------------------------------------------------------------
(* Locks.  Less than two PEs do nothing. *)

lock == "lock"
Of_two(a, calls) == When(a.np >= 2, calls)

\* PE 1 takes the lock, PE 0 tests it; as the time of a barrier in whole seconds is
\* 0, PE 1 does not hold it any longer.  What it tells PE 0, which does not look, is
\* left out.
Shmem_Lock_Test_Busy(a, p) ==
  Measured(<< >>, Of_two(a,
    shmem_barrier_all
    \o (IF p = 1 THEN shmem_set_lock(lock) \o shmem_barrier_all \o shmem_clear_lock(lock)
        ELSE shmem_barrier_all)
    \o When(p = 0, shmem_test_lock(lock))), << >>)

\* The last PE holds the lock for the whole measurement.
init_Shmem_Lock_Test(a, p) == When(p = a.np - 1, shmem_set_lock(lock))
finalize_Shmem_Lock_Test(a, p) == When(p = a.np - 1, shmem_clear_lock(lock))

Shmem_Lock_Test_Busy_All(a, p) ==
  Measured(init_Shmem_Lock_Test(a, p),
           Of_two(a, When(p # a.np - 1, shmem_test_lock(lock)) \o shmem_barrier_all),
           finalize_Shmem_Lock_Test(a, p))

Shmem_Lock_Test_Busy_Turns(a, p) ==
  Measured(init_Shmem_Lock_Test(a, p),
           Of_two(a, Times(a.np, LAMBDA i : When(p = i, shmem_test_lock(lock)) \o shmem_barrier_all)
                     \o shmem_barrier_all),
           finalize_Shmem_Lock_Test(a, p))

\* Mutant: the lock is released before the last PE has tested it.
ReleasesEarly(a) == shmem_set_lock(lock) \o Times(a.np, LAMBDA i : shmem_barrier_all)
                    \o shmem_clear_lock(lock) \o shmem_barrier_all
\* The locker meets the others in size + 1 barriers before it releases the lock.
Locks(a) == shmem_set_lock(lock) \o Times(a.np + 1, LAMBDA i : shmem_barrier_all)
            \o shmem_clear_lock(lock)
Tests(a, p) ==
  Times(a.np, LAMBDA i : shmem_barrier_all \o When(i = p, shmem_test_lock(lock)))
  \o shmem_barrier_all
Shmem_Lock_Test_Busy_Round(a, p) ==
  Measured(<< >>, Of_two(a,
    shmem_barrier_all
    \o Times(a.np, LAMBDA locker : (IF p = locker THEN Locks(a) ELSE Tests(a, p))
                                   \o shmem_barrier_all)), << >>)

\* Set and cleared in turns.
In_turns(a, p) ==
  Timed(a, Times(a.np, LAMBDA i :
    shmem_barrier_all \o When(p = i, shmem_set_lock(lock) \o shmem_clear_lock(lock))))
Shmem_Set_Lock(a, p) == Measured(<< >>, In_turns(a, p), << >>)
Shmem_Clear_Lock(a, p) == Measured(<< >>, In_turns(a, p), << >>)
=============================================================================
