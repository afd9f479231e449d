------------------------------ MODULE OneSided ------------------------------
(***************************************************************************)
(* The programs of rank p in the measurements of measurements/onesided.c.  *)
(* extract_onesided_assertions always returns 0, and delays are no more    *)
(* than any other speed of a rank; both are left out.                      *)
(***************************************************************************)
EXTENDS MPICalls

W == "win"                                  \* onesided_win
start(a) == start_synchronization(a)

Created(area, calls) == MPI_Win_create(W, area) \o calls \o MPI_Win_free(W)
Put(area, q, at) == MPI_Put(W, area, q, at)
Get(area, q, at) == MPI_Get(W, area, q, at)
Accumulate_(area, q, at) == MPI_Accumulate(W, area, q, at)
Open == MPI_Win_fence(W)                    \* NOPRECEDE, or no assertion
Close == MPI_Win_fence_last(W)
Others(a) == World(a) \ {0}
ToOthers(a, calls(_)) == Times(a.np - 1, LAMBDA i : calls(i + 1))

\* Both buffers of count elements, the window on the receive buffer.
OnRecv(a, calls) == Measured(a.count, a.count, Created(RB(0, a.count), calls))
Whole(a) == SB(0, a.count)

-----------------------------------------------------------------------------
(* Synchronization of the ranks. *)

Win_fence_open(a, p) == OnRecv(a, start(a) \o Open)
Win_fence_close(a, p) ==
  OnRecv(a, Open \o When(a.do_a_put, Put(SB(0, 1), p, 0)) \o start(a) \o Close)
Win_fence_close_collective(a, p) ==
  LET size == IF p = 0 THEN a.np * a.count ELSE 0
  IN Measured(IF p = 0 THEN 0 ELSE a.count, size,
       Created(RB(0, size),
         Open \o When(p # 0 /\ a.do_a_put, Put(Whole(a), 0, p * a.count)) \o start(a) \o Close))
Win_fence_close_delayed(a, p) ==
  LET size == a.count * a.msg_count
  IN Measured(size, size,
       Created(RB(0, size),
         Open
         \o Times(a.msg_count, LAMBDA i :
              Put(SB(i * a.count, a.count), (p + 1) % a.np, i * a.count))
         \o start(a) \o Close))
Win_fence_openclose(a, p) ==
  OnRecv(a, Open \o When(a.do_a_put, Put(SB(0, 1), p, 0)) \o start(a) \o Open)

\* Every rank exposes its window to rank 0, itself included.
Win_start(a, p) ==
  OnRecv(a, MPI_Win_post(W, {0}) \o start(a)
            \o When(p = 0, MPI_Win_start(W, World(a)) \o MPI_Win_complete(W))
            \o MPI_Win_wait(W))
Win_start_delayed_post(a, p) ==
  OnRecv(a, (IF p # 0 /\ a.delay_rank \in {p, -1}
             THEN start(a) \o MPI_Win_post(W, {0})
             ELSE MPI_Win_post(W, {0}) \o start(a))
            \o When(p = 0, MPI_Win_start(W, World(a)) \o MPI_Win_complete(W))
            \o MPI_Win_wait(W))
\* Mutant: each rank waits for the accesses of the others before it ends its own.
WaitsFirst(a, p) ==
  OnRecv(a, start(a) \o MPI_Win_post(W, World(a)) \o MPI_Win_start(W, World(a))
            \o MPI_Win_wait(W) \o MPI_Win_complete(W))
Win_post(a, p) ==
  OnRecv(a, start(a) \o MPI_Win_post(W, World(a)) \o MPI_Win_start(W, World(a))
            \o MPI_Win_complete(W) \o MPI_Win_wait(W))

\* Rank 0 accesses the windows of the others.
FromRoot(a, p, size, accesses, exposed) ==
  Measured(IF p = 0 THEN a.count ELSE 0, size,
    Created(RB(0, size), IF p = 0 THEN accesses ELSE exposed))
PutToOthers(a) == ToOthers(a, LAMBDA i : Put(Whole(a), i, 0))
Win_complete(a, p) ==
  FromRoot(a, p, a.count,
    MPI_Win_start(W, Others(a)) \o When(a.do_a_put, PutToOthers(a))
    \o start(a) \o MPI_Win_complete(W),
    MPI_Win_post(W, {0}) \o start(a) \o MPI_Win_wait(W))
Win_startcomplete(a, p) ==
  FromRoot(a, p, a.count,
    start(a) \o MPI_Win_start(W, Others(a)) \o When(a.do_a_put, PutToOthers(a))
    \o MPI_Win_complete(W),
    start(a) \o MPI_Win_post(W, {0}) \o MPI_Win_wait(W))
Win_complete_n(a, p) ==
  FromRoot(a, p, a.msg_count * a.count,
    MPI_Win_start(W, Others(a))
    \o Times(a.msg_count, LAMBDA m :
         ToOthers(a, LAMBDA i : Put(Whole(a), i, (a.msg_count - 1 - m) * a.count)))
    \o start(a) \o MPI_Win_complete(W),
    MPI_Win_post(W, {0}) \o start(a) \o MPI_Win_wait(W))
Win_complete_delayed_wait(a, p) == Win_complete(a, p)

\* The others access the window of rank 0.
ToRoot(a, p, exposed, accesses) ==
  LET size == IF p = 0 THEN a.np * a.count ELSE 0
  IN Measured(IF p = 0 THEN 0 ELSE a.count, size,
       Created(RB(0, size), IF p = 0 THEN exposed ELSE accesses))
PutToRoot(a, p) == When(a.do_a_put, Put(Whole(a), 0, p * a.count))
Win_wait_early_complete(a, p) ==
  ToRoot(a, p, MPI_Win_post(W, Others(a)) \o start(a) \o MPI_Win_wait(W),
    MPI_Win_start(W, {0}) \o PutToRoot(a, p) \o start(a) \o MPI_Win_complete(W))
Win_wait_delayed_complete(a, p) == Win_wait_early_complete(a, p)
Win_test(a, p) ==
  ToRoot(a, p, MPI_Win_post(W, Others(a)) \o start(a) \o Test_or_wait(W),
    MPI_Win_start(W, {0}) \o PutToRoot(a, p) \o MPI_Win_complete(W) \o start(a))
Win_test_delayed(a, p) ==
  ToRoot(a, p, MPI_Win_post(W, Others(a)) \o start(a) \o Test_or_wait(W),
    MPI_Win_start(W, {0}) \o PutToRoot(a, p) \o start(a) \o MPI_Win_complete(W))

Win_create(a, p) == OnRecv(a, start(a))
Win_free(a, p) ==
  OnRecv(a, Open \o When(a.do_a_put, Put(SB(0, 1), p, 0)) \o Close \o start(a))

Lock(a) == MPI_Win_lock(W, a.dest, a.shared)
Unlock(a) == MPI_Win_unlock(W, a.dest)
Win_lock(a, p) == OnRecv(a, start(a) \o When(p = 0, Lock(a) \o Unlock(a)))
Win_lock_desync(a, p) == Win_lock(a, p)
Win_unlock(a, p) ==
  OnRecv(a, When(p = 0, Lock(a) \o When(a.do_a_put, Put(Whole(a), a.dest, 0)))
            \o start(a) \o When(p = 0, Unlock(a)))

-----------------------------------------------------------------------------
(* Transfers. *)

Pingpong_Put_Put(a, p) ==
  IF a.iterations <= 0 THEN Measured(a.count, a.count, << >>)
  ELSE OnRecv(a, Open \o start(a)
         \o Times(a.iterations, LAMBDA i :
              When(p = 0, Put(Whole(a), 1, 0)) \o Open
              \o When(p = 1, Put(RB(0, a.count), 0, 0)) \o Open))
Put_fence_bidirectional(a, p) == OnRecv(a, Open \o start(a) \o Put(Whole(a), 1 - p, 0) \o Open)

\* Rank 0 moves data to or from rank 1 between two fences.
Fenced(a, p, calls) == OnRecv(a, Open \o start(a) \o When(p = 0, calls) \o Close)
Put_callduration(a, p) == Fenced(a, p, Put(Whole(a), 1, 0))        \* measure_Put
Put_fence(a, p) == Fenced(a, p, Put(Whole(a), 1, 0))
Get_callduration(a, p) == Fenced(a, p, Get(Whole(a), 1, 0))
Get_fence(a, p) == Fenced(a, p, Get(Whole(a), 1, 0))
Get_Pingpong(a, p) ==
  OnRecv(a, Open \o start(a)
            \o When(p = 0, Get(RB(0, a.count), 1, 0)) \o Open
            \o When(p = 1, Get(Whole(a), 0, 0)) \o Close)
Caching(a, p) == Fenced(a, p, PutToOthers(a))

\* The same with the window of rank 1 exposed to rank 0.  Further ranks expose
\* theirs as well and wait for a complete of rank 0 that does not come.
Dedicated(a, p, size, calls) ==
  Measured(size, size,
    Created(RB(0, size),
      IF p = 0 THEN MPI_Win_start(W, {1}) \o start(a) \o calls \o MPI_Win_complete(W)
      ELSE MPI_Win_post(W, {0}) \o start(a) \o MPI_Win_wait(W)))
Put_dedicated(a, p) == Dedicated(a, p, a.count, Put(Whole(a), 1, 0))
Get_dedicated(a, p) == Dedicated(a, p, a.count, Get(Whole(a), 1, 0))
Accumulate(a, p) == Dedicated(a, p, a.count, Accumulate_(Whole(a), 1, 0))

PutParts(a) == Times(a.msg_count, LAMBDA i : Put(SB(i * a.count, a.count), 1, i * a.count))
Combining_Put_fence(a, p) ==
  LET size == a.msg_count * a.count
  IN Measured(size, size, Created(RB(0, size), Open \o start(a) \o When(p = 0, PutParts(a)) \o Close))
Combining_Put_dedicated(a, p) == Dedicated(a, p, a.msg_count * a.count, PutParts(a))

\* The same while rank 0 holds the lock of the window of rank 1.
Passive(a, p, calls) ==
  OnRecv(a, IF p = 0
            THEN MPI_Win_lock(W, 1, FALSE) \o start(a) \o calls \o MPI_Win_unlock(W, 1)
            ELSE start(a))
Put_passive(a, p) == Passive(a, p, Put(Whole(a), 1, 0))
Get_passive(a, p) == Passive(a, p, Get(Whole(a), 1, 0))
Put_passive_concurrent(a, p) ==
  LET size == a.np * a.count
  IN Measured(a.count, size,
       Created(RB(0, size),
         start(a) \o MPI_Win_lock(W, 0, a.shared) \o Put(Whole(a), 0, p * a.count)
         \o MPI_Win_unlock(W, 0)))

\* A rank of the others has the element a.count, rank 0 one such part each.
Accumulate_concurrent(a, p) ==
  LET winsize == IF a.count = 0 THEN 1 ELSE a.count
      size == IF p = 0 /\ a.disjoint THEN (a.np - 1) * winsize ELSE winsize
      at == IF a.disjoint THEN (p - 1) * winsize ELSE 0
  IN Measured(IF p = 0 THEN 0 ELSE winsize, size,
       Created(RB(0, size),
         IF p = 0 THEN MPI_Win_post(W, Others(a)) \o start(a) \o MPI_Win_wait(W)
         ELSE MPI_Win_start(W, {0}) \o start(a) \o Accumulate_(Whole(a), 0, at)
              \o MPI_Win_complete(W)))

-----------------------------------------------------------------------------
(* Transfers whose last element one side waits for, before the epoch ends. *)

LastElement(a, buf) == Area(buf, a.count - 1, 1)
Marker == SetToBag({<<-1, 0, 0>>})          \* 0xDEADBEEF
MarkLast(a) == Store(LastElement(a, "send"), Marker) \o Store(LastElement(a, "recv"), EmptyBag)
ActiveWait(a, p, window, calls0, calls1) ==
  Measured(a.count, a.count,
    MarkLast(a)
    \o Created(window, Open \o start(a) \o (IF p = 0 THEN calls0 ELSE calls1) \o Close))
\* The loop gets the last element again and again.
Put_activewait_get(a, p) ==
  ActiveWait(a, p, RB(0, a.count),
             Put(Whole(a), 1, 0) \o Poll(1, LastElement(a, "recv"), Marker), << >>)
Answer(a) == Poll(1, LastElement(a, "recv"), Marker) \o MPI_Send(0, 0, LastElement(a, "recv"))
Put_activewait_twosided(a, p) ==
  ActiveWait(a, p, RB(0, a.count), Put(Whole(a), 1, 0) \o MPI_Recv(1, 0, Local), Answer(a))
Put_activewait_twosided_sleep(a, p) == Put_activewait_twosided(a, p)
Accumulate_activewait_twosided(a, p) ==
  ActiveWait(a, p, RB(0, a.count), Accumulate_(Whole(a), 1, 0) \o MPI_Recv(1, 0, Local), Answer(a))
Get_activewait(a, p) ==
  ActiveWait(a, p, Whole(a), Get(RB(0, a.count), 1, 0) \o Poll(0, LastElement(a, "recv"), Marker), << >>)
Get_activewait_sleep(a, p) == Get_activewait(a, p)

-----------------------------------------------------------------------------
(* Derived datatypes.  The root tells the others the size of the window. *)

Derived(a, p, window, calls) ==
  Measured(a.count, a.count, Created(window, Open \o start(a) \o When(p = 0, calls) \o Close))
PutDerived(a, p) == Derived(a, p, RB(0, a.count), Put(Whole(a), 1, 0))
GetDerived(a, p) == Derived(a, p, Whole(a), Get(RB(0, a.count), 1, 0))
Datatype_complex_everytime(a, p) == PutDerived(a, p)
Datatype_complex_once(a, p) == PutDerived(a, p)
Datatype_complex_mixed_everytime(a, p) == PutDerived(a, p)
Datatype_complex_mixed_once(a, p) == PutDerived(a, p)
Datatype_complex_Get(a, p) == GetDerived(a, p)
Datatype_int(a, p) == PutDerived(a, p)
Datatype_simple(a, p) == PutDerived(a, p)
Datatype_simple_Get(a, p) == GetDerived(a, p)

-----------------------------------------------------------------------------
(* All ranks with all. *)

Put_Shift(a, p) ==
  OnRecv(a, start(a) \o Open \o Put(Whole(a), (p + a.np + a.distance) % a.np, 0) \o Close)

\* The k-th message goes to the k-th rank after this one.
Next_rank(a, p, k) == (p + k + 1) % a.np
Put_Exchange(a, p) ==
  LET size == a.count * a.msg_count
  IN Measured(a.count, size,
       Created(SB(0, size),
         start(a) \o Open
         \o Times(a.msg_count, LAMBDA m : Put(Whole(a), Next_rank(a, p, m), m * a.count))
         \o Close))
Put_Exchange_passive(a, p) ==
  LET size == a.count * a.msg_count
  IN Measured(a.count, size,
       Created(SB(0, size),
         start(a)
         \o Times(a.msg_count, LAMBDA m :
              LET q == Next_rank(a, p, m)
              IN MPI_Win_lock(W, q, TRUE) \o Put(Whole(a), q, m * a.count) \o MPI_Win_unlock(W, q))))
Accumulate_concurrent_multi(a, p) ==
  LET size == IF a.disjoint THEN a.count * a.msg_count ELSE a.count
      at(m) == IF a.disjoint THEN m * a.count ELSE 0
  IN Measured(size, size,
       Created(RB(0, size),
         start(a) \o Open
         \o Times(a.msg_count, LAMBDA m : Accumulate_(Whole(a), Next_rank(a, p, m), at(m)))
         \o Close))

\* One round of the two loops below puts to size + 1 ranks.
onesided_bcast(a, p) ==
  Measured(a.count, a.msg_count * a.count,
    Created(RB(0, a.msg_count * a.count),
      start(a) \o Open
      \o When(p = 0,
           Times(a.msg_count, LAMBDA j :
             Times(a.np + 1, LAMBDA i :
               Put(Whole(a), Next_rank(a, p, j * (a.np + 1) + i), j * a.count))))
      \o Close))
onesided_alltoall(a, p) ==
  LET size == a.count * a.np * a.msg_count
  IN Measured(a.count * a.np, size,
       Created(RB(0, size),
         start(a) \o Open
         \o Times(a.msg_count, LAMBDA j :
              Times(a.np + 1, LAMBDA i :
                LET q == Next_rank(a, p, j * (a.np + 1) + i)
                IN Put(SB(q * a.count, a.count), q, (j * a.np + p) * a.count)))
         \o Close))
onesided_reduce(a, p) ==
  OnRecv(a, start(a) \o Open \o Accumulate_(Whole(a), 0, 0) \o Close)
onesided_allreduce(a, p) ==
  OnRecv(a, start(a) \o Open
            \o Times(a.np, LAMBDA i : Accumulate_(Whole(a), Next_rank(a, p, i), 0))
            \o Close)

-----------------------------------------------------------------------------
(* Exchange of the borders of a grid.  A row of it is an element: rows 1 to
   border_rows are the rank's own, rows 0 and border_rows + 1 are copies of rows
   of its neighbours.  The two buffers take turns as to_buffer and from_buffer. *)

prev_rank(a, p) == (p + a.np - 1) % a.np
next_rank(a, p) == (p + 1) % a.np
border_rows(a) == a.rows

\* exchange fills the borders of a buffer, arrived waits until they are there.
Relaxation(a, exchange(_), arrived(_)) ==
  LET buffer(k) == IF k % 2 = 0 THEN "send" ELSE "recv"
      outer(k) == When(a.compute, Relax(buffer(k), buffer(k + 1), {1, border_rows(a)}))
      inner(k) == When(a.compute, Relax(buffer(k), buffer(k + 1), 2 .. border_rows(a) - 1))
  IN When(border_rows(a) >= 3,
       exchange(buffer(0))
       \o Times(a.msg_count, LAMBDA k :
            arrived(buffer(k)) \o outer(k) \o exchange(buffer(k + 1)) \o inner(k))
       \o arrived(buffer(a.msg_count)) \o outer(a.msg_count) \o inner(a.msg_count))

Grid(a, buf) == Area(buf, 0, border_rows(a) + 2)
TwoWindows(a, calls) ==
  LET swapped == border_rows(a) >= 3 /\ a.msg_count % 2 = 1
  IN MPI_Win_create("send", Grid(a, "send")) \o MPI_Win_create("recv", Grid(a, "recv"))
     \o start_synchronization(a) \o calls
     \o MPI_Win_free(IF swapped THEN "send" ELSE "recv")       \* to_win
     \o MPI_Win_free(IF swapped THEN "recv" ELSE "send")       \* from_win
\* Mutant: the copy of the border instead of the row next to it.
GetCopies(a, p, buf) ==
  MPI_Get(buf, Area(buf, 0, 1), prev_rank(a, p), border_rows(a) + 1)
  \o MPI_Get(buf, Area(buf, border_rows(a) + 1, 1), next_rank(a, p), 0)
GetBorders(a, p, buf) ==
  MPI_Get(buf, Area(buf, 0, 1), prev_rank(a, p), border_rows(a))
  \o MPI_Get(buf, Area(buf, border_rows(a) + 1, 1), next_rank(a, p), 1)

onesided_exchange_border_cells(a, p, buf) ==
  LET group == {prev_rank(a, p), next_rank(a, p)}
  IN MPI_Win_post(buf, group) \o MPI_Win_start(buf, group) \o GetBorders(a, p, buf)
onesided_borderexchange(a, p) ==
  Measured(border_rows(a) + 2, border_rows(a) + 2,
    TwoWindows(a, Relaxation(a, LAMBDA buf : onesided_exchange_border_cells(a, p, buf),
                                LAMBDA buf : MPI_Win_complete(buf) \o MPI_Win_wait(buf))))
onesided_borderexchange_fence(a, p) ==
  Measured(border_rows(a) + 2, border_rows(a) + 2,
    TwoWindows(a, Relaxation(a, LAMBDA buf : MPI_Win_fence(buf) \o GetBorders(a, p, buf),
                                MPI_Win_fence)))

\* Rows 1 and border_rows are sent from copies behind the grid in the send buffer.
sendbuf1(a) == SB(border_rows(a) + 2, 1)
sendbuf2(a) == SB(border_rows(a) + 3, 1)
CopyRows(a, buf) ==
  Copy(Area(buf, 1, 1), sendbuf1(a)) \o Copy(Area(buf, border_rows(a), 1), sendbuf2(a))
\* Mutant: the two directions have the same tag.
SameTag(a, p, buf) ==
  CopyRows(a, buf)
  \o MPI_Irecv(prev_rank(a, p), 0, Area(buf, 0, 1))
  \o MPI_Irecv(next_rank(a, p), 0, Area(buf, border_rows(a) + 1, 1))
  \o MPI_Isend(prev_rank(a, p), 0, sendbuf1(a)) \o MPI_Isend(next_rank(a, p), 0, sendbuf2(a))
twosided_exchange_border_cells(a, p, buf) ==
  CopyRows(a, buf)
  \o MPI_Irecv(prev_rank(a, p), 0, Area(buf, 0, 1))
  \o MPI_Irecv(next_rank(a, p), 1, Area(buf, border_rows(a) + 1, 1))
  \o MPI_Isend(prev_rank(a, p), 1, sendbuf1(a)) \o MPI_Isend(next_rank(a, p), 0, sendbuf2(a))
twosided_borderexchange(a, p) ==
  Measured(border_rows(a) + 4, border_rows(a) + 4,
    start_synchronization(a)
    \o Relaxation(a, LAMBDA buf : twosided_exchange_border_cells(a, p, buf), LAMBDA buf : MPI_Waitall))
=============================================================================
