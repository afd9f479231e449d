----------------------------- MODULE Collective -----------------------------
(***************************************************************************)
(* The programs of rank p in the measurements of measurements/coll.c and   *)
(* measurements/delayed.c, and of multi_Alltoall of onesided.c.            *)
(***************************************************************************)
EXTENDS MPICalls

\* count elements dealt out over the ranks: counts[i] and displs[i].
initialize_counts(a, count, i) ==
  count \div a.np
  + Cardinality({k \in 0 .. (count % a.np) - 1 : (k * a.np) \div (count % a.np) = i})
initialize_displs(Counts(_), i) == MapThenSumSet(Counts, 0 .. i - 1)

Timed(a, calls) == start_synchronization(a) \o calls
AtRoot(a, p, n) == IF p = a.root THEN n ELSE 0
Slot(count, q) == q * count                 \* where the part of rank q begins

Bcast(a, p) == Measured(a.count, 0, Timed(a, MPI_Bcast(a, p, SB(0, a.count), a.root)))

\* In mycomm, which init_ splits off and finalize_ frees, rank root is number 0;
\* number r passes on to 2r+1 and 2r+2.
Bcast_using_Send_Recv(a, p) ==
  LET myrank == (p + a.np - a.root) % a.np
      Rank(r) == (r + a.root) % a.np
      buffer == SB(0, a.count)
  IN Measured(a.count, 0, Timed(a,
       When(myrank # 0, MPI_Recv(Rank((myrank - 1) \div 2), 0, buffer))
       \o When(2 * myrank + 1 < a.np, MPI_Send(Rank(2 * myrank + 1), 0, buffer))
       \o When(2 * myrank + 2 < a.np, MPI_Send(Rank(2 * myrank + 2), 0, buffer))))

Barrier(a, p) == Measured(0, 0, Timed(a, MPI_Barrier(a)))

Reduce(a, p) ==
  Measured(a.count, a.count,
           Timed(a, MPI_Reduce(a, p, SB(0, a.count), RB(0, a.count), a.root)))
Allreduce(a, p) ==
  Measured(a.count, a.count, Timed(a, MPI_Allreduce(a, SB(0, a.count), RB(0, a.count))))
Allreduce_using_Reduce_Bcast(a, p) ==
  Measured(a.count, a.count,
    Timed(a, MPI_Reduce(a, p, SB(0, a.count), RB(0, a.count), a.root)
             \o MPI_Bcast(a, p, RB(0, a.count), a.root)))
Reduce_scatter(a, p) ==
  LET Counts(i) == initialize_counts(a, a.count, i)
      Part(i) == SB(initialize_displs(Counts, i), Counts(i))
  IN Measured(a.count, Counts(p), Timed(a, MPI_Reduce_scatter(a, Part, RB(0, Counts(p)))))

Alltoall_(a) ==
  MPI_Alltoallv(a, LAMBDA q : SB(Slot(a.count, q), a.count),
                   LAMBDA q : RB(Slot(a.recv_count, q), a.recv_count))
Alltoall(a, p) == Measured(a.np * a.count, a.np * a.recv_count, Timed(a, Alltoall_(a)))

Isend_Irecv(a, Out(_), In(_)) ==
  Times(a.np, LAMBDA q : MPI_Irecv(q, 0, In(q)))
  \o Times(a.np, LAMBDA q : MPI_Isend(q, 0, Out(q))) \o MPI_Waitall
\* The offsets are multiples of the extent of one element.
Alltoall_using_Isend_Irecv(a, p) ==
  Measured(a.np * a.count, a.np * a.recv_count,
    Timed(a, Isend_Irecv(a, LAMBDA q : SB(q, a.count), LAMBDA q : RB(q, a.recv_count))))

Gather_(a, p) ==
  Timed(a, MPI_Gatherv(a, p, SB(0, a.count), LAMBDA q : RB(Slot(a.recv_count, q), a.recv_count),
                       a.root))
Gather(a, p) == Measured(a.count, AtRoot(a, p, a.np * a.recv_count), Gather_(a, p))
\* Nothing is sent from the root to itself.
Gather_using_Send_Recv(a, p) ==
  Measured(a.count, AtRoot(a, p, a.np * a.recv_count),
    Timed(a, IF p = a.root
             THEN Times(a.np, LAMBDA q :
                    When(q # p, MPI_Recv(q, 0, RB(Slot(a.recv_count, q), a.recv_count))))
             ELSE MPI_Send(a.root, 0, SB(0, a.count))))
Gather_using_Isend_Irecv_Waitall(a, p) ==
  Measured(a.count, AtRoot(a, p, a.np * a.recv_count),
    Timed(a, IF p = a.root
             THEN Times(a.np, LAMBDA q :
                    When(q # p, MPI_Irecv(q, 0, RB(Slot(a.recv_count, q), a.recv_count))))
             ELSE MPI_Isend(a.root, 0, SB(0, a.count)))
    \o MPI_Waitall)

Allgather(a, p) ==
  Measured(a.count, a.np * a.recv_count,
    Timed(a, MPI_Allgatherv(a, SB(0, a.count),
                            LAMBDA q : RB(Slot(a.recv_count, q), a.recv_count))))
Scatter(a, p) ==
  Measured(AtRoot(a, p, a.np * a.count), a.recv_count,
    Timed(a, MPI_Scatterv(a, p, LAMBDA q : SB(Slot(a.count, q), a.count),
                          RB(0, a.recv_count), a.root)))

\* The parts come back into the send buffer.
Reduce_Scatterv(a, p) ==
  LET Counts(i) == initialize_counts(a, a.count, i)
  IN Measured(a.count, AtRoot(a, p, a.count),
       Timed(a, MPI_Reduce(a, p, SB(0, a.count), RB(0, a.count), a.root)
                \o MPI_Scatterv(a, p, LAMBDA q : RB(initialize_displs(Counts, q), Counts(q)),
                                SB(0, Counts(p)), a.root)))

\* counts and displacements of initialize_counts(n * size).
Dealt(a, n, Buf(_, _), q) ==
  LET Counts(i) == initialize_counts(a, n * a.np, i)
  IN Buf(initialize_displs(Counts, q), Counts(q))
Alltoallv(a, p) ==
  Measured(a.np * a.count, a.np * a.recv_count,
    Timed(a, MPI_Alltoallv(a, LAMBDA q : Dealt(a, a.count, SB, q),
                              LAMBDA q : Dealt(a, a.recv_count, RB, q))))
Alltoallv_using_Isend_Irecv(a, p) ==
  LET first(n, q) == Dealt(a, n, SB, q).first
  IN Measured(a.np * a.count, a.np * a.recv_count,
       Timed(a, Isend_Irecv(a, LAMBDA q : SB(first(a.count, q), a.count),
                               LAMBDA q : RB(first(a.recv_count, q), a.recv_count))))
Gatherv(a, p) ==
  Measured(a.count, AtRoot(a, p, a.np * a.recv_count),
    Timed(a, MPI_Gatherv(a, p, SB(0, a.count), LAMBDA q : Dealt(a, a.recv_count, RB, q), a.root)))
Allgatherv(a, p) ==
  Measured(a.count, a.np * a.recv_count,
    Timed(a, MPI_Allgatherv(a, SB(0, a.count), LAMBDA q : Dealt(a, a.recv_count, RB, q))))
Scatterv(a, p) ==
  Measured(AtRoot(a, p, a.np * a.count), a.recv_count,
    Timed(a, MPI_Scatterv(a, p, LAMBDA q : Dealt(a, a.count, SB, q), RB(0, a.recv_count), a.root)))

Scan(a, p) ==
  Measured(a.count, a.count, Timed(a, MPI_Scan(a, p, SB(0, a.count), RB(0, a.count))))
Comm_split(a, p) == Measured(0, 0, Timed(a, MPI_Comm_split(a)) \o MPI_Comm_free(a))
Comm_dup(a, p) == Measured(0, 0, Timed(a, MPI_Comm_dup(a)) \o MPI_Comm_free(a))

-----------------------------------------------------------------------------
(* One rank sends and receives ratio times as much, the others so much less.
   The remainders of the divisions by the number of ranks are dealt out. *)

Charged(a, count, yes) == (IF yes THEN count * a.ratio ELSE count \div a.ratio) \div a.np
init_send_counts(a, count, i) ==
  Charged(a, count, i = a.node)
  + Cardinality({k \in 0 .. (count % a.np) - 1 : (k * a.np) \div (count % a.np) = i})
\* Mutant: the charges of the receivers instead of that of this rank.
EachCharged(a, p, count, i) == Charged(a, count, i = a.node)
init_recv_counts(a, p, count, i) ==
  Charged(a, count, p = a.node)
  + IF count % a.np # 0 /\ p % (a.np \div (count % a.np)) = 0 THEN 1 ELSE 0
myalltoallv(a, p) ==
  LET Send(i) == init_send_counts(a, a.count * a.np, i)
      Recv(i) == init_recv_counts(a, p, a.recv_count * a.np, i)
  IN Measured(MapThenSumSet(Send, World(a)), MapThenSumSet(Recv, World(a)),
       Timed(a, MPI_Alltoallv(a, LAMBDA q : SB(initialize_displs(Send, q), Send(q)),
                                 LAMBDA q : RB(initialize_displs(Recv, q), Recv(q)))))

\* One rank waits a while before the call.
delayed_Alltoall(a, p) == Alltoall(a, p)
delayed_Gather(a, p) == Gather(a, p)

multi_Alltoall(a, p) ==
  Measured(a.np * a.count, a.np * a.recv_count * a.msg_count,
    Timed(a, Times(a.msg_count, LAMBDA j :
      MPI_Alltoallv(a, LAMBDA q : SB(Slot(a.count, q), a.count),
                       LAMBDA q : RB(j * a.np * a.recv_count + Slot(a.recv_count, q),
                                     a.recv_count)))))
=============================================================================
