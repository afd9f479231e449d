---------------------------- MODULE PointToPoint ----------------------------
(***************************************************************************)
(* The programs of rank p in the measurements of measurements/pt2pt.c and  *)
(* measurements/node2node.c, and of those of onesided.c that send messages *)
(* between two ranks.  They do not synchronise, so that calls of measure_  *)
(* can overlap.                                                            *)
(***************************************************************************)
EXTENDS MPICalls

\* Rank 0 and its partner send to each other in turns; rank 0 sends once more
\* at the end, for the first receive of the partner.
Turns(a, p, Snd(_), Rcv(_)) ==
  When(a.iterations > 0,
       IF p = 0
       THEN Times(a.iterations, LAMBDA i : Snd(1) \o Rcv(1)) \o Snd(1)
       ELSE Rcv(0) \o Times(a.iterations, LAMBDA i : Snd(0) \o Rcv(0)))
Pingpong(a, p, Snd(_, _, _), Rcv(_, _, _)) ==
  Measured(a.count, a.count,
           Turns(a, p, LAMBDA q : Snd(q, 0, SB(0, a.count)), LAMBDA q : Rcv(q, 0, RB(0, a.count))))

Isend_wait(q, tag, area) == MPI_Isend(q, tag, area) \o Wait_sends
Issend_wait(q, tag, area) == MPI_Issend(q, tag, area) \o Wait_sends
Irecv_wait(q, tag, area) == MPI_Irecv(q, tag, area) \o Wait_receives
Recv_any_tag(q, tag, area) == MPI_Recv(q, AnyTag, area)

Pingpong_Send_Recv(a, p) == Pingpong(a, p, MPI_Send, MPI_Recv)
\* The first receive of the partner is not preceded by a probe.
Pingpong_Send_Iprobe_Recv(a, p) ==
  LET send(q) == MPI_Send(q, 0, SB(0, a.count))
      receive(q) == MPI_Recv(q, 0, RB(0, a.count))
      turn(q) == send(q) \o Probe(q, 0) \o receive(q)
  IN Measured(a.count, a.count,
       When(a.iterations > 0,
            IF p = 0 THEN Times(a.iterations, LAMBDA i : turn(1)) \o send(1)
            ELSE receive(0) \o Times(a.iterations, LAMBDA i : turn(0))))
Pingpong_Send_Irecv(a, p) == Pingpong(a, p, MPI_Send, Irecv_wait)
Pingpong_Send_Recv_AT(a, p) == Pingpong(a, p, MPI_Send, Recv_any_tag)
Pingpong_Ssend_Recv(a, p) == Pingpong(a, p, MPI_Ssend, MPI_Recv)
Pingpong_Isend_Recv(a, p) == Pingpong(a, p, Isend_wait, MPI_Recv)
Pingpong_Issend_Recv(a, p) == Pingpong(a, p, Issend_wait, MPI_Recv)
Pingpong_Bsend_Recv(a, p) == Pingpong(a, p, MPI_Bsend, MPI_Recv)

\* The partner has the counts and tags of the two directions swapped.
Pingpong_Sendrecv(a, p) ==
  Measured(a.count, a.count,
    Times(a.iterations, LAMBDA i :
      IF p = 0 THEN MPI_Sendrecv(1, 0, SB(0, a.count), 1, RB(0, a.recv_count))
      ELSE MPI_Sendrecv(0, 1, SB(0, a.recv_count), 0, RB(0, a.count))))
Pingpong_Sendrecv_replace(a, p) ==
  Measured(a.count, 0,
    Times(a.iterations, LAMBDA i :
      IF p = 0 THEN MPI_Sendrecv_replace(1, 0, 1, SB(0, a.count))
      ELSE MPI_Sendrecv_replace(0, 1, 0, SB(0, a.count))))

\* Every rank of the first group has rank 1 as its partner, every rank of the
\* second one rank 0.
Par_Pingpong_Send_Recv(a, p) ==
  Measured(a.count, a.count,
    When(p < a.procs \/ p \in a.nodesize .. a.nodesize + a.procs - 1,
         Turns(a, IF p < a.procs THEN 0 ELSE 1,
               LAMBDA q : MPI_Send(q, 0, SB(0, a.count)),
               LAMBDA q : MPI_Recv(q, 0, RB(0, a.count)))))

-----------------------------------------------------------------------------

\* Ranks that neither send nor receive wait for a request that is not set.
Isend_callduration(a, p) ==
  Measured(a.count, a.count,
    When(p = 1, MPI_Irecv(0, 0, RB(0, a.count))) \o start_synchronization(a)
    \o When(p = 0, MPI_Isend(1, 0, SB(0, a.count))) \o MPI_Waitall)

Send(a, p) ==
  Measured(a.count, a.count,
    IF p = 0 THEN MPI_Ssend(1, 0, SB(0, a.count)) ELSE MPI_Recv(0, 0, RB(0, a.count)))

\* Mutant: only the receives are waited for.
OnlyArrived(a, p) ==
  Measured(a.count, a.count * a.msg_count,
    start_synchronization(a)
    \o Times(a.msg_count, LAMBDA m :
         MPI_Irecv((p - m - 1) % a.np, 0, RB(m * a.count, a.count))
         \o MPI_Isend((p + m + 1) % a.np, 0, SB(0, a.count)))
    \o Wait_receives)
\* Rank p sends to the ranks after it and receives from the ranks before it.
Exchange(a, p) ==
  Measured(a.count, a.count * a.msg_count,
    start_synchronization(a)
    \o Times(a.msg_count, LAMBDA m :
         MPI_Irecv((p - m - 1) % a.np, 0, RB(m * a.count, a.count))
         \o MPI_Isend((p + m + 1) % a.np, 0, SB(0, a.count)))
    \o Wait_receives \o Wait_sends)
=============================================================================
