------------------------------ MODULE TimeDiff ------------------------------
(***************************************************************************)
(* The tables of clock differences of src/src/synchronize.c: what          *)
(* determine_time_differences leaves in tds on every process when it is    *)
(* called for one communicator after another, as each measurement with     *)
(* SYNC_REAL does.  The root compares its clock with every other rank in   *)
(* turn (module PingPong), broadcasts what it found, and every other rank  *)
(* adds its own difference to the root.                                    *)
(*                                                                         *)
(* A comparison leaves on each of the two processes a difference that is   *)
(* off by at most Slack, half the window of ping_pong.                     *)
(***************************************************************************)
EXTENDS Integers, Sequences

CONSTANTS
  Node,     \* the processes, by their rank in MPI_COMM_WORLD
  Comms,    \* communicators measured on: their processes in order of rank
  Offset,   \* what the clock of each process shows at real time 0
  Slack,    \* error of one comparison at most
  MaxCalls  \* bound: calls of determine_time_differences

ASSUME CommsOfNodes == \A c \in Comms :
  /\ c \in Seq(Node) /\ Len(c) >= 1
  /\ \A j, k \in 1 .. Len(c) : c[j] = c[k] => j = k
ASSUME ClocksDiffer == Offset \in [Node -> Int]
ASSUME BoundsNatural == Slack \in Nat /\ MaxCalls \in Nat

VARIABLES
  calls,    \* calls made
  phase,    \* of the current call: "idle", "compare", "update"
  comm,     \* the measurement communicator
  i,        \* rank to be compared next
  tds,      \* tds[p][q]: on process p, for process q
  tmp_tds,  \* the root's table on its way to the others, by rank
  updated,  \* processes that have taken it over
  known     \* history: pairs p, q for which tds[p][q] has been determined

vars == <<calls, phase, comm, i, tds, tmp_tds, updated, known>>

\* Process number r of the communicator (get_global_rank); rank 0 is the root.
get_global_rank(r) == comm[r + 1]
root == get_global_rank(0)
Others == {get_global_rank(r) : r \in 1 .. Len(comm) - 1}

TrueDiff(p, q) == Offset[q] - Offset[p]
Estimates(d) == d - Slack .. d + Slack

\* init_synchronization_module.
Init ==
  /\ calls = 0 /\ phase = "idle" /\ comm = << >> /\ i = 1
  /\ tds = [p \in Node |-> [q \in Node |-> 0]]
  /\ tmp_tds = << >> /\ updated = {} /\ known = {}

\* update_measurement_comm, then the call of determine_time_differences.
Begin ==
  /\ phase = "idle" /\ calls < MaxCalls
  /\ calls' = calls + 1
  /\ comm' \in Comms
  /\ phase' = "compare" /\ i' = 1
  /\ tmp_tds' = << >> /\ updated' = {}
  /\ UNCHANGED <<tds, known>>

\* ping_pong(0, i): sets the entry of each of the two for the other.
SameSignOnBoth ==                                                      \* mutant
  /\ phase = "compare" /\ i < Len(comm)
  /\ LET q == get_global_rank(i)
     IN /\ \E d \in Estimates(TrueDiff(root, q)) : tds' = [tds EXCEPT ![root][q] = d, ![q][root] = d]
        /\ known' = known \cup {<<root, q>>, <<q, root>>}
  /\ i' = i + 1
  /\ UNCHANGED <<calls, phase, comm, tmp_tds, updated>>
Compare ==
  /\ phase = "compare" /\ i < Len(comm)
  /\ LET q == get_global_rank(i)
     IN /\ \E d \in Estimates(TrueDiff(root, q)), e \in Estimates(TrueDiff(q, root)) :
             tds' = [tds EXCEPT ![root][q] = d, ![q][root] = e]
        /\ known' = known \cup {<<root, q>>, <<q, root>>}
  /\ i' = i + 1
  /\ UNCHANGED <<calls, phase, comm, tmp_tds, updated>>

Broadcast ==
  /\ phase = "compare" /\ i >= Len(comm)
  /\ tmp_tds' = [r \in 1 .. Len(comm) - 1 |-> tds[root][get_global_rank(r)]]
  /\ phase' = "update"
  /\ UNCHANGED <<calls, comm, i, tds, updated, known>>

\* What process p computes for the process of rank r.
ForgetsRoot(p, r) == tmp_tds[r]                                        \* mutant
ViaRoot(p, r) == tmp_tds[r] + tds[p][root]

RankOf(q) == CHOOSE r \in 1 .. Len(comm) - 1 : get_global_rank(r) = q

Update(p) ==
  /\ phase = "update" /\ p \in Others /\ p \notin updated
  /\ tds' = [tds EXCEPT ![p] = [q \in Node |->
                IF q \in Others THEN ViaRoot(p, RankOf(q)) ELSE tds[p][q]]]
  /\ known' = known \cup {<<p, q>> : q \in Others}
  /\ updated' = updated \cup {p}
  /\ UNCHANGED <<calls, phase, comm, i, tmp_tds>>

\* The barrier at the end.
End ==
  /\ phase = "update" /\ Others \subseteq updated
  /\ phase' = "idle"
  /\ UNCHANGED <<calls, comm, i, tds, tmp_tds, updated, known>>

Terminated == phase = "idle" /\ calls = MaxCalls /\ UNCHANGED vars

Next == Begin \/ Compare \/ Broadcast \/ (\E p \in Node : Update(p)) \/ End \/ Terminated

Spec == Init /\ [][Next]_vars

-----------------------------------------------------------------------------
\* The types of the variables.
TypeOK ==
  /\ calls \in Nat /\ i \in Nat \ {0}
  /\ phase \in {"idle", "compare", "update"}
  /\ comm \in Seq(Node)
  /\ tds \in [Node -> [Node -> Int]]
  /\ tmp_tds \in Seq(Int)
  /\ updated \subseteq Node /\ known \subseteq Node \X Node

\* Whatever communicators were measured on, in whatever order and with however
\* different roots, a difference that was determined is off by at most two
\* comparisons: no chain of calls through other processes adds up errors.
ErrorsDoNotAddUp ==
  \A p, q \in Node : <<p, q>> \in known =>
    /\ tds[p][q] - TrueDiff(p, q) <= 2 * Slack
    /\ TrueDiff(p, q) - tds[p][q] <= 2 * Slack

\* Every member of the measurement communicator, the root too, takes its entry for
\* the root to translate the start of a run from the root's clock to its own
\* (measurement.c:358) and the end of a batch back (591): by how much these are off.
StartError(p) == tds[p][root] - TrueDiff(p, root)

\* After a call its members start a run within two comparisons of each other.
\* The root is the exception: its entry for itself is not compared and not reset
\* but may be left from a call with another root, off by two comparisons itself,
\* so that the root starts within three comparisons of the others.  No history
\* of calls makes it worse.
StartsTogether ==
  phase = "idle" /\ comm # << >> =>
    \A p, q \in Others \cup {root} :
      StartError(p) - StartError(q) <= (IF root \in {p, q} THEN 3 ELSE 2) * Slack

=============================================================================
