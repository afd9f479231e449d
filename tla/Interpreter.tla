----------------------------- MODULE Interpreter -----------------------------
(***************************************************************************)
(* execute_statement of src/src/exec.c on all ranks: each one runs the     *)
(* same statements by itself and meets the others in measurements, in the  *)
(* reduction of the abort flag after each of them, and in the broadcasts   *)
(* by which an autorefine loop takes its further values.  With them come   *)
(* the variables of autorefine.c and misc.c that outlive a statement.      *)
(*                                                                         *)
(* A program is the statement tree written as a sequence: a loop, its      *)
(* body, and an "end" that names the loop.  Loops add a step, up or down; *)
(* one without a last value runs until the buffer is too small.            *)
(***************************************************************************)
EXTENDS Integers, Sequences, FiniteSets, SequencesExt

CONSTANTS
  Rank,         \* MPI_COMM_WORLD
  Var,          \* the variables of the programs
  Programs,     \* input files
  BufferSizes,  \* values of skampi_buffer_size
  MaxRefine     \* bound: refining passes through a loop

NoLast == 0
NULL == "NULL"

ASSUME RanksFinite == IsFiniteSet(Rank) /\ Rank # {}
ASSUME SizesNatural == BufferSizes \subseteq Nat /\ MaxRefine \in Nat /\ NULL \notin Var
Statements ==
  [op : {"measure"}, comm : Seq(Rank) \ {<< >>}, size : Var]
  \cup [op : {"loop"}, var : Var, first : Nat, last : Nat, step : Int \ {0},
        refine : BOOLEAN, end : Nat]
  \cup [op : {"end"}, loop : Nat]

ASSUME ProgramsTyped == Programs \subseteq Seq(Statements)
\* Loops have one end each, and lie within each other or apart.
ASSUME ProgramsWellFormed == \A program \in Programs : \A k \in 1 .. Len(program) :
  LET s == program[k]
  IN /\ s.op = "loop" =>
          /\ s.end \in k + 1 .. Len(program) /\ program[s.end] = [op |-> "end", loop |-> k]
          /\ \A j \in k + 1 .. s.end - 1 : program[j].op = "loop" => program[j].end < s.end
          /\ s.last = NoLast => s.step > 0
     /\ s.op = "end" =>
          s.loop \in 1 .. k - 1 /\ program[s.loop].op = "loop" /\ program[s.loop].end = k
\* With first + step = Clobbered the body would be skipped as for a value it had.
ASSUME RefinedLoops == \A program \in Programs : \A k \in 1 .. Len(program) :
  LET s == program[k]
  IN s.op = "loop" /\ s.refine => s.first + s.step # 0 /\ (s.step < 0 => s.last > 0)

VARIABLES
  program, skampi_buffer_size,
  pc, point,            \* next statement of each rank; where in it: "run",
                        \* "reduce", "choose", "failed"
  stack,                \* open loops of each rank: statement, internal_loopvar and
                        \* the refining passes made, or -1
  env,                  \* values of the variables, by rank
  abort_inner_loop, local_abort_inner_loop,
  measurement_comm,     \* of the last measurement, << >>: none yet
  running_autorefine, loopvar, registered_measurements,  \* of autorefine.c
  entered               \* history: bodies begun, by rank: statement and value

refinement == <<running_autorefine, loopvar, registered_measurements>>
flags == <<abort_inner_loop, local_abort_inner_loop>>
input == <<program, skampi_buffer_size>>
vars == <<input, pc, point, stack, env, flags, measurement_comm, refinement, entered>>

Statement(p) == program[pc[p]]
IsAt(p, op) == point[p] = "run" /\ pc[p] <= Len(program) /\ Statement(p).op = op
Finished(p) == point[p] = "run" /\ pc[p] > Len(program)
InnerLoop(p) == Last(stack[p])
Goto(p, k) == pc' = [pc EXCEPT ![p] = k]

\* measurement_rank is static: before the first measurement it is 0 everywhere.
lrootproc(p) == measurement_comm[p] # << >> => Head(measurement_comm[p]) = p

Init ==
  /\ program \in Programs /\ skampi_buffer_size \in BufferSizes
  /\ pc = [p \in Rank |-> 1] /\ point = [p \in Rank |-> "run"]
  /\ stack = [p \in Rank |-> << >>]
  /\ env = [p \in Rank |-> [v \in Var |-> 0]]
  /\ abort_inner_loop = [p \in Rank |-> FALSE]
  /\ local_abort_inner_loop = [p \in Rank |-> FALSE]
  /\ measurement_comm = [p \in Rank |-> << >>]
  /\ running_autorefine = [p \in Rank |-> FALSE]
  /\ loopvar = [p \in Rank |-> NULL]
  /\ registered_measurements = [p \in Rank |-> 0]
  /\ entered = [p \in Rank |-> {}]

-----------------------------------------------------------------------------
(* Loops. *)

Holds(s, x) == s.last = NoLast \/ (IF s.step > 0 THEN x <= s.last ELSE x >= s.last)

\* init_autorefine stores -1.0 over the union that holds the loop variable: the
\* integer in it becomes the lower half of that double (little-endian).
Clobbered == 0
FirstValue(p, s) == IF s.refine /\ lrootproc(p) THEN Clobbered ELSE s.first

\* Into the body of loop k with value x, or out of the loop: the loop's abort
\* is not the surrounding one's.
EnterBody(p, k, x) ==
  /\ Goto(p, k + 1)
  /\ entered' = [entered EXCEPT ![p] = @ \cup {<<k, x>>}]

KeepsAbort(p) == UNCHANGED abort_inner_loop                            \* mutant
ResetAbort(p) == abort_inner_loop' = [abort_inner_loop EXCEPT ![p] = FALSE]

\* init_autorefine for loop s, on ranks that take themselves for the root.
init_autorefine(p, s) ==
  IF s.refine /\ lrootproc(p)
  THEN /\ running_autorefine' = [running_autorefine EXCEPT ![p] = TRUE]
       /\ loopvar' = [loopvar EXCEPT ![p] = s.var]
       /\ registered_measurements' = [registered_measurements EXCEPT ![p] = 0]
  ELSE UNCHANGED refinement

\* The head of a loop statement.  A pass is skipped if the variable has the value it had
\* behind the last body (last_loopvar); as no step is 0, this happens only where a loop
\* in the body has the same variable, and is left out.
EnterLoop(p) ==
  /\ IsAt(p, "loop")
  /\ ~(Statement(p).refine /\ lrootproc(p) /\ running_autorefine[p])
  /\ LET s == Statement(p)
         x == FirstValue(p, s)
         Opened(passes) == Append(stack[p], [loop |-> pc[p], internal |-> s.first, passes |-> passes])
     IN /\ env' = [env EXCEPT ![p][s.var] = x]
        /\ init_autorefine(p, s)
        /\ \/ /\ Holds(s, x)
              /\ EnterBody(p, pc[p], x)
              /\ stack' = [stack EXCEPT ![p] = Opened(-1)]
              /\ UNCHANGED point
           \/ /\ ~Holds(s, x) /\ s.refine
              /\ Goto(p, s.end)
              /\ stack' = [stack EXCEPT ![p] = Opened(0)]
              /\ point' = [point EXCEPT ![p] = "choose"]
              /\ UNCHANGED entered
           \/ /\ ~Holds(s, x) /\ ~s.refine
              /\ Goto(p, s.end + 1)
              /\ UNCHANGED <<stack, point, entered>>
  /\ ResetAbort(p)
  /\ UNCHANGED <<input, local_abort_inner_loop, measurement_comm>>

\* error 15: autorefine statements cannot be nested.
NestedRefine(p) ==
  /\ IsAt(p, "loop")
  /\ Statement(p).refine /\ lrootproc(p) /\ running_autorefine[p]
  /\ point' = [point EXCEPT ![p] = "failed"]
  /\ UNCHANGED <<input, pc, stack, env, flags, measurement_comm, refinement, entered>>

\* The end of a pass in the plain phase: the next value, whether aborted or
\* not, and the test.
NextValue(p) ==
  /\ IsAt(p, "end") /\ InnerLoop(p).passes = -1
  /\ LET k == Statement(p).loop
         s == program[k]
         x == InnerLoop(p).internal + s.step
         again == ~abort_inner_loop[p] /\ Holds(s, x)
         Inner(passes) == [loop |-> k, internal |-> x, passes |-> passes]
     IN /\ env' = [env EXCEPT ![p][s.var] = x]
        /\ \/ /\ again
              /\ EnterBody(p, k, x)
              /\ stack' = [stack EXCEPT ![p] = Append(Front(@), Inner(-1))]
              /\ UNCHANGED <<point, flags>>
           \/ /\ ~again /\ s.refine
              /\ point' = [point EXCEPT ![p] = "choose"]
              /\ stack' = [stack EXCEPT ![p] = Append(Front(@), Inner(0))]
              /\ UNCHANGED <<pc, flags, entered>>
           \/ /\ ~again /\ ~s.refine
              /\ Goto(p, pc[p] + 1)
              /\ stack' = [stack EXCEPT ![p] = Front(@)]
              /\ ResetAbort(p)
              /\ UNCHANGED <<point, local_abort_inner_loop, entered>>
  /\ UNCHANGED <<input, measurement_comm, refinement>>

\* The end of a refining pass, which ignores the abort flag.
EndOfPass(p) ==
  /\ IsAt(p, "end") /\ InnerLoop(p).passes >= 0
  /\ point' = [point EXCEPT ![p] = "choose"]
  /\ UNCHANGED <<input, pc, stack, env, flags, measurement_comm, refinement, entered>>

-----------------------------------------------------------------------------
(* Measurements. *)

\* is_buffer_too_small, reduced over the communicator.
TooSmall(c, size) == \E q \in ToSet(c) : env[q][size] > skampi_buffer_size

\* execute_measurement on communicator c: its collectives wait for each member.
Measure(c) ==
  LET members == ToSet(c)
      small   == TooSmall(c, Statement(Head(c)).size)
  IN /\ \A p \in members : IsAt(p, "measure") /\ Statement(p).comm = c
     /\ measurement_comm' = [p \in Rank |-> IF p \in members THEN c ELSE measurement_comm[p]]
     /\ local_abort_inner_loop' =
          [p \in Rank |-> IF p \in members THEN small ELSE local_abort_inner_loop[p]]
     /\ registered_measurements' = [registered_measurements EXCEPT ![Head(c)] =
          IF running_autorefine[Head(c)] /\ ~small THEN @ + 1 ELSE @]
     /\ point' = [p \in Rank |-> IF p \in members THEN "reduce" ELSE point[p]]
     /\ UNCHANGED <<input, pc, stack, env, abort_inner_loop, running_autorefine, loopvar, entered>>

\* For the other ranks the communicator is MPI_COMM_NULL.
NotMember(p) ==
  /\ IsAt(p, "measure") /\ p \notin ToSet(Statement(p).comm)
  /\ local_abort_inner_loop' = [local_abort_inner_loop EXCEPT ![p] = FALSE]
  /\ point' = [point EXCEPT ![p] = "reduce"]
  /\ UNCHANGED <<input, pc, stack, env, abort_inner_loop, measurement_comm, refinement, entered>>

\* What the MPI_Allreduce of the flag over MPI_COMM_WORLD gives rank p.
OwnFlag(p) == local_abort_inner_loop[p]                                \* mutant
Abort(p) == \E q \in Rank : local_abort_inner_loop[q]

Reduce ==
  /\ \A p \in Rank : point[p] = "reduce"
  /\ abort_inner_loop' = [p \in Rank |-> Abort(p)]
  /\ pc' = [p \in Rank |-> pc[p] + 1]
  /\ point' = [p \in Rank |-> "run"]
  /\ UNCHANGED <<input, stack, env, local_abort_inner_loop, measurement_comm, refinement, entered>>

-----------------------------------------------------------------------------
(* set_new_loop_values, two broadcasts over the last measurement's         *)
(* communicator. Which candidate the root takes is left open (Autorefine).  *)

\* The refining of rank p's inner loop has begun and its lists exist.
Choosing(c) == \A p \in ToSet(c) : point[p] = "choose" /\ measurement_comm[p] = c

\* init_candidates asserts results # NULL and dereferences results->next.
NoCandidates(p) ==
  /\ point[p] = "choose" /\ lrootproc(p)
  /\ InnerLoop(p).passes = 0 /\ registered_measurements[p] < 2
  /\ point' = [point EXCEPT ![p] = "failed"]
  /\ UNCHANGED <<input, pc, stack, env, flags, measurement_comm, refinement, entered>>

\* Values between results, which fit the buffer (rising loops only: Clobbered is
\* below the last value of a falling one).
Candidates(s) == {x \in Clobbered .. skampi_buffer_size : Holds(s, x)}

\* The root's next value, stored through each rank's loopvar.
RefineLoop(c) ==
  LET root    == Head(c)
      members == ToSet(c)
      lost    == {p \in members : loopvar[p] = NULL}
      pass    == InnerLoop(root).passes
  IN /\ Choosing(c)
     /\ pass = 0 => registered_measurements[root] >= 2
     /\ pass < MaxRefine
     /\ \E x \in Candidates(program[InnerLoop(root).loop]) :
          /\ env' = [p \in Rank |-> IF p \in members \ lost
                                    THEN [env[p] EXCEPT ![loopvar[p]] = x] ELSE env[p]]
          /\ entered' = [p \in Rank |-> IF p \in members \ lost
                THEN entered[p] \cup {<<InnerLoop(p).loop, x>>} ELSE entered[p]]
     /\ point' = [p \in Rank |-> IF p \in lost THEN "failed"
                                 ELSE IF p \in members THEN "run" ELSE point[p]]
     /\ pc' = [p \in Rank |-> IF p \in members \ lost THEN InnerLoop(p).loop + 1 ELSE pc[p]]
     /\ stack' = [p \in Rank |-> IF p \in members
          THEN [stack[p] EXCEPT ![Len(stack[p])].passes = pass + 1] ELSE stack[p]]
     /\ UNCHANGED <<input, flags, measurement_comm, refinement>>

\* The root has enough, though it has set its variable to the top candidate if
\* there is one; finalize_autorefine, again only on the root.
KeepsRunning(c) == running_autorefine                                  \* mutant
StillRunning(c) == [running_autorefine EXCEPT ![Head(c)] = FALSE]

LeaveRefined(c) ==
  LET root    == Head(c)
      members == ToSet(c)
  IN /\ Choosing(c)
     /\ InnerLoop(root).passes = 0 => registered_measurements[root] >= 2
     /\ running_autorefine' = StillRunning(c)
     /\ pc' = [p \in Rank |-> IF p \in members THEN pc[p] + 1 ELSE pc[p]]
     /\ point' = [p \in Rank |-> IF p \in members THEN "run" ELSE point[p]]
     /\ stack' = [p \in Rank |-> IF p \in members THEN Front(stack[p]) ELSE stack[p]]
     /\ \E x \in Candidates(program[InnerLoop(root).loop]) \cup {env[root][loopvar[root]]} :
          env' = [env EXCEPT ![root][loopvar[root]] = x]
     /\ abort_inner_loop' =
          [p \in Rank |-> IF p \in members THEN FALSE ELSE abort_inner_loop[p]]
     /\ UNCHANGED <<input, local_abort_inner_loop, measurement_comm, loopvar,
                    registered_measurements, entered>>

-----------------------------------------------------------------------------
Comms == {program[k].comm : k \in {j \in 1 .. Len(program) : program[j].op = "measure"}}

RankStep(p) == EnterLoop(p) \/ NestedRefine(p) \/ NextValue(p) \/ EndOfPass(p)
               \/ NotMember(p) \/ NoCandidates(p)
CommStep(c) == Measure(c) \/ RefineLoop(c) \/ LeaveRefined(c)
Failed == \E p \in Rank : point[p] = "failed"
Terminated == ((\A p \in Rank : Finished(p)) \/ Failed) /\ UNCHANGED vars

Next == \/ \E p \in Rank : RankStep(p)
        \/ \E c \in Comms : CommStep(c)
        \/ Reduce
        \/ Terminated

Spec == Init /\ [][Next]_vars

\* Every rank goes on, and MPI completes a collective that all have called.
FairSpec == Spec /\ WF_vars(Next)

-----------------------------------------------------------------------------
LoopValues(p) == [k \in 1 .. Len(stack[p]) |-> env[p][program[stack[p][k].loop].var]]

\* Ranks that wait for each other in a collective, of a measurement, of the
\* abort flag or of a refinement, have come to it from the same statement with
\* the same values of the loop variables: each rank decides alone when to
\* leave a loop, and they decide alike.
SameStatement ==
  \A p, q \in Rank :
    \/ point[p] = "reduce" /\ point[q] = "reduce"
    \/ point[p] = "choose" /\ point[q] = "choose"
    \/ /\ IsAt(p, "measure") /\ IsAt(q, "measure")
       /\ Statement(p).comm = Statement(q).comm
       /\ {p, q} \subseteq ToSet(Statement(p).comm)
    => pc[p] = pc[q] /\ LoopValues(p) = LoopValues(q)

\* A measurement that does not fit the buffer ends the innermost loop only: a
\* loop with all its measurements in loops of its own takes all its values, if
\* the program comes to it, that is if each loop around it has run its body.
Own(k) == {j \in k + 1 .. program[k].end - 1 :
             \A m \in k + 1 .. j - 1 :
               program[m].op = "loop" => program[m].end < j}
Enclosing(k) == {j \in 1 .. k - 1 : program[j].op = "loop" /\ k <= program[j].end}
OnlyInnermostAborted ==
  \A p \in Rank : Finished(p) =>
    \A k \in 1 .. Len(program) :
      LET s == program[k]
      IN (s.op = "loop" /\ ~s.refine /\ s.last # NoLast
            /\ (\A j \in Own(k) : program[j].op # "measure")
            /\ \A j \in Enclosing(k) : \E body \in entered[p] : body[1] = j)
         => \A i \in 0 .. s.first + s.last :
              Holds(s, s.first + i * s.step) => <<k, s.first + i * s.step>> \in entered[p]

\* The comments in init_autorefine and finalize_autorefine: there is no need for
\* them on ranks other than the root. So a rank that is sent a refined value
\* stores it in the variable of the loop it is in.
RefinesOwnVariable ==
  \A p \in Rank : point[p] = "choose" => loopvar[p] = program[InnerLoop(p).loop].var

\* A refined loop is refused (error 15, "autorefine statements cannot be nested") only
\* where it stands in another one: the rank that is to choose the values of a loop has
\* not kept running_autorefine from an earlier loop, which was finalised on one rank only,
\* or from an earlier time in the same loop.
RefusedOnlyIfNested ==
  \A p \in Rank :
    IsAt(p, "loop") /\ Statement(p).refine /\ lrootproc(p) /\ running_autorefine[p]
      => \E i \in 1 .. Len(stack[p]) : program[stack[p][i].loop].refine

\* Every rank comes to the end of the input file, unless an error has ended the
\* program, with loops that only the size of the buffer ends and communicators
\* that leave ranks out: no collective waits for a rank that has gone elsewhere.
AllFinish == <>((\A p \in Rank : Finished(p)) \/ Failed)
=============================================================================
