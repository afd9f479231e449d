# SKaMPI in TLA+

SKaMPI is a benchmark for MPI and OpenSHMEM.  Every process runs the same
input file; the file's statements call measurement functions, whose results are
repeated until they are precise enough, gathered, printed and, in a loop marked
`autorefine`, measured again where the curve bends.  This directory holds TLA+
modules for the parts in which processes depend on each other or on earlier
steps, TLC configurations that check them on small instances, and proofs,
checked by TLAPS, of what matters most.

Paths are relative to `src/src`, those of measurements to `src/src/measurements`.
The modules follow the MPI build, `Shmem...` the OpenSHMEM build.

## The system

| part | state it keeps | operations | hard because |
|---|---|---|---|
| clock comparison (`synchronize.c`, `ping_pong`) | a window around the difference of two clocks, `tds`, `ping_pong_min_time` | exchange of clock readings between two ranks | messages of unknown latency, two sides that both may stop, one tag for all pairs |
| tables of differences (`synchronize.c`, `determine_time_differences`; `misc.c`, `update_measurement_comm`) | `tds` on every rank, `global_ranks` | comparison of the root with all, broadcast, update | communicators with different roots, tables that mix old and new values |
| measurement loop (`measurement.c`) | batch length, interval, verdicts, results of all ranks, sums | batches, synchronised starts, gather, compaction, decision, broadcast | the root decides for all; runs are dropped and repeated; arrays of fixed size |
| output (`output.c`) | a buffer on each rank, receive buffers on one | `print_output`, `flush_output`, sorting of lines | texts in several messages, senders that are calls ahead |
| refinement (`autorefine.c`) | list of results, queue of candidates, counters | register a result, choose the next value | two linked lists over the same nodes, weights that depend on neighbours |
| interpreter (`exec.c`, `symboltable.c`) | loop variables, `abort_inner_loop` | statements of the input file | all ranks must make the same collective calls |
| buffers (`mem.c`) | memory of the measured operations | alignment, cycling, slices | sizes, alignments and bounds set by separate calls |
| accounting (`accounting.c`) | sums of times | add, print | - |
| parser (`parser.y`, `lexer.lex`, `compile.c`), start-up (`main.c`) | statement tree, source positions | two passes over the input file | - |
| MPI measurements (`pt2pt.c`, `coll.c`, `delayed.c`, `node2node.c`, `onesided.c`) | buffers, communicators, windows | init, measure, finalize of each MPI operation | each is a small protocol between ranks that has to be right whenever MPI moves the data, and must leave nothing to the next |
| file measurements (`io.c`) | a file, its pointers, requests | the same for MPI files, each with twelve classes of access routine | places of the file computed by each rank for itself, tokens between ranks |
| OpenSHMEM measurements (`openshmem*.c`) | symmetric objects, locks, contexts | the same for OpenSHMEM | waiting on memory, transfers that outlive the call, atomic operations of two PEs |

`exec.c` calls `execute_measurement` for each measurement.  That sets the
communicator, lets the measurement's init function ask for `SYNC_REAL` (which
calls `determine_time_differences`, which calls `ping_pong` for each rank) and
runs `measurement_loop`; the result goes to `autorefine.c` and to
`print_output`, and `flush_output` ends the statement on all ranks.

What makes each part correct: a comparison's window contains the true
difference and its exchange ends on both sides; tables do not accumulate errors;
ranks agree on every batch and leave the loop together, and a gathered line of
results belongs to one run of all ranks; the file holds each rank's text whole,
once and in order; the lists of the refinement agree with each other and with
what was measured; every measurement ends on all ranks, uses only memory and files
as it may, moves the data it is to move, and leaves nothing behind.

## The modules

| module | code | what it models |
|---|---|---|
| `PingPong` | `synchronize.c` 168-252, 366-373 | one pair of processes through several calls of `ping_pong` |
| `PingPong_proof` | | its proofs |
| `TimeDiff` | `synchronize.c` 375-448, `misc.c` 75-111 | `determine_time_differences` on one communicator after another |
| `TimeDiff_proof` | | its proofs |
| `MeasurementLoop` | `measurement.c` 131-154, 259-466, 471-782, 840-880 | one measurement from its first batch to the end of the loop |
| `MeasurementLoop_proof` | | its proofs |
| `Enumeration` | loops over runs | the elements of a set of numbers in their order |
| `DataLemmas` | | facts about numbers and sequences that several proofs need |
| `OutputLog` | | what `print_output` and `flush_output` promise |
| `FlushOutput` | `output.c` 85-192, 194-410 | how the MPI build keeps the promise; refines `OutputLog` |
| `FlushOutput_proof` | | its proofs |
| `Autorefine` | `autorefine.c` 201-667 | the refinement of one loop on the root |
| `Autorefine_proof` | | its proofs |
| `Interpreter` | `exec.c` 698-871, `exec.h` 146-175, `measurement.c` 840-927, `mem.c` 341-351, `autorefine.c` 201-233, 607-685 | the statements of an input file on all ranks |
| `Interpreter_proof` | | its proofs |
| `Buffer` | `mem.c` 33-129, 187-351, 392-517, `measurement.c` 863-879, `misc.c` 268-277 | the memory of the measured operations through settings, runs and slices |
| `Buffer_proof` | | its proofs |
| `MPICalls` | external | the calls to MPI of the measurements, as records |
| `PointToPoint`, `Collective`, `OneSided` | `pt2pt.c`, `node2node.c`; `coll.c`, `delayed.c`; `onesided.c` | what a rank does in each measurement |
| `MPIMeasurement` | external, `measurement.c` 840-927 | ranks executing such programs under a model of MPI |
| `FileCalls` | `io.c`, helpers | the calls to MPI files, and what the file measurements share |
| `FileWrites`, `FileReads`, `FileOperations` | `io.c` | what a rank does in each file measurement |
| `FileAccess` | external | ranks executing them under a model of MPI files |
| `ShmemCalls` | external | the calls to OpenSHMEM |
| `ShmemP2P`, `ShmemColl`, `ShmemSync` | `openshmem_p2p.c`, `openshmem.c`, `openshmem_ctx.c`; `openshmem_coll.c`; `openshmem_atomic.c`, `openshmem_locks.c` | what a PE does in each measurement |
| `ShmemMeasurement` | external, `measurement.c` 840-918 | PEs executing them under a model of OpenSHMEM |
| `MC...` | | values for the constants too long for a `.cfg` |

`PROJECT.json` maps every definition to the lines it stands for.  Operators
marked `mutant` at the end of their first line are deliberately wrong variants
of the definition that follows them; no specification uses them.  They serve to
show that each property notices a plausible mistake in the code.

**PingPong.** The locals of `ping_pong` are functions of the process; `pc`
names the statement that comes next.  Reading the clock and using the value is
one step, sends and receives are steps of their own and real time passes
between any two, so every latency and every asymmetry occurs.  The code sets
`my_time` and uses it in the next two lines without anything in between, which
is why a clock reading and the bounds computed from it are one action.  `tds`
is kept doubled to stay an integer.

**TimeDiff.** A comparison is one step and leaves each side off by at most
`Slack`, which is what `PingPong` establishes (`EstimateWithinWindow`: at most
half the window).  The history variable `known` says which entries have ever
been determined.  Which entries a measurement uses is a matter of `measurement.c`:
each member its entry for the root, the root the one for itself (`StartError`).

**MeasurementLoop.** A run (start, operation, stop) is one step of a rank
with a chosen duration; the ranks' clocks differ by a constant error of
estimation.  A batch ends in `Decide`, the gathering collectives and the root's
computation, and in `Receive`, the broadcasts as they reach each rank.
Result values are left out, so whether the standard error is small is a free
choice at every decision.  The history variable `good` lists the runs that no
rank found flawed.

**FlushOutput, OutputLog.** Characters are numbered, and the file is the sequence
of what was written to it, each piece with the rank it is from.  The refinement mapping
takes `open` to be the text kept by a rank outside of `flush_output`; `closed` is a
history variable, the texts handed over by `flush_output` that are not in the file yet.
What the channels and receive buffers hold is not mapped: that it is those texts, cut
into messages, is part of the invariant of the proof.

**Autorefine.** Nodes are elements of a sequence, the doubly linked lists
sequences of their indices.  The functions of the code are operators on a record of the
lists, which take a record and give one, as the code calls one after the other.  Weights are multiplied by `Scale` so that all
divisions of the chosen instances come out even (a width in the
instances divides 24 after scaling).  The values a loop visits are those of the
root, so the first of them is 0 whatever the input file says: `init_autorefine`
stores -1.0 in the double of a union that holds the integer (`autorefine.c:220`,
`exec.h:59`); on a little-endian machine 0 is left of it, and `Clobbered` is
that value.

**Interpreter.** A program is the statement tree as a sequence, each rank has
a place in it, a stack of open loops and its variables.  Ranks move alone; they
meet in `Measure` (the collectives of a measurement, over its communicator),
`Reduce` (the abort flag, over all ranks), `RefineLoop` and `LeaveRefined` (the
broadcasts of the next loop value, over the communicator of the last
measurement).  A measurement is one step of its members, which `MeasurementLoop`
justifies (`InStep`, `Terminates`); the value the refinement chooses is
left open, since `Autorefine` has the choice.  A rank takes itself for the
root if it was rank 0 of the last measurement, or if there was none.  Loops
over lists and iterators have the control of an arithmetic loop and are left
out, as are conditions, multiplicative loops and the evaluation of terms; so is
`flush_output` after a measurement, because every rank enters `Reduce` right
behind it.  The assumptions on programs say what the grammar of the input file gives:
each loop has its end, and loops lie within each other or apart; bounds are not negative
and no step is 0.  `OnlyInnermostAborted`
is about loops the program comes to: a loop in one that has no value is never begun.

**Buffer.** Addresses are numbers; the functions for the send and the receive side,
which are twins, are one operator with the side as an argument.  The address the
allocator returns is a choice, and a block may be returned again at once, so the
release of the old block is left out together with the note of how it was allocated.  Whether
the memory is too small here or on another rank, a measurement then does not run
(`MPI_Allreduce`, `measurement.c:863`).  Which slices are taken is left open, because no
measure function of the repository takes any.

**The measurements.** Three groups of modules have the same shape.  `...Calls` has
an operator for each library call, which gives the sequence of one record (or of two,
where a call begins and ends apart).  The program modules translate each init,
measure and finalize function into the sequence of calls one rank makes; what depends
on its arguments only (loops, counts, displacements, the branches for classes of
access routine) is worked out there, and branches that make the same calls with other
routines are one.  The last module is a state machine that executes the programs of
all ranks: its actions are library calls, so it is mostly external, and what is
checked is what the programs of SKaMPI do with it.  Timing, and the values measured,
are left out.

**MPIMeasurement.** MPI is `eager` (it buffers what is sent and moves the data of
one-sided calls at once) or does both only when it can no longer be avoided; all
measurements have to be right with either, except those that poll memory.  An element
of a buffer is the bag of what has been combined in it, so a sum, a copy and a lost
contribution differ.  Collective calls are joint steps.

**FileAccess.** Collective calls are joint steps, `MPI_File_seek_shared` included.
A split collective access takes its position when it begins.  Start synchronization is
left out in the file measurements: all ranks call it once, and without it there are
more interleavings.  `MPI_MODE_UNIQUE_OPEN`, hints and file names
are left out; files are told apart by the group `get_io_filename` is given.
`IO_CHECK`, which changes access modes and deletions, is an argument; the checksums it
sends round outside of the time are left out (3897, 4113, 6802, 6927, 7780).

**ShmemMeasurement.** A transfer is in a bag until it is delivered, which happens in
any order, any time before a call that completes it.  A put takes its data with it,
one that does not wait reads it when it is delivered.  A PE leaves a collective call
when the PEs it gets data from have entered it.  Around the program are what
`execute_measurement` does with `shmem_malloc` and `shmem_free`: a joint barrier after
init and before finalize.  A measurement whose init function does not call
`init_synchronization` does not wait at its start.  Memory that nobody has stored to
compares as it likes.  Of `wtime()` the calls are kept that end the time of transfers
where `stop_synchronization` does not: `CompleteWhenTimed` says what is done by then.  The
`..._Post` measurements are of "the time to post a non-blocking operation, and only the time to
post it" (`openshmem_p2p.c:422`), take it before they wait, and have all complete at
`stop_synchronization`; the time to post that the init functions of `..._Quiet` subtract
(608), and times of locks, collective and blocking calls are left out.  Contents are kept when an object is released, so that
`Delivered` can look at them in the end.

## Runs

| run | instance | shows |
|---|---|---|
| `PingPong` | clocks 2 apart, at most 4 exchanges, 2 before an early stop, 2 calls, time to 4 | the window holds the truth, the exchange alternates, ends, leaves nothing |
| `TimeDiff` | 3 nodes, 3 communicators of which two have a different root or order, 2 calls, error 1 | errors do not add up; the members start a run together up to two errors of a comparison, the root up to three |
| `MeasurementLoop` | 2 ranks, 3 to 4 repetitions, first batch 2, runs of 0 to 2 ticks, broadcasts of 0 to 1, one rank's estimate one tick off, each kind of synchronization | agreement of the ranks, bounds of the arrays, the table of results, termination |
| `FlushOutput` | 2 senders, messages of 2 characters, texts up to 3, 2 calls, buffered sends | refinement of `OutputLog`, room for each receive, order by rank whatever arrives first, all calls return |
| `Autorefine` | rising, falling and `multipleof` loops of three values and one that meets 0 twice, factors 2 and 4, three possible results | both lists stay consistent, results are kept, the range is exhausted or the effort bounded |
| `Interpreter` | 3 ranks, 6 programs, buffers of 1 and 3, 2 refining passes | ranks meet at the same statement with the same values, an abort ends one loop, only a nested refined loop is refused, all programs end |
| `RefineRanks` | a measurement, then a refined loop | other ranks have no variable to refine (violation) |
| `Buffer` | two addresses, blocks of 4 and what alignments add, alignments 1 to 3, areas of 0 or 5, slices of 2 | areas within their block and apart, no memory of the last run with cycling, slices that fit in number and place |
| `FileAccess` | 2 to 4 ranks, 2 or 3 elements in blocks of 1 or 2, segments as long or longer, all twelve classes of access, files of all or of one, other settings | each rank moves its own part of the file once, reads what was written, calls what MPI allows, leaves nothing, returns |
| `MPIMeasurement` | 1 to 4 ranks, 1 to 4 elements, 0 to 2 iterations, 1 or 2 calls, every root, MPI eager or not | no conflicting accesses, calls that fit, nothing left, all elements as promised, all return |
| `ShmemMeasurement` | 1 to 3 PEs, 2 iterations, 2 calls, 2 bytes (4 and 5 where elements have 4), with and without `SYNC_BARRIER` | accesses in bounds, time taken of what is complete (or of posting alone where this is meant), locks held as meant, all delivered, all return |
| `FileSegmented` | `write_segmented` with all classes of access | a block is written over another (violation) |

Bounds.  *PingPong*: the interesting cases are the first exchange, one loop
exchange, an early stop by either side, the stop at the limit and a second call
that starts with a known width; four exchanges and two calls have all of them.
*TimeDiff*: two calls on communicators with different roots are the shortest
history that mixes old and new entries; the proof removes the bound.
*MeasurementLoop*: the hard limit is 6 runs, so batches are cut, compacted and
repeated; a run of two ticks with an interval of 0 gives both kinds of flaw.
*FlushOutput*: texts of 0 to 3 characters plus the terminator give one to three
messages with every remainder (the empty message after a full one included), two
senders give every order of arrival, and two calls let one be a call ahead.
*Autorefine*: three plain values refined by a factor of four fill the range to
the last multiple in some runs and stop before it in others.
*Interpreter*: the programs nest two loops, count up, down and not at all, measure
on a pair in either order and on all, and let the smaller buffer end a loop at
its first or second value; two refining passes include one that follows
another.  The refined loops of the passing run begin at 0 and come before any
other measurement, or in the same loop as before: outside of that the code
fails (see below), and a refined loop from 1 in another loop gives ranks
different loop values.
*Buffer*: alignments 0 (which the code takes as 1), 2 and 3 give common alignments of
1, 2, 3 and 6, and the two addresses have different gaps to them; with areas of 0 or 5
bytes a block is too small, fits one run or two, and is begun anew.
*FileAccess*: a last block that is shorter than the others, a rank with nothing to do
in the last round, and gaps between segments need no more than three elements; two
ranks pass the token once, three pass it on.
*MPIMeasurement*: two calls let a late message of the first meet a receive of the
second; three ranks are the least for which neighbours differ and counts divide
unevenly; measurements for two ranks are run with two (see below).
*ShmemMeasurement*: three PEs close a ring with an odd number, which the atomic
operations treat apart; two calls and two iterations let transfers and signals of one
meet those of the next; five bytes leave a rest that collectives of 32 bits do not send.

Fairness.  `PingPong`, `MeasurementLoop` and `FlushOutput` assume weak fairness
of each process: one that is not blocked in an MPI call is scheduled and MPI
delivers what was sent.  Nothing is assumed of the passing of time in
`PingPong`, and nobody has to print in `FlushOutput`.  `MeasurementLoop` ends
because `MaxSpent` and `MaxLag` bound how long runs and broadcasts take: with
unbounded times the code really may repeat for ever.  The refinement's end is
stated as a bound on its effort (`BoundedEffort`) and needs no fairness.
`Interpreter`, `FileAccess`, `MPIMeasurement` and `ShmemMeasurement` assume weak
fairness of the whole next-state relation only: some rank, collective or transfer
that can go on does, in other words the library makes progress.

## Proofs

`PingPong_proof` proves, for all clocks, limits, either kind of send and any
number of calls, type correctness, `WindowHoldsTruth`, `EstimateWithinWindow`,
`Alternation` and `OneSideStops`.  None of them is inductive
alone: the window of a process is right only if the reading it uses was taken
where the protocol says.  The invariant `IInv` therefore says which pairs of
program points occur together (its control part), that the channels hold
exactly the message the point implies, and that each saved time was read before
or after the partner's (its time part).  It is preserved by each action, one
lemma per action; the theorems follow from it.

`TimeDiff_proof` proves type correctness, `ErrorsDoNotAddUp` and
`StartsTogether` for every set of nodes and communicators, every error and
every number of calls.  The invariant says that the entries of the present call
between the root and the ranks it has compared are within one `Slack`, that
the broadcast table is a copy of the root's, and that every known entry is
within two.  A rank that has updated its table still has its entry for the
root from this call's comparison, because the root is not among the others.  Its
entry for itself, in contrast, is determined from then on and off by up to two
comparisons, and not compared anew when it becomes the root of a later call; until
then it is 0 (`OwnZero`).  So the root may be three comparisons apart from the other
members, which TLC finds to be tight, and no history makes it more.

`MeasurementLoop_proof` proves `InStep`, `RunsFitTheArrays`, `TableIsGoodRuns` and
`StartedTogether` for every set of ranks, every kind of synchronization, all numbers of
repetitions and any timing.  Ranks leave a batch one after the other, so their variables
differ while a decision is on its way; the invariant compares what a rank has, or will
have once it has taken over the decision that waits for it (`Agreed`), says what such a
decision may contain (`Announced`) and where in the arrays a rank is (`Placed`).
Three parts more are needed for the results: when a rank started each run of its batch
(`Clocked`), what it has stored for it and with which verdict (`Recorded`), and that the
root's columns are the good runs (`Tabled`).  A decision is preserved because the columns
that stay after the compaction are, in order, the runs of the batch no rank found flawed
(`InOrder`).

`Buffer_proof` proves `AreasInBuffer`, `FreshMemory` and `SlicesUsable` for all addresses,
sizes, alignments and usages.  The first needs that a measurement runs with room for one copy
of its areas only (`Room`) and that the block then exists (`Allocated`).  The second
needs `Cycled`: a run either is the first in the block or lies behind the areas of
the first.  With room for two copies a second run always fits behind the first, so the run
before a new beginning is of the latter kind.  That a common alignment exists at all
(`lcm`) is proved from the order of the natural numbers.  For the slices the invariant says
that the last one given is as many steps from the beginning of the area as slices were
given, a step being a length rounded up to the alignment (`AreaSliced`).

`FlushOutput_proof` proves type correctness, `ReceiveBuffersHold` and `KeepsPromise`, the
refinement of `OutputLog`, for any number of ranks, texts of any length, messages of any
size, either kind of send and senders any number of calls ahead.  A text is sent as messages
of at most `B` characters, so a place in the stream of one sender is the number of a text
and an offset in it.  The invariant gives a place to either end: where the receiver is, by
what its buffer holds, and where the sender is, by its index (`Flight`).  `Linked` says
that the messages in the channel are those that lead from the one place to the other.
A receive buffer is therefore always a prefix of the text that is first in `closed`, and
has its `'\0'` exactly when no receive is posted any more.  Each action maps to an
action of `OutputLog` or to no change, one lemma per action.

`Autorefine_proof` proves `BoundedEffort` for all loops, factors, results and numbers of
measurements in the body, and `ListsConsistent`, `ResultsKept` and `ExhaustsRange` for all
loops, factors and results with one measurement in the body (`MeasuresPerBody = 1`).
With more of them the code does not keep them: the second result of a pass goes to the
node of a neighbour (`autorefine.c:280`), as TLC shows.  The invariant (`Refining`) has
what each operator on the lists needs of the one before: the list is sorted, no two
candidates are neighbours and each is the rounded middle of the results beside it
(`Chain`), the queue holds the candidates once, every weight is the one its neighbours
give (`Fresh`), guards repeat the ends (`Guarded`), a gap without a candidate is no wider
than `multipleof` (`Tight`) and the results are those remembered (`Recorded`).  `Fresh`,
`Tight` have a set of exceptions as an argument: a new result makes two weights stale and
leaves two gaps without a candidate, `register_refined` repairs the weights at the
positions it looks at and then the gaps, and nothing else was disturbed because a weight
depends on the next two results to either side only (`KeyNear`).  `Values` says that the
loop visits multiples of `multipleof` and none but the first twice, which is what the
search from the first node relies on (`RegularRegistered`).
From the same invariant follows `RefinesInside`: each refining pass measures a new value
strictly between two values of the plain loop (`Within`, `Chosen`).  It passes the
loop's test, although `set_new_loop_values` does not ask for it; this is what
`Interpreter` assumes when it lets the root choose any value that `Holds`.

`DataLemmas` has what takes the place of induction: a set of natural numbers that is not
empty has a smallest element, so a property of all numbers is proved from its smallest
counterexample (`LeastElement`, itself from the well-foundedness of `<`).

`Interpreter_proof` proves `OnlyInnermostAborted` for all programs and `SameStatement` for a
kind of programs, with any ranks, communicators, buffer sizes
and number of passes.  One rank by itself is sound (`RanksSound`): its stack has exactly
the loops around its statement (`Stacked`), a plain loop has taken all values up to the
present one (`Taken`), a flag that is set is that of a measurement just before
(`Flagged`), and of a plain loop that was passed all values were taken, unless a measurement
stands in its own body (`Passed`).  `Flagged` is the reason for `OnlyInnermostAborted`: at
the end of a loop without measurements of its own, the statement before is the end of
an inner loop, which has reset the flag.

`SameStatement` compares ranks that wait with each other, but between two collectives
each goes on alone, one of them perhaps several loops ahead.  The invariant (`OneWay`)
says that there is one way of places, each determined by the place before it (`After`), and
that each rank is at some place of it.  A rank that takes a step is either behind others
and follows, or is the first and makes the way longer; a rank that waits is at its
end.  The collectives over all ranks begin a new way.  A place has the values of the
loops that are open only (`Live`), because the root leaves a refined loop with another value
of its variable than the others.

This needs `Synchronous`: if a program has refined loops at all, they begin with 0, have one
variable which no loop around them has, the first comes before any measurement, and all
measurements are on all ranks.  Of the programs of the run `Nested`, `Pair` and
`RefineInLoop` are of this kind.  Because the first refined loop comes before any
measurement, every rank takes itself for the root there, and `loopvar` points to the one
variable ever after (`Aimed`).  With a measurement before it the other ranks have
no variable to store refined values in, as the run `RefineRanks` shows (`RefinesOwnVariable`
is not proved of any programs), and with a first value other than 0 TLC finds ranks with
different values.

Only model-checked: the three modules of measurements, the two properties of `Interpreter`
for its run's programs of other kinds, and all liveness (temporal reasoning about
fairness and `ENABLED` is out of reach of the prover).
The programs of the measurements are concatenations of sequences with folds over the
ranks, and what a rank does next is found by evaluating them; what such a program contains for
every number of ranks would need induction over these definitions, once for each of the
many measurements.

## Disagreements found

* `tds` of a rank for itself: `synchronize.c:47` defines it as a difference
  between the node and node i; after a call in which the rank was not the root
  it holds the sum of two errors, and `measurement.c:358` uses it if the rank is
  the root of the next measurement.  `StartsTogether` counts it in.
* The queue of candidates: `autorefine.c:72` calls it sorted after priority; a
  candidate lighter than all others is inserted before the last one (404, 428).
* The list of results: with two measurements in the loop's body the second
  result for a value goes to the node of its neighbour (`autorefine.c:280`); with
  `MeasuresPerBody = 2` TLC finds `ResultsKept` violated.
* Refined loops on ranks other than the root: `autorefine.c:203` says that they
  need no initialisation; `set_new_loop_values` stores the value through a
  pointer that is NULL or of an earlier loop (`RefineRanks`).
* The first value of a refined loop: `autorefine.c:220` overwrites it with 0, on
  the root only.  A loop that counts down to a positive value is then left
  at once and fails the assertion at `autorefine.c:529`.
* A refined loop before the first measurement is initialised by every rank and
  finalised by the root only, so that another rank's later refined loop is refused
  as a nested one (`autorefine.c:683`) if that rank has measured as a root in between.
  `RefusedOnlyIfNested` is violated by such programs; in those of the run rank 0 is the
  root whenever a loop is refined.
* `write_segmented` with explicit offsets and split collective access writes the
  second block over the first (`io.c:2126`, `FileSegmented`).
* `measure_Win_post` counts on posts that nothing orders before the start
  (`onesided.c:473`); no run states it.
* Areas may end behind the allocated memory: `check_buffer` counts the allocated size
  from the aligned beginning (`mem.c:193`), by what the alignment has taken too
  far.  `AreasInBuffer` therefore says that areas end at most the allocated length behind
  the aligned beginning, which is what the code ensures.
* `set_skampi_buffer_mpi_alloc_mem` frees the aligned address instead of the one that was
  allocated (`mem.c:264`), and a new common alignment after it takes the block from
  `malloc` (`mem.c:300`).  `Buffer` leaves the release out; no run states it.

Only the violations named by a run are kept as runs; the others were found with the
same modules under other values of the constants.

## What fails

The passing runs of the measurements leave out combinations with which a property
fails in the model as in the code.  `Fails` of `MCFileAccess` and the sets at the end
of `MCShmemMeasurement` have those of files and OpenSHMEM.

Files (`io.c`): `iwrite_shared` and `iread_shared` are never waited for when the file
is written without gaps (2024, 2453, 2948); a token is left after the last block
(2842); the temporary file of `write_random` is opened with
`MPI_MODE_DELETE_ON_CLOSE` as the whole mode (4400); `finalize_read_separate` deletes,
collectively, files of different names (6564); `write_sequential` preallocates a file
that is open for sequential access.  Outside of the model: `get_io_filename` calls
itself on one rank only if a name is taken there (805); `file_seek` may go to one
block past the last (1620); `file_seek_shared` with blocks longer than the memory divides
by 0 (1717).

MPI: `MPI_Bsend` has no attached buffer (`pt2pt.c:369`); the measurements between two
ranks leave further ranks waiting (the TODO at `pt2pt.c:31`, `Isend_callduration`,
`Put_dedicated`, `Put_fence_bidirectional`); `Par_Pingpong` with groups of more than
one process (`node2node.c:66`); `Pingpong_Sendrecv` with more to receive than to send
writes beyond the declared buffer (`pt2pt.c:393`); `Alltoall_using_Isend_Irecv` with
blocks of more than one element (`coll.c:305`); `Put_Exchange` puts from the window it
exposes (`onesided.c:2781`); in `onesided_bcast` and `onesided_alltoall` the loop over the ranks runs one too
far and puts to one rank twice (2923, 2973); polling ends only with an eager MPI (1548).

OpenSHMEM: `Get_Simple` synchronizes on PE 0 only (`openshmem_p2p.c:858`);
`Iget_Round` reads through an unset variable (931); `Realloc` releases a block twice
(`openshmem.c:84`); `Alltoall_Synchro` allocates too little (`openshmem_coll.c:1046`);
`Bcast_All_SK` with less than four bytes sends nothing, so that nobody waits for the
root; `Lock_Test_Busy` does not hold the lock (`openshmem_locks.c:83`); the atomic
operations with a context that do not fetch are completed by a `shmem_quiet` that is
not for that context (`openshmem_atomic.c:463`).  With a context the int is never set
(674), so that `Delivered` has no expectation for the compare-and-swap operations there.  Puts to PE 1 need two PEs.
`Pingpong_Put_Put` passes, though no PE waits for its partner's put: what it measures is
not a ping-pong.

## Not modelled

`ping_pong`, the collectives of the measurement loop and `flush_output` of the OpenSHMEM
build (the latter never resets `read_done`, `output.c:384`); the sorting of output
lines; terms and conditions; accounting, symbol table and the parser.  Of the
measurements: the branches for OpenSHMEM 1.5 and later, `Barrier_Half` and `Sync_Half` (PEs outside of the active set call them),
what OpenSHMEM does with `psync` and `pwrk`, `localio.c`, `datatypes.c` and `mmisc.c`,
where no rank depends on another.  `components` in `PROJECT.json` has each part with
its reason.  Numbers are integers throughout; rounding errors of doubles are not
modelled.

## Plan

1. `SortedOutput`: the sorting mode of `output.c` through several loops.
2. The OpenSHMEM `ping_pong`, collectives of the measurement loop and `flush_output`.
