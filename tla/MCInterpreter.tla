---------------------------- MODULE MCInterpreter ----------------------------
(* Small instances of Interpreter for TLC. *)
EXTENDS Interpreter

MCRank == 0 .. 2
World == <<0, 1, 2>>

Loop(var, first, last, end) ==
  [op |-> "loop", var |-> var, first |-> first, last |-> last, step |-> 1,
   refine |-> FALSE, end |-> end]
AutorefineLoop(var, first, last, end) ==
  [Loop(var, first, last, end) EXCEPT !.refine = TRUE]
End(loop) == [op |-> "end", loop |-> loop]
MeasureOn(comm, size) == [op |-> "measure", comm |-> comm, size |-> size]

\* for n = 1 to 2 do for count = 1 to ... do measure on a pair, then on all
Nested == << Loop("n", 1, 2, 6), Loop("count", 1, NoLast, 5),
             MeasureOn(<<2, 0>>, "count"), MeasureOn(World, "count"), End(2), End(1) >>

\* counts down; the inner loop measures on a pair only; the last loop is left
\* at once, and the program does not come to the loop in it
Pair == << [Loop("n", 2, 1, 5) EXCEPT !.step = -1], Loop("count", 2, NoLast, 4),
           MeasureOn(<<0, 1>>, "count"), End(2), End(1), MeasureOn(World, "n"),
           Loop("n", 3, 2, 10), Loop("count", 1, 2, 9), End(8), End(7) >>

\* autorefine before any other measurement, inside another loop
RefineInLoop == << Loop("n", 1, 2, 5), AutorefineLoop("count", 0, NoLast, 4),
                   MeasureOn(World, "count"), End(2), End(1) >>

RefineLast == << AutorefineLoop("count", 1, 2, 3), MeasureOn(World, "count"), End(1),
                 Loop("n", 1, 2, 6), MeasureOn(<<1, 2>>, "n"), End(4) >>

\* an autorefine loop in another one
RefineNested == << AutorefineLoop("n", 1, 2, 5), AutorefineLoop("count", 1, 2, 4),
                   MeasureOn(World, "count"), End(2), End(1) >>

\* a measurement before the loop that is refined
RefineLater == << MeasureOn(World, "n"), AutorefineLoop("count", 1, 2, 4),
                  MeasureOn(World, "count"), End(2) >>

\* autorefine counts down
RefineDown == << [AutorefineLoop("count", 3, 1, 3) EXCEPT !.step = -1],
                 MeasureOn(World, "count"), End(1) >>

MCPrograms == {Nested, Pair, RefineInLoop, RefineLast, RefineNested, RefineDown}
MCRefineLater == {RefineLater}
=============================================================================
