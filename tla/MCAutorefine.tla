---------------------------- MODULE MCAutorefine ----------------------------
(* Small instances of Autorefine for TLC. *)
EXTENDS Autorefine

For(first, step, last, m) ==
  [first |-> first, step |-> step, last |-> last, multipleof |-> m]

Up == For(1, 3, 7, 1)     \* the root measures 0, 4, 7
FromZero == For(0, 4, 8, 1)
Down == For(0, -4, -8, 1)
Even == For(0, 6, 12, 2)
Twice == For(8, -4, 0, 1) \* the root measures 0, 4, 0

MCLoops == {Up, Down, Even, Twice}
MCOneLoop == {FromZero}
=============================================================================
