----------------------------- MODULE MCTimeDiff -----------------------------
(* Small instances of TimeDiff for TLC. *)
EXTENDS TimeDiff

MCNode == 0 .. 2
MCComms == {<<0, 1, 2>>, <<2, 1>>, <<1, 2, 0>>}
MCOffset == [p \in MCNode |-> 5 * p]
=============================================================================
