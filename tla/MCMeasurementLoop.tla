-------------------------- MODULE MCMeasurementLoop --------------------------
(* Small instances of MeasurementLoop for TLC. *)
EXTENDS MeasurementLoop, TLC

MCRank == 0 .. 1
MCNoError == [p \in Rank |-> 0]
MCOneTickError == [p \in Rank |-> IF p = Root THEN 0 ELSE 1]
=============================================================================
