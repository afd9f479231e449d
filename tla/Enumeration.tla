---------------------------- MODULE Enumeration ----------------------------
(* The order in which the code's loops over ranks and runs take them. *)
EXTENDS Integers, FiniteSets

\* The elements of a finite set of numbers, from the first to the last.
InOrder(S) == [k \in 1 .. Cardinality(S) |->
                 CHOOSE j \in S : Cardinality({i \in S : i < j}) = k - 1]
=============================================================================
