----------------------------- MODULE MCPingPong -----------------------------
(* Small instances of PingPong for TLC. *)
EXTENDS PingPong

MCOffset == [p \in Proc |-> IF p = "p1" THEN 2 ELSE 0]
=============================================================================
