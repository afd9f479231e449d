---------------------------- MODULE MCFlushOutput ----------------------------
(* Small instances of FlushOutput for TLC. *)
EXTENDS FlushOutput

MCRank == 0 .. 2
=============================================================================
