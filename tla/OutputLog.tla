------------------------------ MODULE OutputLog ------------------------------
(***************************************************************************)
(* What src/src/output.c promises to its callers: print_output adds to the *)
(* text of the calling rank, flush_output is a collective call, and the    *)
(* file receives, call by call and rank by rank, everything each rank had  *)
(* printed before the call, once, whole and in order.  The output rank     *)
(* prints to the file at once.                                             *)
(***************************************************************************)
EXTENDS Integers, Sequences, SequencesExt, Enumeration

CONSTANTS Rank, OutputRank

VARIABLES
  open,   \* text of each rank since its last flush_output
  closed, \* texts of each rank that were flushed and are not in the file yet
  file    \* what was written to the file: pairs of a rank and a text

Sender == Rank \ {OutputRank}

Init ==
  /\ open = [p \in Rank |-> << >>]
  /\ closed = [p \in Rank |-> << >>]
  /\ file = << >>

\* print_output on a rank that keeps its text.
Keep(p) ==
  /\ p \in Sender
  /\ IsStrictPrefix(open[p], open'[p])
  /\ open' = [open EXCEPT ![p] = open'[p]]
  /\ UNCHANGED <<closed, file>>

\* print_output on the output rank.
WriteThrough ==
  /\ IsStrictPrefix(file, file')
  /\ \A k \in Len(file) + 1 .. Len(file') : file'[k][1] = OutputRank
  /\ UNCHANGED <<open, closed>>

\* A rank calls flush_output.
Close(p) ==
  /\ p \in Sender
  /\ closed' = [closed EXCEPT ![p] = Append(@, open[p])]
  /\ open' = [open EXCEPT ![p] = << >>]
  /\ UNCHANGED file

\* The call is complete: one text of every rank goes to the file.
Publish ==
  /\ \A p \in Sender : closed[p] # << >>
  /\ file' = file \o [k \in 1 .. Cardinality(Sender) |->
                       LET p == InOrder(Sender)[k] IN <<p, Head(closed[p])>>]
  /\ closed' = [p \in Rank |-> IF p \in Sender THEN Tail(closed[p]) ELSE closed[p]]
  /\ UNCHANGED open

Next == (\E p \in Rank : Keep(p) \/ Close(p)) \/ WriteThrough \/ Publish

Spec == Init /\ [][Next]_<<open, closed, file>>
=============================================================================
