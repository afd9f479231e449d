----------------------------- MODULE FlushOutput -----------------------------
(***************************************************************************)
(* Collective output of src/src/output.c, MPI build, while results are not *)
(* being sorted.  Every rank but output_rank keeps its text in             *)
(* output_buffer; flush_output sends it to output_rank in messages of      *)
(* initial_buffer_size characters, the last of which is shorter, and       *)
(* output_rank receives from all ranks at once until each has sent its     *)
(* short message.  A sender does not wait for the others: it may be        *)
(* several calls ahead of output_rank.                                     *)
(*                                                                         *)
(* The characters a rank prints are numbered 1, 2, ...; 0 is the '\0' that *)
(* ends a text.  The file is the sequence of what was written to it, each  *)
(* a rank and a text.                                                      *)
(***************************************************************************)
EXTENDS Integers, Sequences, FiniteSets, SequencesExt, Enumeration

CONSTANTS
  Rank,                \* MPI_COMM_WORLD: the ranks 0 .. get_global_size()-1
  OutputRank,          \* output_rank
  initial_buffer_size,
  Eager,               \* TRUE: MPI_Send returns before the message is received
  MaxText,             \* bound: characters a rank prints
  MaxFlush             \* bound: calls of flush_output

ASSUME RanksOrdered == Rank \subseteq Nat /\ IsFiniteSet(Rank) /\ OutputRank \in Rank
ASSUME SizePositive == initial_buffer_size \in Nat \ {0} /\ Eager \in BOOLEAN
ASSUME BoundsNatural == MaxText \in Nat /\ MaxFlush \in Nat

VARIABLES
  pc, flushes, printed,    \* point, calls made, characters printed, by rank
  output_buffer, i,        \* text kept by a rank, next position to send
  channel,                 \* messages from each rank to output_rank
  recv_output_buffers, recv_sizes, recv_reqs,  \* output_rank's, by source
  output_file,             \* what was written: pairs of a rank and a text
  closed                   \* history: texts flushed by each rank and not written

senderVars == <<printed, output_buffer, i>>
receiverVars == <<recv_output_buffers, recv_sizes, recv_reqs>>
vars == <<pc, flushes, senderVars, channel, receiverVars, output_file, closed>>

NUL == 0
Sender == Rank \ {OutputRank}
B == initial_buffer_size
imin2(a, b) == IF a < b THEN a ELSE b
Goto(p, point) == pc' = [pc EXCEPT ![p] = point]

\* What fprintf("%s") and vsnprintf take of an array.
WholeArray(s) == s                                                     \* mutant
CString(s) ==
  LET ends == {k \in 1 .. Len(s) : s[k] = NUL}
  IN IF ends = {} THEN s ELSE SubSeq(s, 1, (CHOOSE k \in ends : \A j \in ends : k <= j) - 1)

Init ==
  /\ pc = [p \in Rank |-> "work"]
  /\ flushes = [p \in Rank |-> 0]
  /\ printed = [p \in Rank |-> 0]
  /\ output_buffer = [p \in Rank |-> << >>]
  /\ i = [p \in Rank |-> 0]
  /\ channel = [p \in Rank |-> << >>]
  /\ recv_output_buffers = [p \in Rank |-> << >>]
  /\ recv_sizes = [p \in Rank |-> B]
  /\ recv_reqs = [p \in Rank |-> FALSE]
  /\ output_file = << >>
  /\ closed = [p \in Rank |-> << >>]

SendReturned(p) == Eager \/ channel[p] = << >>

\* print_output: the output rank writes to the file, the others append.
print_output(p) ==
  /\ pc[p] = "work" /\ SendReturned(p)
  /\ printed[p] < MaxText
  /\ \E length \in 1 .. MaxText - printed[p] :
       LET text == [k \in 1 .. length |-> printed[p] + k]
       IN /\ printed' = [printed EXCEPT ![p] = @ + length]
          /\ IF p = OutputRank
             THEN /\ output_file' = Append(output_file, <<p, text>>)
                  /\ UNCHANGED output_buffer
             ELSE /\ output_buffer' = [output_buffer EXCEPT ![p] = @ \o text]
                  /\ UNCHANGED output_file
  /\ UNCHANGED <<pc, flushes, i, channel, receiverVars, closed>>

-----------------------------------------------------------------------------
(* flush_output on a rank that is not output_rank. *)

BeginSend(p) ==
  /\ pc[p] = "work" /\ SendReturned(p)
  /\ flushes[p] < MaxFlush
  /\ flushes' = [flushes EXCEPT ![p] = @ + 1]
  /\ i' = [i EXCEPT ![p] = 0]
  /\ closed' = [closed EXCEPT ![p] = Append(@, output_buffer[p])]
  /\ Goto(p, "sending")
  /\ UNCHANGED <<printed, output_buffer, channel, receiverVars, output_file>>

\* The tail of the call: the text is sent, the buffer is empty again.
EndSend(p) ==
  /\ output_buffer' = [output_buffer EXCEPT ![p] = << >>]
  /\ Goto(p, "work")

\* What is sent of the text and of the '\0' that ends it, from i on.
ChunkLength(p) == imin2(Len(output_buffer[p]) + 1 - i[p], B)

\* Whether the last chunk is a full message, to which an empty one is added.
NeverFull(j) == FALSE                                                  \* mutant
IsFull(j) == j = B

\* One round of the loop.
SendChunk(p) ==
  /\ pc[p] = "sending" /\ SendReturned(p)
  /\ LET output_index == Len(output_buffer[p])
         j == ChunkLength(p)
     IN /\ channel' = [channel EXCEPT ![p] =
             Append(@, SubSeq(Append(output_buffer[p], NUL), i[p] + 1, i[p] + j))]
        /\ i' = [i EXCEPT ![p] = @ + B]
        /\ IF i[p] + B <= output_index THEN UNCHANGED <<pc, output_buffer>>
           ELSE IF IsFull(j) THEN Goto(p, "closing") /\ UNCHANGED output_buffer
           ELSE EndSend(p)
  /\ UNCHANGED <<flushes, printed, receiverVars, output_file, closed>>

\* The receiver waits for another message after a full one.
SendEmpty(p) ==
  /\ pc[p] = "closing" /\ SendReturned(p)
  /\ channel' = [channel EXCEPT ![p] = Append(@, << >>)]
  /\ EndSend(p)
  /\ UNCHANGED <<flushes, printed, i, receiverVars, output_file, closed>>

-----------------------------------------------------------------------------
(* flush_output on output_rank. *)

BeginReceive ==
  /\ pc[OutputRank] = "work"
  /\ flushes[OutputRank] < MaxFlush
  /\ flushes' = [flushes EXCEPT ![OutputRank] = @ + 1]
  /\ recv_output_buffers' = [p \in Rank |-> << >>]
  /\ recv_reqs' = [p \in Rank |-> p \in Sender]
  /\ Goto(OutputRank, "receiving")
  /\ UNCHANGED <<senderVars, channel, recv_sizes, output_file, closed>>

\* Whether the receive buffer has to grow for the next message.
OnlyIfOverfull(received, size) == received > size                      \* mutant
MustGrow(received, size) == received >= size

\* MPI_Waitany returns a message from p.  After a full one the buffer grows
\* if it is full and the next receive is posted.
Waitany(p) ==
  /\ pc[OutputRank] = "receiving"
  /\ recv_reqs[p] /\ channel[p] # << >>
  /\ LET received == recv_output_buffers[p] \o Head(channel[p])
         full == Len(Head(channel[p])) = B
     IN /\ recv_output_buffers' = [recv_output_buffers EXCEPT ![p] = received]
        /\ recv_sizes' = [recv_sizes EXCEPT ![p] =
             IF full /\ MustGrow(Len(received), @) THEN @ + B ELSE @]
        /\ recv_reqs' = [recv_reqs EXCEPT ![p] = full]
  /\ channel' = [channel EXCEPT ![p] = Tail(@)]
  /\ UNCHANGED <<pc, flushes, senderVars, output_file, closed>>

\* All ranks have sent their short message: the texts go to the file in rank order.
PrintReceived ==
  /\ pc[OutputRank] = "receiving"
  /\ \A p \in Sender : ~recv_reqs[p]
  /\ output_file' = output_file \o
       [k \in 1 .. Cardinality(Sender) |->
          LET p == InOrder(Sender)[k] IN <<p, CString(recv_output_buffers[p])>>]
  /\ closed' = [p \in Rank |-> IF p \in Sender THEN Tail(closed[p]) ELSE closed[p]]
  /\ Goto(OutputRank, "work")
  /\ UNCHANGED <<flushes, senderVars, channel, receiverVars>>

SenderStep(p) == BeginSend(p) \/ SendChunk(p) \/ SendEmpty(p)
ReceiverStep == BeginReceive \/ (\E p \in Sender : Waitany(p)) \/ PrintReceived

\* Every rank has made its last call and printed what it had to.
Terminated == /\ \A p \in Rank : pc[p] = "work" /\ flushes[p] = MaxFlush
              /\ UNCHANGED vars

Next ==
  \/ \E p \in Rank : print_output(p)
  \/ \E p \in Sender : SenderStep(p)
  \/ ReceiverStep
  \/ Terminated

Spec == Init /\ [][Next]_vars

\* flush_output is collective: every rank makes all its calls, and one that is
\* not blocked in MPI goes on.  Nobody has to print.
FairSpec == /\ Spec
            /\ \A p \in Sender : WF_vars(SenderStep(p))
            /\ WF_vars(ReceiverStep)

-----------------------------------------------------------------------------
Chars == Nat

\* The types of the variables; a message has room in what a receive posts.
TypeOK ==
  /\ pc \in [Rank -> {"work", "sending", "closing", "receiving"}]
  /\ flushes \in [Rank -> 0 .. MaxFlush] /\ printed \in [Rank -> 0 .. MaxText]
  /\ output_buffer \in [Rank -> Seq(Chars)] /\ i \in [Rank -> Nat]
  /\ channel \in [Rank -> Seq(Seq(Chars))]
  /\ \A p \in Rank : \A m \in ToSet(channel[p]) : Len(m) <= B
  /\ recv_output_buffers \in [Rank -> Seq(Chars)]
  /\ recv_sizes \in [Rank -> Nat] /\ recv_reqs \in [Rank -> BOOLEAN]
  /\ output_file \in Seq(Rank \X Seq(Chars)) /\ closed \in [Rank -> Seq(Seq(Chars))]

ReceiveFits ==
  \A p \in Sender : recv_reqs[p] => Len(recv_output_buffers[p]) + B <= recv_sizes[p]
OneCallPerBuffer ==
  \A p \in Sender :
    LET s == recv_output_buffers[p]
    IN /\ \A k \in 1 .. Len(s) - 1 : s[k] # NUL
       /\ pc[OutputRank] = "receiving" /\ ~recv_reqs[p] => s # << >> /\ s[Len(s)] = NUL
\* The receive buffers of output_rank, in the first call and in later ones that find
\* them grown.  Every posted receive has room for a full message behind what has come;
\* and no buffer holds the texts of two calls, even if the sender is calls ahead: the
\* '\0' is its last character, and a short message is always taken for the end of a text.
ReceiveBuffersHold == ReceiveFits /\ OneCallPerBuffer

-----------------------------------------------------------------------------
(* The refinement of OutputLog: a call closes the text it is to send. *)

Promise == INSTANCE OutputLog WITH
  open   <- [p \in Rank |-> IF pc[p] = "work" THEN output_buffer[p] ELSE << >>],
  file   <- output_file

\* The messages, chunks and buffers implement the promise of OutputLog.
KeepsPromise == Promise!Spec

\* Every call of flush_output returns on every rank.
FlushesReturn == <>[](\A p \in Rank : flushes[p] = MaxFlush /\ pc[p] = "work")
=============================================================================
