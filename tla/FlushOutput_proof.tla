-------------------------- MODULE FlushOutput_proof --------------------------
(***************************************************************************)
(* Proofs about FlushOutput, for any number of ranks, size of a message,   *)
(* either kind of send and any number of calls.                            *)
(*                                                                         *)
(* Where a sender and output_rank are in the texts that are not written    *)
(* yet is a pair of numbers: a text, and how much of it and its '\0' is    *)
(* behind.  The messages on their way lead from the position of            *)
(* output_rank to that of the sender (Linked), however many calls these    *)
(* are apart.                                                              *)
(***************************************************************************)
EXTENDS FlushOutput, DataLemmas

Char == Nat \ {0}
Text == Seq(Char)

\* A text as it is sent; the message that starts behind its first o characters.
Ended(text) == Append(text, NUL)
Message(text, o) == SubSeq(Ended(text), o + 1, imin2(o + B, Len(text) + 1))

\* The position after the message at o of the text number d of tx.
NextText(tx, d, o) == IF o + B <= Len(tx[d]) + 1 THEN d ELSE d + 1
NextOff(tx, d, o) == IF o + B <= Len(tx[d]) + 1 THEN o + B ELSE 0

\* Message k of ch starts at text[k], off[k].
Chain(ch, tx, text, off) ==
  /\ \A k \in 1 .. Len(ch) :
       /\ text[k] \in 1 .. Len(tx) /\ off[k] <= Len(tx[text[k]]) + 1
       /\ ch[k] = Message(tx[text[k]], off[k])
       /\ text[k + 1] = NextText(tx, text[k], off[k])
       /\ off[k + 1] = NextOff(tx, text[k], off[k])
  /\ \A j, k \in 1 .. Len(ch) + 1 : j <= k => text[j] <= text[k]

\* The messages ch lead from the position (rd, ro) to (sd, so) of the texts tx.
Linked(ch, tx, rd, ro, sd, so) ==
  \E text \in [1 .. Len(ch) + 1 -> Nat], off \in [1 .. Len(ch) + 1 -> Nat] :
    /\ Chain(ch, tx, text, off)
    /\ text[1] = rd /\ off[1] = ro
    /\ text[Len(ch) + 1] = sd /\ off[Len(ch) + 1] = so

-----------------------------------------------------------------------------
LEMMA Size == B \in Nat \ {0}
BY SizePositive DEF B

\* A text with its '\0', and what a message takes of it.
LEMMA EndedText ==
  ASSUME NEW t \in Text
  PROVE  /\ Ended(t) \in Seq(Nat) /\ Len(Ended(t)) = Len(t) + 1 /\ Len(t) \in Nat
         /\ Ended(t)[Len(t) + 1] = NUL
         /\ \A k \in 1 .. Len(t) : Ended(t)[k] = t[k] /\ t[k] \in Nat /\ t[k] # NUL
<1>1. t \in Seq(Nat) /\ NUL \in Nat /\ Len(t) \in Nat
  <2>1. t \in Seq(Nat)
    BY SeqMonotone, Char \subseteq Nat DEF Text, Char
  <2>2. Len(t) \in Nat
    BY LenProperties DEF Text
  <2>. QED BY <2>1, <2>2 DEF NUL
<1>2. \A k \in 1 .. Len(t) : t[k] \in Char
  BY ElementOfSeq DEF Text
<1>3. /\ Ended(t) \in Seq(Nat) /\ Len(Ended(t)) = Len(t) + 1
      /\ Ended(t)[Len(t) + 1] = NUL
      /\ \A k \in 1 .. Len(t) : Ended(t)[k] = t[k]
  BY <1>1, AppendProperties DEF Ended
<1>. QED BY <1>1, <1>2, <1>3 DEF Char, NUL

LEMMA MessageOf ==
  ASSUME NEW t \in Text, NEW o \in Nat, o <= Len(t) + 1
  PROVE  /\ Message(t, o) \in Seq(Nat)
         /\ Len(Message(t, o)) = (IF o + B <= Len(t) + 1 THEN B ELSE Len(t) + 1 - o)
         /\ Len(Message(t, o)) <= B
         /\ Len(Message(t, o)) = B <=> o + B <= Len(t) + 1
         /\ SubSeq(Ended(t), 1, o) \o Message(t, o)
              = SubSeq(Ended(t), 1, imin2(o + B, Len(t) + 1))
<1>. DEFINE e == Ended(t)
            n == imin2(o + B, Len(t) + 1)
<1>1. B \in Nat \ {0} /\ Len(t) \in Nat /\ e \in Seq(Nat) /\ Len(e) = Len(t) + 1
  BY Size, EndedText
<1>2. n \in Nat /\ o <= n /\ n <= Len(e) /\ n = (IF o + B <= Len(t) + 1 THEN o + B ELSE Len(t) + 1)
  BY <1>1 DEF imin2
<1>. HIDE DEF n, e
<1>3. \A k \in o + 1 .. n : e[k] \in Nat
  BY <1>1, <1>2, ElementOfSeq
<1>4. /\ SubSeq(e, o + 1, n) \in Seq(Nat)
      /\ Len(SubSeq(e, o + 1, n)) = IF o + 1 <= n THEN n - (o + 1) + 1 ELSE 0
  BY <1>2, <1>3, SubSeqProperties, o + 1 \in Int
<1>5. Len(SubSeq(e, o + 1, n)) = n - o
  BY <1>2, <1>4
<1>6. SubSeq(e, 1, o) \o SubSeq(e, o + 1, n) = SubSeq(e, 1, n)
  <2>1. 1 \in 1 .. Len(e) + 1 /\ o \in 1 - 1 .. Len(e) /\ n \in o .. Len(e)
    BY <1>1, <1>2
  <2>. QED BY <1>1, <2>1, ConcatAdjacentSubSeq
<1>7. Message(t, o) = SubSeq(e, o + 1, n)
  BY DEF Message, e, n
<1>8. /\ n - o = (IF o + B <= Len(t) + 1 THEN B ELSE Len(t) + 1 - o)
      /\ n - o <= B /\ (n - o = B <=> o + B <= Len(t) + 1)
  BY <1>1, <1>2
<1>. QED BY <1>4, <1>5, <1>6, <1>7, <1>8 DEF e, n

-----------------------------------------------------------------------------
\* Nothing on its way: both are at the same position.
LEMMA LinkNone ==
  ASSUME NEW tx, NEW d \in Nat, NEW o \in Nat
  PROVE  Linked(<< >>, tx, d, o, d, o)
<1>1. Len(<< >>) = 0
  OBVIOUS
<1>2. [k \in 1 .. 1 |-> d] \in [1 .. Len(<< >>) + 1 -> Nat] /\ [k \in 1 .. 1 |-> o] \in [1 .. Len(<< >>) + 1 -> Nat]
  BY <1>1
<1>3. Chain(<< >>, tx, [k \in 1 .. 1 |-> d], [k \in 1 .. 1 |-> o])
  BY <1>1 DEF Chain
<1>. QED BY <1>1, <1>2, <1>3 DEF Linked

\* The sender goes on by a message.
LEMMA LinkSend ==
  ASSUME NEW ch \in Seq(Seq(Nat)), NEW tx \in Seq(Text), NEW rd, NEW ro,
         NEW sd \in 1 .. Len(tx), NEW so \in Nat, so <= Len(tx[sd]) + 1,
         Linked(ch, tx, rd, ro, sd, so)
  PROVE  Linked(Append(ch, Message(tx[sd], so)), tx, rd, ro,
                NextText(tx, sd, so), NextOff(tx, sd, so))
<1>. DEFINE n == Len(ch)
            msg == Message(tx[sd], so)
            c2 == Append(ch, msg)
            nd == NextText(tx, sd, so)
            no == NextOff(tx, sd, so)
<1>1. PICK text \in [1 .. n + 1 -> Nat], off \in [1 .. n + 1 -> Nat] :
        /\ Chain(ch, tx, text, off)
        /\ text[1] = rd /\ off[1] = ro /\ text[n + 1] = sd /\ off[n + 1] = so
  BY DEF Linked
<1>. DEFINE t2 == [k \in 1 .. n + 2 |-> IF k = n + 2 THEN nd ELSE text[k]]
            o2 == [k \in 1 .. n + 2 |-> IF k = n + 2 THEN no ELSE off[k]]
<1>2. n \in Nat /\ tx[sd] \in Text /\ Len(tx[sd]) \in Nat /\ B \in Nat \ {0} /\ sd \in Nat
  BY EndedText, ElementOfSeq, LenProperties, Size
<1>3. msg \in Seq(Nat)
  BY <1>2, MessageOf
<1>4. Len(c2) = n + 1 /\ c2[n + 1] = msg /\ \A k \in 1 .. n : c2[k] = ch[k]
  BY <1>3, AppendProperties
<1>5. nd \in Nat /\ no \in Nat /\ sd <= nd
  BY <1>2 DEF NextText, NextOff
<1>. HIDE DEF nd, no, msg, c2, n
<1>6. /\ t2 \in [1 .. Len(c2) + 1 -> Nat] /\ o2 \in [1 .. Len(c2) + 1 -> Nat]
      /\ \A k \in 1 .. n + 1 : t2[k] = text[k] /\ o2[k] = off[k]
      /\ t2[n + 2] = nd /\ o2[n + 2] = no
  <2>1. Len(c2) + 1 = n + 2 /\ n + 2 \in 1 .. n + 2
    BY <1>2, <1>4
  <2>2. \A k \in 1 .. n + 1 : k # n + 2 /\ k \in 1 .. n + 2
    BY <1>2
  <2>3. \A k \in 1 .. n + 2 : k # n + 2 => text[k] \in Nat /\ off[k] \in Nat
    BY <1>2
  <2>. QED BY <1>5, <2>1, <2>2, <2>3
<1>. HIDE DEF t2, o2
<1>7. ASSUME NEW k \in 1 .. Len(c2)
      PROVE  /\ t2[k] \in 1 .. Len(tx) /\ o2[k] <= Len(tx[t2[k]]) + 1
             /\ c2[k] = Message(tx[t2[k]], o2[k])
             /\ t2[k + 1] = NextText(tx, t2[k], o2[k])
             /\ o2[k + 1] = NextOff(tx, t2[k], o2[k])
  <2>1. CASE k = n + 1
    <3>1. t2[k] = sd /\ o2[k] = so /\ t2[k + 1] = nd /\ o2[k + 1] = no /\ c2[k] = msg
      BY <1>1, <1>2, <1>4, <1>6, <2>1
    <3>. QED BY <3>1 DEF nd, no, msg
  <2>2. CASE k \in 1 .. n
    <3>0. k \in 1 .. n + 1 /\ k + 1 \in 1 .. n + 1
      BY <1>2, <2>2
    <3>1. /\ t2[k] = text[k] /\ o2[k] = off[k] /\ t2[k + 1] = text[k + 1]
          /\ o2[k + 1] = off[k + 1] /\ c2[k] = ch[k]
      BY <1>4, <1>6, <2>2, <3>0
    <3>. QED BY <1>1, <2>2, <3>1 DEF Chain, n
  <2>. QED BY <1>2, <1>4, <2>1, <2>2
<1>8. ASSUME NEW j \in 1 .. Len(c2) + 1, NEW k \in 1 .. Len(c2) + 1, j <= k
      PROVE  t2[j] <= t2[k]
  <2>1. \A a, b \in 1 .. n + 1 : a <= b => text[a] <= text[b]
    BY <1>1 DEF Chain, n
  <2>2. \A a \in 1 .. n + 1 : text[a] <= nd /\ text[a] \in Nat
    <3>1. n + 1 \in 1 .. n + 1 /\ \A a \in 1 .. n + 1 : a <= n + 1
      BY <1>2
    <3>2. text[n + 1] = sd /\ \A a \in 1 .. n + 1 : text[a] \in Nat /\ text[a] <= text[n + 1]
      BY <1>1, <2>1, <3>1
    <3>. QED BY <1>2, <1>5, <3>2
  <2>3. CASE k = n + 2
    <3>1. t2[k] = nd /\ (j = n + 2 \/ j \in 1 .. n + 1)
      BY <1>2, <1>4, <1>6, <2>3
    <3>2. CASE j = n + 2
      BY <1>5, <1>6, <3>1, <3>2
    <3>3. CASE j \in 1 .. n + 1
      BY <1>6, <2>2, <3>1, <3>3
    <3>. QED BY <3>1, <3>2, <3>3
  <2>4. CASE k \in 1 .. n + 1
    <3>1. j \in 1 .. n + 1
      BY <1>2, <1>4, <1>8, <2>4
    <3>. QED BY <1>6, <1>8, <2>1, <2>4, <3>1
  <2>. QED BY <1>2, <1>4, <2>3, <2>4
<1>9. Chain(c2, tx, t2, o2)
  BY <1>7, <1>8 DEF Chain
<1>10. t2[1] = rd /\ o2[1] = ro /\ t2[Len(c2) + 1] = nd /\ o2[Len(c2) + 1] = no
  BY <1>1, <1>2, <1>4, <1>6
<1>11. Linked(c2, tx, rd, ro, nd, no)
  BY <1>6, <1>9, <1>10 DEF Linked
<1>. QED BY <1>11 DEF c2, msg, nd, no

\* The receiver takes the first message, which is where it is.
LEMMA LinkReceive ==
  ASSUME NEW ch \in Seq(Seq(Nat)), NEW tx \in Seq(Text), NEW rd, NEW ro, NEW sd, NEW so,
         ch # << >>, Linked(ch, tx, rd, ro, sd, so)
  PROVE  /\ rd \in 1 .. Len(tx) /\ ro \in Nat /\ ro <= Len(tx[rd]) + 1
         /\ Head(ch) = Message(tx[rd], ro)
         /\ Linked(Tail(ch), tx, NextText(tx, rd, ro), NextOff(tx, rd, ro), sd, so)
<1>. DEFINE n == Len(ch)
            c2 == Tail(ch)
<1>1. PICK text \in [1 .. n + 1 -> Nat], off \in [1 .. n + 1 -> Nat] :
        /\ Chain(ch, tx, text, off)
        /\ text[1] = rd /\ off[1] = ro /\ text[n + 1] = sd /\ off[n + 1] = so
  BY DEF Linked
<1>. DEFINE t2 == [k \in 1 .. n |-> text[k + 1]]
            o2 == [k \in 1 .. n |-> off[k + 1]]
<1>2. n \in Nat \ {0} /\ Len(c2) = n - 1 /\ \A k \in 1 .. n - 1 : c2[k] = ch[k + 1]
  BY HeadTailProperties, EmptySeq
<1>3. Head(ch) = ch[1]
  OBVIOUS
<1>. HIDE DEF n, c2
<1>4. 1 \in 1 .. n /\ n \in 1 .. n
  BY <1>2
<1>5. /\ rd \in 1 .. Len(tx) /\ ro \in Nat /\ ro <= Len(tx[rd]) + 1
      /\ Head(ch) = Message(tx[rd], ro)
      /\ text[2] = NextText(tx, rd, ro) /\ off[2] = NextOff(tx, rd, ro)
  <2>1. /\ text[1] \in 1 .. Len(tx) /\ off[1] <= Len(tx[text[1]]) + 1
        /\ ch[1] = Message(tx[text[1]], off[1])
        /\ text[1 + 1] = NextText(tx, text[1], off[1])
        /\ off[1 + 1] = NextOff(tx, text[1], off[1])
    BY <1>1, <1>4 DEF Chain, n
  <2>2. off[1] \in Nat
    BY <1>2
  <2>. QED BY <1>1, <1>3, <2>1, <2>2, 1 + 1 = 2
<1>6. /\ t2 \in [1 .. Len(c2) + 1 -> Nat] /\ o2 \in [1 .. Len(c2) + 1 -> Nat]
      /\ \A k \in 1 .. n : t2[k] = text[k + 1] /\ o2[k] = off[k + 1]
  BY <1>2
<1>. HIDE DEF t2, o2
<1>7. ASSUME NEW k \in 1 .. Len(c2)
      PROVE  /\ t2[k] \in 1 .. Len(tx) /\ o2[k] <= Len(tx[t2[k]]) + 1
             /\ c2[k] = Message(tx[t2[k]], o2[k])
             /\ t2[k + 1] = NextText(tx, t2[k], o2[k])
             /\ o2[k + 1] = NextOff(tx, t2[k], o2[k])
  <2>1. k + 1 \in 1 .. n /\ k \in 1 .. n /\ k \in 1 .. n - 1
    BY <1>2
  <2>2. /\ t2[k] = text[k + 1] /\ o2[k] = off[k + 1] /\ c2[k] = ch[k + 1]
        /\ t2[k + 1] = text[k + 1 + 1] /\ o2[k + 1] = off[k + 1 + 1]
    <3>1. \A m \in 1 .. n : t2[m] = text[m + 1] /\ o2[m] = off[m + 1]
      BY <1>6
    <3>2. c2[k] = ch[k + 1]
      BY <1>2, <2>1
    <3>. QED BY <2>1, <3>1, <3>2
  <2>. QED BY <1>1, <2>1, <2>2 DEF Chain, n
<1>8. ASSUME NEW j \in 1 .. Len(c2) + 1, NEW k \in 1 .. Len(c2) + 1, j <= k
      PROVE  t2[j] <= t2[k]
  <2>1. j \in 1 .. n /\ k \in 1 .. n /\ j + 1 \in 1 .. n + 1 /\ k + 1 \in 1 .. n + 1 /\ j + 1 <= k + 1
    BY <1>2, <1>8
  <2>2. text[j + 1] <= text[k + 1]
    BY <1>1, <2>1 DEF Chain, n
  <2>. QED BY <1>6, <2>1, <2>2
<1>9. Chain(c2, tx, t2, o2)
  BY <1>7, <1>8 DEF Chain
<1>10. t2[1] = text[2] /\ o2[1] = off[2] /\ t2[Len(c2) + 1] = sd /\ o2[Len(c2) + 1] = so
  BY <1>1, <1>2, <1>4, <1>6
<1>11. Linked(c2, tx, text[2], off[2], sd, so)
  BY <1>6, <1>9, <1>10 DEF Linked
<1>. QED BY <1>5, <1>11 DEF c2

\* The sender closes another text.
LEMMA LinkClose ==
  ASSUME NEW ch \in Seq(Seq(Nat)), NEW tx \in Seq(Text), NEW t \in Text,
         NEW rd, NEW ro, NEW sd, NEW so, Linked(ch, tx, rd, ro, sd, so)
  PROVE  Linked(ch, Append(tx, t), rd, ro, sd, so)
<1>1. PICK text \in [1 .. Len(ch) + 1 -> Nat], off \in [1 .. Len(ch) + 1 -> Nat] :
        /\ Chain(ch, tx, text, off)
        /\ text[1] = rd /\ off[1] = ro /\ text[Len(ch) + 1] = sd /\ off[Len(ch) + 1] = so
  BY DEF Linked
<1>. DEFINE x2 == Append(tx, t)
<1>2. Len(tx) \in Nat /\ Len(x2) = Len(tx) + 1 /\ \A d \in 1 .. Len(tx) : x2[d] = tx[d]
  BY AppendProperties, LenProperties
<1>. HIDE DEF x2
<1>3. Chain(ch, x2, text, off)
  <2>1. \A d \in 1 .. Len(tx) : d \in 1 .. Len(x2)
    BY <1>2
  <2>. QED BY <1>1, <1>2, <2>1 DEF Chain, NextText, NextOff
<1>4. Linked(ch, x2, rd, ro, sd, so)
  BY <1>1, <1>3 DEF Linked
<1>. QED BY <1>4 DEF x2

\* The first text is written: nobody is in it any more.
LEMMA LinkPublish ==
  ASSUME NEW ch \in Seq(Seq(Nat)), NEW tx \in Seq(Text), tx # << >>,
         NEW rd \in Nat, NEW ro, NEW sd \in Nat, NEW so, rd >= 2,
         Linked(ch, tx, rd, ro, sd, so)
  PROVE  Linked(ch, Tail(tx), rd - 1, ro, sd - 1, so) /\ rd <= sd
<1>. DEFINE n == Len(ch)
            x2 == Tail(tx)
<1>1. PICK text \in [1 .. n + 1 -> Nat], off \in [1 .. n + 1 -> Nat] :
        /\ Chain(ch, tx, text, off)
        /\ text[1] = rd /\ off[1] = ro /\ text[n + 1] = sd /\ off[n + 1] = so
  BY DEF Linked
<1>. DEFINE t2 == [k \in 1 .. n + 1 |-> text[k] - 1]
<1>2. n \in Nat /\ 1 \in 1 .. n + 1 /\ n + 1 \in 1 .. n + 1
  BY LenProperties
<1>3. Len(x2) = Len(tx) - 1 /\ Len(tx) \in Nat /\ \A d \in 1 .. Len(tx) - 1 : x2[d] = tx[d + 1]
  BY HeadTailProperties, LenProperties
<1>. HIDE DEF x2, n
<1>4. \A j, k \in 1 .. n + 1 : j <= k => text[j] <= text[k]
  BY <1>1 DEF Chain, n
<1>5. \A k \in 1 .. n + 1 : text[k] \in Nat /\ text[k] >= 2
  <2>1. \A k \in 1 .. n + 1 : 1 <= k
    BY <1>2
  <2>. QED BY <1>1, <1>2, <1>4, <2>1
<1>6. t2 \in [1 .. n + 1 -> Nat] /\ \A k \in 1 .. n + 1 : t2[k] = text[k] - 1
  BY <1>5
<1>. HIDE DEF t2
<1>7. ASSUME NEW k \in 1 .. n
      PROVE  /\ t2[k] \in 1 .. Len(x2) /\ off[k] <= Len(x2[t2[k]]) + 1
             /\ ch[k] = Message(x2[t2[k]], off[k])
             /\ t2[k + 1] = NextText(x2, t2[k], off[k])
             /\ off[k + 1] = NextOff(x2, t2[k], off[k])
  <2>1. k \in 1 .. n + 1 /\ k + 1 \in 1 .. n + 1
    BY <1>2
  <2>2. text[k] \in 1 .. Len(tx) /\ text[k] >= 2 /\ t2[k] = text[k] - 1
        /\ t2[k + 1] = text[k + 1] - 1
    BY <1>1, <1>5, <1>6, <2>1 DEF Chain, n
  <2>3. t2[k] \in 1 .. Len(x2) /\ x2[t2[k]] = tx[text[k]]
    BY <1>3, <2>2
  <2>4. /\ off[k] <= Len(tx[text[k]]) + 1
        /\ ch[k] = Message(tx[text[k]], off[k])
        /\ text[k + 1] = NextText(tx, text[k], off[k])
        /\ off[k + 1] = NextOff(tx, text[k], off[k])
    BY <1>1 DEF Chain, n
  <2>5. NextText(tx, text[k], off[k]) - 1 = NextText(x2, t2[k], off[k])
        /\ NextOff(tx, text[k], off[k]) = NextOff(x2, t2[k], off[k])
    BY <2>2, <2>3 DEF NextText, NextOff
  <2>. QED BY <2>2, <2>3, <2>4, <2>5
<1>8. ASSUME NEW j \in 1 .. n + 1, NEW k \in 1 .. n + 1, j <= k PROVE t2[j] <= t2[k]
  BY <1>4, <1>5, <1>6, <1>8
<1>9. Chain(ch, x2, t2, off)
  BY <1>7, <1>8 DEF Chain, n
<1>10. t2[1] = rd - 1 /\ t2[n + 1] = sd - 1
  BY <1>1, <1>2, <1>6
<1>11. Linked(ch, x2, rd - 1, ro, sd - 1, so)
  BY <1>1, <1>6, <1>9, <1>10 DEF Linked, n
<1>12. rd <= sd
  BY <1>1, <1>2, <1>4
<1>. QED BY <1>11, <1>12 DEF x2

-----------------------------------------------------------------------------
FTyped ==
  /\ pc \in [Rank -> {"work", "sending", "closing", "receiving"}]
  /\ flushes \in [Rank -> 0 .. MaxFlush] /\ printed \in [Rank -> 0 .. MaxText]
  /\ output_buffer \in [Rank -> Text] /\ i \in [Rank -> Nat]
  /\ channel \in [Rank -> Seq(Seq(Nat))]
  /\ recv_output_buffers \in [Rank -> Seq(Nat)]
  /\ recv_sizes \in [Rank -> Nat] /\ recv_reqs \in [Rank -> BOOLEAN]
  /\ output_file \in Seq(Rank \X Seq(Nat)) /\ closed \in [Rank -> Seq(Text)]
  /\ pc[OutputRank] \in {"work", "receiving"}
  /\ output_buffer[OutputRank] = << >> /\ channel[OutputRank] = << >>

Receiving == pc[OutputRank] = "receiving"

\* A rank in flush_output sends the text it has closed last.
Sends(p) ==
  /\ pc[p] \in {"work", "sending", "closing"}
  /\ pc[p] # "work" => closed[p] # << >> /\ closed[p][Len(closed[p])] = output_buffer[p]
  /\ pc[p] = "sending" => i[p] <= Len(output_buffer[p])
  /\ pc[p] = "closing" => i[p] = Len(output_buffer[p]) + 1

\* What has come is a part of the text closed first, or all of it.
Receives(p) ==
  /\ recv_reqs[p] =>
       /\ Receiving
       /\ closed[p] = << >> => recv_output_buffers[p] = << >>
       /\ closed[p] # << >> =>
            /\ Len(recv_output_buffers[p]) <= Len(closed[p][1]) + 1
            /\ recv_output_buffers[p] =
                 SubSeq(Ended(closed[p][1]), 1, Len(recv_output_buffers[p]))
  /\ Receiving /\ ~recv_reqs[p] =>
       closed[p] # << >> /\ recv_output_buffers[p] = Ended(closed[p][1])
  /\ \A k \in 1 .. Len(recv_output_buffers[p]) - 1 : recv_output_buffers[p][k] # NUL

\* Receive buffers are multiples of a message long, and one longer than what has come.
HasRoom(p) ==
  \E c \in Nat, m \in Nat \ {0} :
    /\ recv_sizes[p] = m * B
    /\ recv_reqs[p] => Len(recv_output_buffers[p]) = c * B /\ c < m

RecvText(p) == IF Receiving /\ ~recv_reqs[p] THEN 2 ELSE 1
RecvOff(p) == IF recv_reqs[p] THEN Len(recv_output_buffers[p]) ELSE 0
SendText(p) == IF pc[p] = "work" THEN Len(closed[p]) + 1 ELSE Len(closed[p])
SendOff(p) == IF pc[p] = "work" THEN 0 ELSE i[p]
Flight(p) == Linked(channel[p], closed[p], RecvText(p), RecvOff(p), SendText(p), SendOff(p))

Consistent(p) == Sends(p) /\ Receives(p) /\ HasRoom(p) /\ Flight(p)
IInv == FTyped /\ \A p \in Sender : Consistent(p)

-----------------------------------------------------------------------------
\* Sends for a rank and the output rank do not interfere with those of another.
LEMMA Untouched ==
  ASSUME NEW q \in Sender, Consistent(q), UNCHANGED Receiving,
         UNCHANGED <<pc[q], output_buffer[q], i[q], channel[q], closed[q],
                     recv_output_buffers[q], recv_sizes[q], recv_reqs[q]>>
  PROVE  Consistent(q)'
BY DEF Consistent, Sends, Receives, HasRoom, Flight, RecvText, RecvOff, SendText, SendOff

LEMMA EmptyText == << >> \in Text /\ << >> \in Seq(Nat) /\ << >> \in Seq(Seq(Nat)) /\ << >> \in Seq(Text)
BY DEF Text

LEMMA InitIInv == Init => IInv
<1>. SUFFICES ASSUME Init PROVE IInv
  OBVIOUS
<1>1. FTyped
  <2>1. B \in Nat /\ OutputRank \in Rank /\ MaxText \in Nat /\ MaxFlush \in Nat
    BY Size, RanksOrdered, BoundsNatural
  <2>2. << >> \in Seq(Rank \X Seq(Nat))
    OBVIOUS
  <2>. QED BY <2>1, <2>2, EmptyText DEF Init, FTyped
<1>2. ASSUME NEW p \in Sender PROVE Consistent(p)
  <2>1. p \in Rank /\ OutputRank \in Rank /\ ~Receiving
    BY RanksOrdered DEF Sender, Init, Receiving
  <2>2. /\ pc[p] = "work" /\ i[p] = 0 /\ channel[p] = << >> /\ closed[p] = << >>
        /\ recv_output_buffers[p] = << >> /\ recv_sizes[p] = B /\ ~recv_reqs[p]
    BY <2>1 DEF Init
  <2>3. Sends(p)
    BY <2>2 DEF Sends
  <2>4. Receives(p)
    BY <2>1, <2>2 DEF Receives
  <2>5. HasRoom(p)
    <3>1. B = 1 * B
      BY Size
    <3>. QED BY <2>2, <3>1 DEF HasRoom
  <2>6. Flight(p)
    <3>1. Len(closed[p]) + 1 = 1
      BY <2>2
    <3>. QED BY <2>1, <2>2, <3>1, LinkNone DEF Flight, RecvText, RecvOff, SendText, SendOff
  <2>. QED BY <2>3, <2>4, <2>5, <2>6 DEF Consistent
<1>. QED BY <1>1, <1>2 DEF IInv

LEMMA PrintIInv == ASSUME NEW p \in Rank, IInv, print_output(p) PROVE IInv'
<1>1. /\ pc[p] = "work"
      /\ UNCHANGED <<pc, flushes, i, channel, recv_output_buffers, recv_sizes, recv_reqs, closed>>
  BY DEF print_output, receiverVars
<1>2. PICK length \in 1 .. MaxText - printed[p] :
        LET text == [k \in 1 .. length |-> printed[p] + k]
        IN /\ printed' = [printed EXCEPT ![p] = @ + length]
           /\ IF p = OutputRank
              THEN /\ output_file' = Append(output_file, <<p, text>>)
                   /\ UNCHANGED output_buffer
              ELSE /\ output_buffer' = [output_buffer EXCEPT ![p] = @ \o text]
                   /\ UNCHANGED output_file
  BY DEF print_output
<1>. DEFINE text == [k \in 1 .. length |-> printed[p] + k]
<1>3. printed[p] \in 0 .. MaxText /\ MaxText \in Nat /\ output_buffer[p] \in Text /\ OutputRank \in Rank
  BY BoundsNatural, RanksOrdered DEF IInv, FTyped
<1>4. text \in Text /\ text \in Seq(Nat)
  <2>1. \A k \in 1 .. length : printed[p] + k \in Char /\ printed[p] + k \in Nat
    BY <1>3 DEF Char
  <2>2. length \in Nat
    BY <1>3
  <2>. QED BY <2>1, <2>2 DEF Text
<1>5. output_buffer[p] \o text \in Text
  BY <1>3, <1>4, ConcatProperties DEF Text
<1>. HIDE DEF text
<1>6. printed' \in [Rank -> 0 .. MaxText]
  <2>1. printed[p] + length \in 0 .. MaxText
    BY <1>3
  <2>2. printed' = [printed EXCEPT ![p] = printed[p] + length]
    BY <1>2
  <2>. QED BY <2>1, <2>2 DEF IInv, FTyped
<1>7. FTyped'
  <2>1. CASE p = OutputRank
    <3>1. output_file' \in Seq(Rank \X Seq(Nat))
      <4>1. output_file \in Seq(Rank \X Seq(Nat)) /\ <<p, text>> \in Rank \X Seq(Nat)
        BY <1>4 DEF IInv, FTyped
      <4>2. output_file' = Append(output_file, <<p, text>>)
        BY <1>2, <2>1 DEF text
      <4>. QED BY <4>1, <4>2, AppendProperties
    <3>. QED BY <1>1, <1>2, <1>6, <2>1, <3>1 DEF IInv, FTyped
  <2>2. CASE p # OutputRank
    <3>1. output_buffer' = [output_buffer EXCEPT ![p] = output_buffer[p] \o text] /\ output_file' = output_file
      BY <1>2, <2>2 DEF text
    <3>. QED BY <1>1, <1>3, <1>5, <1>6, <2>2, <3>1 DEF IInv, FTyped
  <2>. QED BY <2>1, <2>2
<1>8. ASSUME NEW q \in Sender PROVE Consistent(q)'
  <2>1. CASE q = p
    <3>1. Sends(q)' /\ Receives(q)' /\ HasRoom(q)' /\ Flight(q)'
      BY <1>1, <2>1 DEF IInv, Consistent, Sends, Receives, Receiving, HasRoom, Flight,
                        RecvText, RecvOff, SendText, SendOff
    <3>. QED BY <3>1 DEF Consistent
  <2>2. CASE q # p
    <3>1. q \in Rank /\ output_buffer'[q] = output_buffer[q]
      BY <1>2, <2>2 DEF IInv, FTyped, Sender
    <3>. QED BY <1>1, <3>1, Untouched DEF IInv, Receiving
  <2>. QED BY <2>1, <2>2
<1>. QED BY <1>7, <1>8 DEF IInv

\* The text is closed: it is the one to send.
LEMMA BeginSendIInv == ASSUME NEW p \in Sender, IInv, BeginSend(p) PROVE IInv'
<1>1. /\ pc[p] = "work" /\ flushes[p] < MaxFlush
      /\ flushes' = [flushes EXCEPT ![p] = @ + 1] /\ i' = [i EXCEPT ![p] = 0]
      /\ closed' = [closed EXCEPT ![p] = Append(@, output_buffer[p])]
      /\ pc' = [pc EXCEPT ![p] = "sending"]
      /\ UNCHANGED <<printed, output_buffer, channel, recv_output_buffers, recv_sizes,
                     recv_reqs, output_file>>
  BY DEF BeginSend, Goto, receiverVars
<1>2. p \in Rank /\ p # OutputRank /\ OutputRank \in Rank /\ MaxFlush \in Nat
  BY RanksOrdered, BoundsNatural DEF Sender
<1>. DEFINE tx == closed[p]  t == output_buffer[p]  x2 == Append(tx, t)
<1>3. tx \in Seq(Text) /\ t \in Text /\ Consistent(p) /\ flushes[p] \in 0 .. MaxFlush
      /\ channel[p] \in Seq(Seq(Nat))
  BY <1>2 DEF IInv, FTyped
<1>4. /\ x2 \in Seq(Text) /\ x2 # << >> /\ Len(x2) = Len(tx) + 1 /\ x2[Len(x2)] = t
      /\ Len(tx) \in Nat /\ \A k \in 1 .. Len(tx) : x2[k] = tx[k]
  <2>1. Len(tx) \in Nat
    BY <1>3, LenProperties
  <2>2. /\ x2 \in Seq(Text) /\ x2 # << >> /\ Len(x2) = Len(tx) + 1
        /\ \A k \in 1 .. Len(tx) : x2[k] = tx[k]
        /\ x2[Len(tx) + 1] = t
    BY <1>3, AppendProperties
  <2>. HIDE DEF x2
  <2>. QED BY <2>1, <2>2
<1>5. closed'[p] = x2 /\ pc'[p] = "sending" /\ i'[p] = 0 /\ UNCHANGED Receiving
  BY <1>1, <1>2 DEF IInv, FTyped, Receiving
<1>. HIDE DEF x2
<1>6. FTyped'
  <2>1. flushes' \in [Rank -> 0 .. MaxFlush]
    <3>1. flushes[p] + 1 \in 0 .. MaxFlush
      BY <1>1, <1>2, <1>3
    <3>. QED BY <1>1, <3>1 DEF IInv, FTyped
  <2>2. closed' \in [Rank -> Seq(Text)]
    <3>1. closed' = [closed EXCEPT ![p] = x2]
      BY <1>1 DEF x2
    <3>. QED BY <1>4, <3>1 DEF IInv, FTyped
  <2>3. i' \in [Rank -> Nat]
    BY <1>1 DEF IInv, FTyped
  <2>. QED BY <1>1, <1>2, <2>1, <2>2, <2>3 DEF IInv, FTyped
<1>7. Consistent(p)'
  <2>1. Sends(p)'
    <3>1. Len(t) \in Nat
      BY <1>3, EndedText
    <3>. QED BY <1>1, <1>4, <1>5, <3>1 DEF Sends
  <2>2. Receives(p)'
    <3>1. CASE tx = << >>
      <4>1. \A s : SubSeq(s, 1, 0) = << >>
        BY SubSeqEmpty
      <4>2. x2[1] = t /\ Len(t) \in Nat
        <5>1. Len(x2) = 1
          BY <1>4, <3>1
        <5>. QED BY <1>3, <1>4, <5>1, EndedText
      <4>3. recv_reqs[p] => /\ recv_output_buffers[p] = << >> /\ Receiving
        BY <1>3, <3>1 DEF Consistent, Receives
      <4>4. ~(Receiving /\ ~recv_reqs[p])
        BY <1>3, <3>1 DEF Consistent, Receives
      <4>5. \A k \in 1 .. Len(recv_output_buffers[p]) - 1 : recv_output_buffers[p][k] # NUL
        BY <1>3 DEF Consistent, Receives
      <4>6. Len(<< >>) = 0 /\ 0 <= Len(t) + 1
        BY <4>2
      <4>7. x2 # << >> /\ closed'[p] = x2 /\ recv_output_buffers' = recv_output_buffers
            /\ recv_reqs' = recv_reqs /\ UNCHANGED Receiving
        BY <1>1, <1>4, <1>5
      <4>. HIDE <1>1, <1>3, <1>4, <1>5
      <4>. QED BY <4>1, <4>2, <4>3, <4>4, <4>5, <4>6, <4>7 DEF Receives
    <3>2. CASE tx # << >>
      <4>1. x2[1] = tx[1]
        <5>1. Len(tx) # 0
          BY <1>3, <3>2, EmptySeq
        <5>2. 1 \in 1 .. Len(tx)
          BY <1>4, <5>1
        <5>. QED BY <1>4, <5>2
      <4>. QED BY <1>1, <1>3, <1>4, <1>5, <3>2, <4>1 DEF Consistent, Receives
    <3>. QED BY <3>1, <3>2
  <2>3. HasRoom(p)'
    BY <1>1, <1>3 DEF Consistent, HasRoom
  <2>4. Flight(p)'
    <3>1. Linked(channel[p], x2, RecvText(p), RecvOff(p), SendText(p), SendOff(p))
      BY <1>3, LinkClose DEF Consistent, Flight, x2
    <3>2. SendText(p) = SendText(p)' /\ SendOff(p) = SendOff(p)'
      BY <1>1, <1>4, <1>5 DEF SendText, SendOff
    <3>3. RecvText(p) = RecvText(p)' /\ RecvOff(p) = RecvOff(p)'
      BY <1>1, <1>5 DEF RecvText, RecvOff
    <3>. QED BY <1>1, <1>5, <3>1, <3>2, <3>3 DEF Flight
  <2>. QED BY <2>1, <2>2, <2>3, <2>4 DEF Consistent
<1>8. ASSUME NEW q \in Sender, q # p PROVE Consistent(q)'
  <2>1. q \in Rank /\ pc'[q] = pc[q] /\ i'[q] = i[q] /\ closed'[q] = closed[q]
    BY <1>1, <1>8 DEF IInv, FTyped, Sender
  <2>. QED BY <1>1, <1>5, <2>1, Untouched DEF IInv
<1>. QED BY <1>6, <1>7, <1>8 DEF IInv

-----------------------------------------------------------------------------
\* What one message of a sender does to the positions.
LEMMA Sent ==
  ASSUME NEW p \in Sender, IInv, pc[p] \in {"sending", "closing"},
         channel' = [channel EXCEPT ![p] = Append(@, Message(output_buffer[p], i[p]))],
         UNCHANGED <<closed, recv_output_buffers, recv_sizes, recv_reqs, Receiving>>
  PROVE  /\ channel' \in [Rank -> Seq(Seq(Nat))] /\ channel'[OutputRank] = << >>
         /\ Receives(p)' /\ HasRoom(p)'
         /\ \/ /\ i[p] + B <= Len(output_buffer[p]) + 1
               /\ pc'[p] # "work" /\ i'[p] = i[p] + B
            \/ ~(i[p] + B <= Len(output_buffer[p]) + 1) /\ pc'[p] = "work"
            => Flight(p)'
<1>. DEFINE tx == closed[p]  n == Len(tx)
<1>1. /\ p \in Rank /\ p # OutputRank /\ OutputRank \in Rank /\ FTyped /\ Consistent(p)
      /\ tx \in Seq(Text) /\ i[p] \in Nat /\ channel[p] \in Seq(Seq(Nat))
      /\ output_buffer[p] \in Text /\ Len(output_buffer[p]) \in Nat /\ B \in Nat \ {0}
  BY Size, EndedText, RanksOrdered DEF IInv, FTyped, Sender
<1>2. /\ n \in 1 .. Len(tx) /\ tx[n] = output_buffer[p]
      /\ i[p] <= Len(output_buffer[p]) + 1
      /\ SendText(p) = n /\ SendOff(p) = i[p]
  <2>1. tx # << >> /\ tx[n] = output_buffer[p] /\ i[p] <= Len(output_buffer[p]) + 1
    BY <1>1 DEF Consistent, Sends
  <2>2. n \in Nat \ {0}
    BY <1>1, <2>1, EmptySeq
  <2>. QED BY <2>1, <2>2 DEF SendText, SendOff
<1>3. Message(output_buffer[p], i[p]) \in Seq(Nat)
  BY <1>1, <1>2, MessageOf
<1>4. channel'[p] = Append(channel[p], Message(tx[n], i[p])) /\ channel'[p] \in Seq(Seq(Nat))
  BY <1>1, <1>2, <1>3, AppendProperties DEF FTyped
<1>5. channel' \in [Rank -> Seq(Seq(Nat))] /\ channel'[OutputRank] = << >>
  <2>1. channel' = [channel EXCEPT ![p] = channel'[p]]
    BY <1>4, <1>1 DEF FTyped
  <2>. QED BY <1>1, <1>4, <2>1 DEF FTyped
<1>6. Receives(p)' /\ HasRoom(p)'
  BY <1>1 DEF Consistent, Receives, HasRoom
<1>7. Linked(channel'[p], tx, RecvText(p), RecvOff(p), NextText(tx, n, i[p]), NextOff(tx, n, i[p]))
  <2>1. Linked(channel[p], tx, RecvText(p), RecvOff(p), n, i[p])
    BY <1>1, <1>2 DEF Consistent, Flight
  <2>2. i[p] <= Len(tx[n]) + 1
    BY <1>2
  <2>. HIDE DEF n, tx
  <2>. QED BY <1>1, <1>2, <1>4, <2>1, <2>2, LinkSend
<1>8. RecvText(p)' = RecvText(p) /\ RecvOff(p)' = RecvOff(p)
  BY DEF RecvText, RecvOff
<1>9. ASSUME \/ /\ i[p] + B <= Len(output_buffer[p]) + 1
                /\ pc'[p] # "work" /\ i'[p] = i[p] + B
             \/ ~(i[p] + B <= Len(output_buffer[p]) + 1) /\ pc'[p] = "work"
      PROVE  Flight(p)'
  <2>1. SendText(p)' = NextText(tx, n, i[p]) /\ SendOff(p)' = NextOff(tx, n, i[p])
    BY <1>2, <1>9 DEF SendText, SendOff, NextText, NextOff
  <2>. QED BY <1>7, <1>8, <2>1 DEF Flight
<1>. QED BY <1>5, <1>6, <1>9

LEMMA SendChunkIInv == ASSUME NEW p \in Sender, IInv, SendChunk(p) PROVE IInv'
<1>. DEFINE t == output_buffer[p]
<1>1. /\ p \in Rank /\ p # OutputRank /\ OutputRank \in Rank /\ pc[p] = "sending"
      /\ i[p] \in Nat /\ t \in Text /\ Len(t) \in Nat /\ i[p] <= Len(t) /\ B \in Nat \ {0}
      /\ UNCHANGED <<flushes, printed, recv_output_buffers, recv_sizes, recv_reqs, output_file, closed>>
  BY Size, EndedText, RanksOrdered
     DEF IInv, FTyped, Consistent, Sends, Sender, SendChunk, receiverVars
<1>2. channel' = [channel EXCEPT ![p] = Append(@, Message(t, i[p]))]
  <2>1. i[p] + ChunkLength(p) = imin2(i[p] + B, Len(t) + 1)
    BY <1>1 DEF ChunkLength, imin2
  <2>. QED BY <2>1 DEF SendChunk, Message, Ended
<1>3. i' = [i EXCEPT ![p] = i[p] + B]
  BY DEF SendChunk
<1>4. \/ i[p] + B <= Len(t) /\ UNCHANGED <<pc, output_buffer>>
      \/ /\ i[p] + B = Len(t) + 1
         /\ pc' = [pc EXCEPT ![p] = "closing"] /\ UNCHANGED output_buffer
      \/ /\ ~(i[p] + B <= Len(t) + 1)
         /\ pc' = [pc EXCEPT ![p] = "work"] /\ output_buffer' = [output_buffer EXCEPT ![p] = << >>]
  <2>1. ~(i[p] + B <= Len(t)) => (IsFull(ChunkLength(p)) <=> i[p] + B = Len(t) + 1)
    BY <1>1 DEF IsFull, ChunkLength, imin2
  <2>. QED BY <1>1, <2>1 DEF SendChunk, Goto, EndSend
<1>5. UNCHANGED Receiving /\ pc'[OutputRank] = pc[OutputRank]
  BY <1>1, <1>4 DEF IInv, FTyped, Receiving
<1>6. /\ channel' \in [Rank -> Seq(Seq(Nat))] /\ channel'[OutputRank] = << >>
      /\ Receives(p)' /\ HasRoom(p)'
  BY <1>1, <1>2, <1>5, Sent
<1>7. FTyped'
  <2>1. i[p] + B \in Nat
    BY <1>1
  <2>2. i' \in [Rank -> Nat]
    BY <1>3, <2>1 DEF IInv, FTyped
  <2>3. pc' \in [Rank -> {"work", "sending", "closing", "receiving"}]
    BY <1>4 DEF IInv, FTyped
  <2>4. output_buffer' \in [Rank -> Text] /\ output_buffer'[OutputRank] = << >>
    <3>1. output_buffer \in [Rank -> Text] /\ output_buffer[OutputRank] = << >>
      BY DEF IInv, FTyped
    <3>2. output_buffer' = output_buffer \/ output_buffer' = [output_buffer EXCEPT ![p] = << >>]
      BY <1>4
    <3>. QED BY <1>1, <3>1, <3>2, EmptyText
  <2>. QED BY <1>1, <1>5, <1>6, <2>2, <2>3, <2>4 DEF IInv, FTyped
<1>8. Flight(p)'
  <2>1. \/ i[p] + B <= Len(t) + 1 /\ pc'[p] # "work" /\ i'[p] = i[p] + B
        \/ ~(i[p] + B <= Len(t) + 1) /\ pc'[p] = "work"
    <3>1. i'[p] = i[p] + B
      BY <1>1, <1>3 DEF IInv, FTyped
    <3>2. pc \in [Rank -> {"work", "sending", "closing", "receiving"}]
      BY DEF IInv, FTyped
    <3>3. CASE i[p] + B <= Len(t) /\ UNCHANGED <<pc, output_buffer>>
      <4>1. i[p] + B <= Len(t) + 1
        BY <1>1, <3>3
      <4>. QED BY <1>1, <3>1, <3>3, <4>1
    <3>4. CASE i[p] + B = Len(t) + 1 /\ pc' = [pc EXCEPT ![p] = "closing"]
      <4>1. i[p] + B <= Len(t) + 1
        BY <1>1, <3>4
      <4>2. pc'[p] = "closing"
        BY <1>1, <3>2, <3>4
      <4>. QED BY <3>1, <4>1, <4>2
    <3>5. CASE ~(i[p] + B <= Len(t) + 1) /\ pc' = [pc EXCEPT ![p] = "work"]
      <4>1. pc'[p] = "work"
        BY <1>1, <3>2, <3>5
      <4>. QED BY <3>5, <4>1
    <3>. QED BY <1>4, <3>3, <3>4, <3>5
  <2>. QED BY <1>1, <1>2, <1>5, <2>1, Sent
<1>9. Sends(p)'
  BY <1>1, <1>3, <1>4 DEF IInv, FTyped, Consistent, Sends
<1>10. ASSUME NEW q \in Sender, q # p PROVE Consistent(q)'
  <2>1. q \in Rank /\ pc'[q] = pc[q] /\ i'[q] = i[q] /\ channel'[q] = channel[q]
        /\ output_buffer'[q] = output_buffer[q]
    BY <1>2, <1>3, <1>4, <1>10 DEF IInv, FTyped, Sender
  <2>. QED BY <1>1, <1>5, <2>1, Untouched DEF IInv
<1>. QED BY <1>6, <1>7, <1>8, <1>9, <1>10 DEF IInv, Consistent

LEMMA SendEmptyIInv == ASSUME NEW p \in Sender, IInv, SendEmpty(p) PROVE IInv'
<1>. DEFINE t == output_buffer[p]
<1>1. /\ p \in Rank /\ p # OutputRank /\ OutputRank \in Rank /\ pc[p] = "closing"
      /\ i[p] \in Nat /\ t \in Text /\ Len(t) \in Nat /\ i[p] = Len(t) + 1 /\ B \in Nat \ {0}
      /\ pc' = [pc EXCEPT ![p] = "work"] /\ output_buffer' = [output_buffer EXCEPT ![p] = << >>]
      /\ UNCHANGED <<flushes, printed, i, recv_output_buffers, recv_sizes, recv_reqs, output_file, closed>>
  BY Size, EndedText, RanksOrdered
     DEF IInv, FTyped, Consistent, Sends, Sender, SendEmpty, receiverVars, EndSend, Goto
<1>2. channel' = [channel EXCEPT ![p] = Append(@, Message(t, i[p]))]
  <2>1. imin2(i[p] + B, Len(t) + 1) = Len(t) + 1
    BY <1>1 DEF imin2
  <2>2. Message(t, i[p]) = << >>
    <3>1. i[p] + 1 \in Int /\ Len(t) + 1 \in Int /\ Len(t) + 1 < i[p] + 1
      BY <1>1
    <3>. QED BY <2>1, <3>1, SubSeqEmpty DEF Message
  <2>. QED BY <2>2 DEF SendEmpty
<1>3. UNCHANGED Receiving /\ pc'[OutputRank] = pc[OutputRank]
  BY <1>1 DEF IInv, FTyped, Receiving
<1>4. /\ channel' \in [Rank -> Seq(Seq(Nat))] /\ channel'[OutputRank] = << >>
      /\ Receives(p)' /\ HasRoom(p)'
  BY <1>1, <1>2, <1>3, Sent
<1>5. FTyped'
  BY <1>1, <1>3, <1>4, EmptyText DEF IInv, FTyped
<1>6. Flight(p)'
  <2>1. ~(i[p] + B <= Len(t) + 1) /\ pc'[p] = "work"
    BY <1>1 DEF IInv, FTyped
  <2>. QED BY <1>1, <1>2, <1>3, <2>1, Sent
<1>7. Sends(p)'
  BY <1>1 DEF IInv, FTyped, Sends
<1>8. ASSUME NEW q \in Sender, q # p PROVE Consistent(q)'
  <2>1. q \in Rank /\ pc'[q] = pc[q] /\ channel'[q] = channel[q] /\ output_buffer'[q] = output_buffer[q]
    BY <1>1, <1>2, <1>8 DEF IInv, FTyped, Sender
  <2>. QED BY <1>1, <1>3, <2>1, Untouched DEF IInv
<1>. QED BY <1>4, <1>5, <1>6, <1>7, <1>8 DEF IInv, Consistent

-----------------------------------------------------------------------------
\* output_rank is at the beginning of the next texts.
LEMMA BeginReceiveIInv == ASSUME IInv, BeginReceive PROVE IInv'
<1>1. /\ pc[OutputRank] = "work" /\ pc' = [pc EXCEPT ![OutputRank] = "receiving"]
      /\ flushes[OutputRank] < MaxFlush /\ flushes' = [flushes EXCEPT ![OutputRank] = @ + 1]
      /\ recv_output_buffers' = [p \in Rank |-> << >>]
      /\ recv_reqs' = [p \in Rank |-> p \in Sender]
      /\ UNCHANGED <<printed, output_buffer, i, channel, recv_sizes, output_file, closed>>
  BY DEF BeginReceive, Goto, senderVars
<1>2. OutputRank \in Rank /\ MaxFlush \in Nat
  BY RanksOrdered, BoundsNatural
<1>3. ~Receiving /\ Receiving'
  BY <1>1, <1>2 DEF IInv, FTyped, Receiving
<1>4. FTyped'
  <2>1. flushes' \in [Rank -> 0 .. MaxFlush]
    <3>1. flushes[OutputRank] + 1 \in 0 .. MaxFlush
      BY <1>1, <1>2 DEF IInv, FTyped
    <3>. QED BY <1>1, <3>1 DEF IInv, FTyped
  <2>. QED BY <1>1, <1>2, <2>1, EmptyText DEF IInv, FTyped
<1>5. ASSUME NEW p \in Sender PROVE Consistent(p)'
  <2>1. /\ p \in Rank /\ p # OutputRank /\ Consistent(p) /\ ~recv_reqs[p] /\ recv_reqs'[p]
        /\ recv_output_buffers'[p] = << >> /\ pc'[p] = pc[p]
    BY <1>1, <1>3 DEF IInv, FTyped, Sender, Consistent, Receives
  <2>2. Sends(p)'
    BY <1>1, <2>1 DEF Consistent, Sends
  <2>3. Receives(p)'
    <3>1. \A s : SubSeq(s, 1, 0) = << >>
      BY SubSeqEmpty
    <3>2. closed[p] # << >> => Len(closed[p][1]) \in Nat
      <4>1. closed[p] \in Seq(Text)
        BY <2>1 DEF IInv, FTyped
      <4>2. closed[p] # << >> => 1 \in 1 .. Len(closed[p])
        BY <4>1, EmptySeq
      <4>. QED BY <4>1, <4>2, ElementOfSeq, EndedText
    <3>. QED BY <1>1, <1>3, <2>1, <3>1, <3>2 DEF Receives
  <2>4. HasRoom(p)'
    <3>1. PICK m \in Nat \ {0} : recv_sizes[p] = m * B
      BY <2>1 DEF Consistent, HasRoom
    <3>2. Len(<< >>) = 0 * B /\ 0 < m
      BY Size
    <3>. QED BY <1>1, <2>1, <3>1, <3>2 DEF HasRoom
  <2>5. Flight(p)'
    <3>1. RecvText(p)' = RecvText(p) /\ RecvOff(p)' = RecvOff(p)
      BY <1>3, <2>1 DEF RecvText, RecvOff
    <3>2. SendText(p)' = SendText(p) /\ SendOff(p)' = SendOff(p)
      BY <1>1, <2>1 DEF SendText, SendOff
    <3>. QED BY <1>1, <2>1, <3>1, <3>2 DEF Consistent, Flight
  <2>. QED BY <2>2, <2>3, <2>4, <2>5 DEF Consistent
<1>. QED BY <1>4, <1>5 DEF IInv

\* A message is received where output_rank is in the text.
LEMMA WaitanyIInv == ASSUME NEW p \in Sender, IInv, Waitany(p) PROVE IInv'
<1>. DEFINE tx == closed[p]
            ch == channel[p]
            r == recv_output_buffers[p]
            msg == Head(ch)
            r2 == r \o msg
            t == tx[1]
<1>1. /\ pc[OutputRank] = "receiving" /\ recv_reqs[p] /\ ch # << >>
      /\ recv_output_buffers' = [recv_output_buffers EXCEPT ![p] = r2]
      /\ recv_sizes' = [recv_sizes EXCEPT ![p] =
           IF Len(msg) = B /\ MustGrow(Len(r2), @) THEN @ + B ELSE @]
      /\ recv_reqs' = [recv_reqs EXCEPT ![p] = (Len(msg) = B)]
      /\ channel' = [channel EXCEPT ![p] = Tail(@)]
      /\ UNCHANGED <<pc, flushes, printed, output_buffer, i, output_file, closed>>
  BY DEF Waitany, senderVars
<1>2. /\ p \in Rank /\ p # OutputRank /\ OutputRank \in Rank /\ FTyped /\ Consistent(p)
      /\ tx \in Seq(Text) /\ ch \in Seq(Seq(Nat)) /\ r \in Seq(Nat) /\ Receiving /\ Receiving'
      /\ B \in Nat \ {0} /\ recv_sizes[p] \in Nat
  BY <1>1, RanksOrdered, Size DEF IInv, FTyped, Sender, Receiving
<1>. HIDE DEF r2, msg, ch, r, tx, t
<1>3. RecvText(p) = 1 /\ RecvOff(p) = Len(r)
  BY <1>1 DEF RecvText, RecvOff, r
<1>4. /\ 1 \in 1 .. Len(tx) /\ Len(r) \in Nat /\ Len(r) <= Len(t) + 1
      /\ msg = Message(t, Len(r))
      /\ Linked(Tail(ch), tx, NextText(tx, 1, Len(r)), NextOff(tx, 1, Len(r)), SendText(p), SendOff(p))
  <2>1. Linked(ch, tx, 1, Len(r), SendText(p), SendOff(p))
    BY <1>2, <1>3 DEF Consistent, Flight, ch, tx
  <2>. QED BY <1>1, <1>2, <2>1, LinkReceive DEF msg, t
<1>5. t \in Text /\ Len(t) \in Nat /\ tx # << >>
  <2>1. t \in Text
    BY <1>2, <1>4, ElementOfSeq DEF t
  <2>2. Len(<< >>) = 0
    OBVIOUS
  <2>. QED BY <1>4, <2>1, <2>2, EndedText
<1>6. /\ msg \in Seq(Nat) /\ Len(msg) <= B
      /\ Len(msg) = (IF Len(r) + B <= Len(t) + 1 THEN B ELSE Len(t) + 1 - Len(r))
      /\ Len(msg) = B <=> Len(r) + B <= Len(t) + 1
      /\ r2 = SubSeq(Ended(t), 1, imin2(Len(r) + B, Len(t) + 1))
  <2>1. r = SubSeq(Ended(t), 1, Len(r))
    BY <1>1, <1>2, <1>5 DEF Consistent, Receives, r, tx, t
  <2>2. SubSeq(Ended(t), 1, Len(r)) \o Message(t, Len(r)) = SubSeq(Ended(t), 1, imin2(Len(r) + B, Len(t) + 1))
    BY <1>4, <1>5, MessageOf
  <2>. QED BY <1>4, <1>5, <2>1, <2>2, MessageOf DEF r2
<1>7. r2 \in Seq(Nat) /\ Len(r2) = Len(r) + Len(msg)
  BY <1>2, <1>6, ConcatProperties DEF r2
<1>8. /\ recv_output_buffers'[p] = r2 /\ (recv_reqs'[p] <=> Len(msg) = B) /\ channel'[p] = Tail(ch)
      /\ Tail(ch) \in Seq(Seq(Nat)) /\ closed'[p] = tx
  <2>1. Tail(ch) \in Seq(Seq(Nat))
    BY <1>1, <1>2, HeadTailProperties DEF ch
  <2>. QED BY <1>1, <1>2, <2>1 DEF FTyped, ch, tx
<1>9. FTyped'
  <2>1. recv_output_buffers' \in [Rank -> Seq(Nat)] /\ recv_reqs' \in [Rank -> BOOLEAN]
    BY <1>1, <1>2, <1>7 DEF FTyped
  <2>2. recv_sizes' \in [Rank -> Nat]
    <3>1. recv_sizes[p] + B \in Nat
      BY <1>2
    <3>. QED BY <1>1, <1>2, <3>1 DEF FTyped
  <2>3. channel' \in [Rank -> Seq(Seq(Nat))] /\ channel'[OutputRank] = << >>
    <3>1. channel' = [channel EXCEPT ![p] = Tail(ch)]
      BY <1>1 DEF ch
    <3>. QED BY <1>2, <1>8, <3>1 DEF FTyped
  <2>. QED BY <1>1, <1>2, <2>1, <2>2, <2>3 DEF FTyped
<1>10. Sends(p)'
  BY <1>1, <1>2 DEF Consistent, Sends
<1>11. ASSUME Len(r) + B <= Len(t) + 1 PROVE Consistent(p)'
  <2>1. /\ Len(msg) = B /\ recv_reqs'[p] /\ Len(r2) = Len(r) + B
        /\ imin2(Len(r) + B, Len(t) + 1) = Len(r) + B
    <3>1. Len(msg) = B
      BY <1>6, <1>11
    <3>2. imin2(Len(r) + B, Len(t) + 1) = Len(r) + B
      BY <1>2, <1>4, <1>5, <1>11 DEF imin2
    <3>. QED BY <1>7, <1>8, <3>1, <3>2
  <2>2. Receives(p)'
    <3>1. ASSUME NEW k \in 1 .. Len(r2) - 1 PROVE r2[k] # NUL
      <4>1. k \in 1 .. Len(t) /\ k \in 1 .. Len(r2) /\ k \in Int
        BY <1>2, <1>4, <1>5, <1>11, <2>1
      <4>2. r2[k] = Ended(t)[k]
        <5>1. \A j \in 1 .. Len(r2) : Ended(t)[j] \in Nat
          <6>1. Ended(t) \in Seq(Nat) /\ Len(Ended(t)) = Len(t) + 1
            BY <1>5, EndedText
          <6>2. \A j \in 1 .. Len(r2) : j \in 1 .. Len(Ended(t))
            BY <1>2, <1>4, <1>5, <1>11, <2>1, <6>1
          <6>. QED BY <6>1, <6>2, ElementOfSeq
        <5>2. r2 = SubSeq(Ended(t), 1, Len(r2)) /\ Len(r2) \in Nat
          BY <1>2, <1>4, <1>6, <2>1
        <5>3. \A j \in 1 .. Len(r2) - 1 + 1 : SubSeq(Ended(t), 1, Len(r2))[j] = Ended(t)[1 + j - 1]
          BY <5>1, <5>2, SubSeqProperties, 1 \in Int
        <5>4. k \in 1 .. Len(r2) - 1 + 1 /\ 1 + k - 1 = k
          BY <4>1, <5>2
        <5>5. SubSeq(Ended(t), 1, Len(r2))[k] = Ended(t)[k]
          BY <5>3, <5>4
        <5>. QED BY <5>2, <5>5
      <4>. QED BY <1>5, <4>1, <4>2, EndedText
    <3>2. Len(r2) <= Len(t) + 1 /\ r2 = SubSeq(Ended(t), 1, Len(r2))
      BY <1>6, <1>11, <2>1
    <3>. QED BY <1>2, <1>5, <1>8, <2>1, <3>1, <3>2 DEF Receives, t
  <2>3. HasRoom(p)'
    <3>1. PICK c \in Nat, m \in Nat \ {0} :
            recv_sizes[p] = m * B /\ Len(r) = c * B /\ c < m
      BY <1>1, <1>2 DEF Consistent, HasRoom, r
    <3>2. Len(r2) = (c + 1) * B /\ (m + 1) * B = m * B + B
      BY <1>2, <2>1, <3>1
    <3>3. recv_sizes'[p] = IF Len(r2) >= recv_sizes[p] THEN recv_sizes[p] + B ELSE recv_sizes[p]
      BY <1>1, <1>2, <2>1 DEF FTyped, MustGrow
    <3>4. CASE c + 1 < m
      <4>1. (c + 1) * B + B <= m * B
        <5>1. m - (c + 1) \in Nat /\ m - (c + 1) >= 1
          BY <3>4
        <5>2. (m - (c + 1)) * B >= B
          BY <1>2, <5>1
        <5>3. (m - (c + 1)) * B = m * B - (c + 1) * B
          BY <1>2
        <5>. QED BY <1>2, <5>2, <5>3
      <4>2. recv_sizes'[p] = m * B
        <5>1. (c + 1) * B \in Nat /\ m * B \in Nat
          BY <1>2
        <5>. QED BY <1>2, <3>1, <3>2, <3>3, <4>1, <5>1
      <4>. QED BY <1>8, <3>2, <3>4, <4>2, c + 1 \in Nat DEF HasRoom
    <3>5. CASE c + 1 = m
      <4>1. recv_sizes'[p] = (m + 1) * B
        <5>1. m * B \in Nat /\ Len(r2) = m * B
          BY <1>2, <3>2, <3>5
        <5>. QED BY <3>1, <3>2, <3>3, <5>1
      <4>2. c + 1 \in Nat /\ m + 1 \in Nat \ {0} /\ c + 1 < m + 1
        BY <3>5
      <4>. QED BY <1>8, <3>2, <4>1, <4>2 DEF HasRoom
    <3>6. c + 1 < m \/ c + 1 = m
      BY <3>1
    <3>. QED BY <3>4, <3>5, <3>6
  <2>4. Flight(p)'
    <3>1. NextText(tx, 1, Len(r)) = 1 /\ NextOff(tx, 1, Len(r)) = Len(r2)
      BY <1>11, <2>1 DEF NextText, NextOff, t
    <3>2. RecvText(p)' = 1 /\ RecvOff(p)' = Len(r2)
      BY <1>2, <1>8, <2>1 DEF RecvText, RecvOff
    <3>3. SendText(p)' = SendText(p) /\ SendOff(p)' = SendOff(p)
      BY <1>1 DEF SendText, SendOff
    <3>. QED BY <1>4, <1>8, <3>1, <3>2, <3>3 DEF Flight
  <2>. QED BY <1>10, <2>2, <2>3, <2>4 DEF Consistent
<1>12. ASSUME ~(Len(r) + B <= Len(t) + 1) PROVE Consistent(p)'
  <2>1. ~recv_reqs'[p] /\ imin2(Len(r) + B, Len(t) + 1) = Len(t) + 1 /\ Len(msg) # B
    <3>1. Len(msg) # B
      BY <1>6, <1>12
    <3>2. imin2(Len(r) + B, Len(t) + 1) = Len(t) + 1
      BY <1>2, <1>4, <1>5, <1>12 DEF imin2
    <3>. QED BY <1>8, <3>1, <3>2
  <2>2. r2 = Ended(t) /\ Len(r2) = Len(t) + 1
    <3>1. Ended(t) \in Seq(Nat) /\ Len(Ended(t)) = Len(t) + 1
      BY <1>5, EndedText
    <3>2. SubSeq(Ended(t), 1, Len(Ended(t))) = Ended(t)
      BY <3>1, SubSeqFull
    <3>. QED BY <1>6, <2>1, <3>1, <3>2
  <2>3. Receives(p)'
    <3>1. \A k \in 1 .. Len(r2) - 1 : r2[k] # NUL
      <4>1. \A k \in 1 .. Len(r2) - 1 : k \in 1 .. Len(t)
        BY <1>5, <2>2
      <4>. QED BY <1>5, <2>2, <4>1, EndedText
    <3>. QED BY <1>2, <1>5, <1>8, <2>1, <2>2, <3>1 DEF Receives, t
  <2>4. HasRoom(p)'
    <3>1. PICK c \in Nat, m \in Nat \ {0} : recv_sizes[p] = m * B
      BY <1>2 DEF Consistent, HasRoom
    <3>2. recv_sizes'[p] = recv_sizes[p]
      BY <1>1, <1>2, <2>1 DEF FTyped
    <3>. QED BY <2>1, <3>1, <3>2 DEF HasRoom
  <2>5. Flight(p)'
    <3>1. NextText(tx, 1, Len(r)) = 2 /\ NextOff(tx, 1, Len(r)) = 0
      BY <1>12 DEF NextText, NextOff, t
    <3>2. RecvText(p)' = 2 /\ RecvOff(p)' = 0
      BY <1>2, <1>8, <2>1 DEF RecvText, RecvOff
    <3>3. SendText(p)' = SendText(p) /\ SendOff(p)' = SendOff(p)
      BY <1>1 DEF SendText, SendOff
    <3>. QED BY <1>4, <1>8, <3>1, <3>2, <3>3 DEF Flight
  <2>. QED BY <1>10, <2>3, <2>4, <2>5 DEF Consistent
<1>13. ASSUME NEW q \in Sender, q # p PROVE Consistent(q)'
  <2>1. /\ q \in Rank /\ channel'[q] = channel[q] /\ recv_output_buffers'[q] = recv_output_buffers[q]
        /\ recv_sizes'[q] = recv_sizes[q] /\ recv_reqs'[q] = recv_reqs[q]
    BY <1>1, <1>2, <1>13 DEF FTyped, Sender
  <2>. QED BY <1>1, <1>2, <2>1, Untouched DEF IInv
<1>. QED BY <1>9, <1>11, <1>12, <1>13 DEF IInv

-----------------------------------------------------------------------------
\* What fprintf takes of a text and its '\0' is the text.
LEMMA PrintsText == ASSUME NEW t \in Text PROVE CString(Ended(t)) = t
<1>. DEFINE e == Ended(t)
            n == Len(t)
            ends == {k \in 1 .. Len(e) : e[k] = NUL}
            first == CHOOSE k \in ends : \A j \in ends : k <= j
<1>1. /\ e \in Seq(Nat) /\ n \in Nat /\ Len(e) = n + 1 /\ e[n + 1] = NUL
      /\ \A k \in 1 .. n : e[k] = t[k] /\ t[k] \in Nat /\ t[k] # NUL
  BY EndedText
<1>2. t \in Seq(Nat)
  BY SeqMonotone, Char \subseteq Nat DEF Text, Char
<1>. HIDE DEF e
<1>3. ends = {n + 1}
  <2>1. \A k \in 1 .. n + 1 : k \in 1 .. n \/ k = n + 1
    BY <1>1
  <2>2. n + 1 \in 1 .. n + 1
    BY <1>1
  <2>. QED BY <1>1, <2>1, <2>2
<1>4. first = n + 1
  <2>1. \A k \in {n + 1} : k = n + 1 /\ \A j \in {n + 1} : k <= j
    BY <1>1
  <2>. HIDE DEF ends
  <2>. QED BY <1>3, <2>1
<1>5. CString(e) = SubSeq(e, 1, first - 1)
  <2>1. ends # {}
    BY <1>3
  <2>. QED BY <2>1 DEF CString
<1>6. SubSeq(e, 1, n) = t
  <2>1. \A k \in 1 .. n : e[k] \in Nat
    BY <1>1
  <2>2. /\ SubSeq(e, 1, n) \in Seq(Nat) /\ Len(SubSeq(e, 1, n)) = (IF 1 <= n THEN n - 1 + 1 ELSE 0)
        /\ \A k \in 1 .. n - 1 + 1 : SubSeq(e, 1, n)[k] = e[1 + k - 1]
    BY <1>1, <2>1, SubSeqProperties, 1 \in Int
  <2>3. Len(SubSeq(e, 1, n)) = n
    BY <1>1, <2>2
  <2>4. \A k \in 1 .. n : SubSeq(e, 1, n)[k] = t[k]
    <3>1. \A k \in 1 .. n : k \in 1 .. n - 1 + 1 /\ 1 + k - 1 = k
      BY <1>1
    <3>. QED BY <1>1, <2>2, <3>1
  <2>. QED BY <1>2, <2>2, <2>3, <2>4, SeqEqual
<1>7. first - 1 = n
  BY <1>1, <1>4
<1>. QED BY <1>5, <1>6, <1>7 DEF e

\* When all short messages are there every rank's first text is.
LEMMA TextsThere ==
  ASSUME IInv, PrintReceived, NEW p \in Sender
  PROVE  /\ p \in Rank /\ p # OutputRank /\ closed[p] \in Seq(Text) /\ closed[p] # << >>
         /\ Head(closed[p]) \in Text
         /\ CString(recv_output_buffers[p]) = Head(closed[p])
         /\ ~recv_reqs[p] /\ Receiving
<1>1. p \in Rank /\ p # OutputRank /\ ~recv_reqs[p] /\ Receiving
  BY DEF Sender, PrintReceived, Receiving
<1>2. /\ closed[p] \in Seq(Text) /\ closed[p] # << >>
      /\ recv_output_buffers[p] = Ended(closed[p][1])
  BY <1>1 DEF IInv, FTyped, Consistent, Receives
<1>3. Head(closed[p]) = closed[p][1]
  OBVIOUS
<1>4. Head(closed[p]) \in Text
  BY <1>2, HeadTailProperties
<1>. QED BY <1>1, <1>2, <1>3, <1>4, PrintsText

LEMMA PrintReceivedIInv == ASSUME IInv, PrintReceived PROVE IInv'
<1>. DEFINE written == [k \in 1 .. Cardinality(Sender) |->
              LET p == InOrder(Sender)[k] IN <<p, CString(recv_output_buffers[p])>>]
<1>1. /\ pc[OutputRank] = "receiving" /\ pc' = [pc EXCEPT ![OutputRank] = "work"]
      /\ output_file' = output_file \o written
      /\ closed' = [p \in Rank |-> IF p \in Sender THEN Tail(closed[p]) ELSE closed[p]]
      /\ UNCHANGED <<flushes, printed, output_buffer, i, channel, recv_output_buffers,
                     recv_sizes, recv_reqs>>
  BY DEF PrintReceived, Goto, senderVars, receiverVars
<1>2. /\ OutputRank \in Rank /\ Sender \in SUBSET Nat /\ IsFiniteSet(Sender)
      /\ Cardinality(Sender) \in Nat
  BY RanksOrdered, FS_Subset, FS_CardinalityType DEF Sender
<1>3. Receiving /\ ~Receiving'
  BY <1>1, <1>2 DEF IInv, FTyped, Receiving
<1>4. written \in Seq(Rank \X Seq(Nat))
  <2>1. ASSUME NEW k \in 1 .. Cardinality(Sender)
        PROVE  <<InOrder(Sender)[k], CString(recv_output_buffers[InOrder(Sender)[k]])>> \in Rank \X Seq(Nat)
    <3>1. InOrder(Sender)[k] \in Sender
      BY <1>2, InOrderSelects
    <3>2. /\ InOrder(Sender)[k] \in Rank
          /\ CString(recv_output_buffers[InOrder(Sender)[k]]) \in Text
      BY <3>1, TextsThere
    <3>3. \A t \in Text : t \in Seq(Nat)
      BY SeqMonotone, Char \subseteq Nat DEF Text, Char
    <3>. QED BY <3>2, <3>3
  <2>. QED BY <1>2, <2>1
<1>. HIDE DEF written
<1>5. ASSUME NEW p \in Sender
      PROVE  /\ closed'[p] = Tail(closed[p]) /\ Tail(closed[p]) \in Seq(Text)
             /\ closed[p] \in Seq(Text) /\ closed[p] # << >> /\ p \in Rank /\ p # OutputRank
             /\ Len(closed[p]) \in Nat /\ Len(Tail(closed[p])) = Len(closed[p]) - 1
             /\ \A k \in 1 .. Len(closed[p]) - 1 : Tail(closed[p])[k] = closed[p][k + 1]
  <2>1. closed[p] \in Seq(Text) /\ closed[p] # << >> /\ p \in Rank /\ p # OutputRank
    BY TextsThere
  <2>2. Len(closed[p]) \in Nat
    BY <2>1, LenProperties
  <2>. QED BY <1>1, <2>1, <2>2, HeadTailProperties
<1>6. FTyped'
  <2>1. output_file' \in Seq(Rank \X Seq(Nat))
    BY <1>1, <1>4, ConcatProperties DEF IInv, FTyped
  <2>2. closed' \in [Rank -> Seq(Text)]
    BY <1>1, <1>5 DEF IInv, FTyped
  <2>. QED BY <1>1, <1>2, <2>1, <2>2 DEF IInv, FTyped
<1>7. ASSUME NEW p \in Sender PROVE Consistent(p)'
  <2>1. Consistent(p) /\ ~recv_reqs[p] /\ ~recv_reqs'[p] /\ pc'[p] = pc[p]
    BY <1>1, <1>5, TextsThere DEF IInv, FTyped
  <2>2. SendText(p) \in Nat /\ SendText(p) >= 2
        /\ Linked(channel[p], Tail(closed[p]), 1, 0, SendText(p) - 1, SendOff(p))
    <3>1. RecvText(p) = 2 /\ RecvOff(p) = 0
      BY <1>3, <2>1 DEF RecvText, RecvOff
    <3>2. channel[p] \in Seq(Seq(Nat)) /\ SendText(p) \in Nat
      BY <1>5 DEF IInv, FTyped, SendText
    <3>3. Linked(channel[p], closed[p], 2, 0, SendText(p), SendOff(p))
      BY <2>1, <3>1 DEF Consistent, Flight
    <3>4. Linked(channel[p], Tail(closed[p]), 2 - 1, 0, SendText(p) - 1, SendOff(p)) /\ 2 <= SendText(p)
      BY <1>5, <3>2, <3>3, LinkPublish
    <3>. QED BY <3>2, <3>4, 2 - 1 = 1
  <2>3. Sends(p)'
    <3>1. CASE pc[p] = "work"
      BY <1>1, <2>1, <3>1 DEF Sends
    <3>2. CASE pc[p] # "work"
      <4>1. Len(closed[p]) >= 2
        BY <2>2, <3>2 DEF SendText
      <4>2. Len(closed[p]) - 1 \in 1 .. Len(closed[p]) - 1 /\ Len(closed[p]) - 1 + 1 = Len(closed[p])
        BY <1>5, <4>1
      <4>3. Tail(closed[p])[Len(Tail(closed[p]))] = closed[p][Len(closed[p])]
        BY <1>5, <4>2
      <4>4. Tail(closed[p]) # << >>
        <5>1. Len(<< >>) = 0
          OBVIOUS
        <5>2. Len(Tail(closed[p])) = Len(closed[p]) - 1 /\ Len(closed[p]) \in Nat
          BY <1>5
        <5>3. \A x \in Nat : x >= 2 => x - 1 # 0
          OBVIOUS
        <5>4. Len(Tail(closed[p])) # 0
          BY <4>1, <5>2, <5>3
        <5>. QED BY <5>1, <5>4
      <4>. QED BY <1>1, <1>5, <2>1, <4>3, <4>4 DEF Consistent, Sends
    <3>. QED BY <3>1, <3>2
  <2>4. Receives(p)'
    BY <1>1, <1>3, <2>1 DEF Consistent, Receives
  <2>5. HasRoom(p)'
    BY <1>1, <2>1 DEF Consistent, HasRoom
  <2>6. Flight(p)'
    <3>1. RecvText(p)' = 1 /\ RecvOff(p)' = 0
      BY <1>3, <2>1 DEF RecvText, RecvOff
    <3>2. SendText(p)' = SendText(p) - 1 /\ SendOff(p)' = SendOff(p)
      <4>1. Len(closed'[p]) = Len(closed[p]) - 1 /\ Len(closed[p]) \in Nat /\ i'[p] = i[p]
        BY <1>1, <1>5
      <4>2. Len(closed'[p]) + 1 = Len(closed[p]) + 1 - 1
        BY <4>1
      <4>. QED BY <2>1, <4>1, <4>2 DEF SendText, SendOff
    <3>. QED BY <1>1, <1>5, <2>2, <3>1, <3>2 DEF Flight
  <2>. QED BY <2>3, <2>4, <2>5, <2>6 DEF Consistent
<1>. QED BY <1>6, <1>7 DEF IInv

LEMMA StutterIInv == ASSUME IInv, UNCHANGED vars PROVE IInv'
<1>1. FTyped' /\ UNCHANGED Receiving
  BY DEF vars, senderVars, receiverVars, IInv, FTyped, Receiving
<1>2. ASSUME NEW q \in Sender PROVE Consistent(q)'
  BY <1>1, Untouched DEF vars, senderVars, receiverVars, IInv
<1>. QED BY <1>1, <1>2 DEF IInv

\* The inductive invariant holds in every behaviour.
THEOREM Invariance == Spec => []IInv
<1>1. ASSUME IInv, [Next]_vars PROVE IInv'
  <2>1. ASSUME NEW p \in Rank, print_output(p) PROVE IInv'
    BY <1>1, <2>1, PrintIInv
  <2>2. ASSUME NEW p \in Sender, SenderStep(p) PROVE IInv'
    BY <1>1, <2>2, BeginSendIInv, SendChunkIInv, SendEmptyIInv DEF SenderStep
  <2>3. CASE ReceiverStep
    BY <1>1, <2>3, BeginReceiveIInv, WaitanyIInv, PrintReceivedIInv DEF ReceiverStep
  <2>4. CASE Terminated \/ UNCHANGED vars
    BY <1>1, <2>4, StutterIInv DEF Terminated
  <2>. QED BY <1>1, <2>1, <2>2, <2>3, <2>4 DEF Next
<1>. QED BY <1>1, InitIInv, PTL DEF Spec

-----------------------------------------------------------------------------
LEMMA MessagesFit ==
  ASSUME NEW ch \in Seq(Seq(Nat)), NEW tx \in Seq(Text), NEW rd, NEW ro, NEW sd, NEW so,
         Linked(ch, tx, rd, ro, sd, so), NEW k \in 1 .. Len(ch)
  PROVE  Len(ch[k]) <= B
<1>1. PICK text \in [1 .. Len(ch) + 1 -> Nat], off \in [1 .. Len(ch) + 1 -> Nat] :
        Chain(ch, tx, text, off)
  BY DEF Linked
<1>2. /\ text[k] \in 1 .. Len(tx) /\ off[k] <= Len(tx[text[k]]) + 1
      /\ ch[k] = Message(tx[text[k]], off[k])
  BY <1>1 DEF Chain
<1>3. off[k] \in Nat
  <2>1. k \in 1 .. Len(ch) + 1
    BY LenProperties
  <2>. QED BY <2>1
<1>4. tx[text[k]] \in Text
  BY <1>2, ElementOfSeq
<1>. QED BY <1>2, <1>3, <1>4, MessageOf

\* The variables of print_output and flush_output keep their types, and no message is
\* longer than what output_rank has posted a receive for.
THEOREM TypeCorrect == Spec => []TypeOK
<1>1. ASSUME IInv PROVE TypeOK
  <2>1. Text \subseteq Seq(Chars)
    <3>1. \A t \in Text : t \in Seq(Nat)
      BY SeqMonotone, Char \subseteq Nat DEF Text, Char
    <3>. QED BY <3>1 DEF Chars
  <2>2. \A s \in Seq(Text) : s \in Seq(Seq(Chars))
    BY <2>1, SeqMonotone
  <2>3. ASSUME NEW p \in Rank, NEW m \in ToSet(channel[p]) PROVE Len(m) <= B
    <3>1. channel[p] \in Seq(Seq(Nat)) /\ closed[p] \in Seq(Text)
      BY <1>1 DEF IInv, FTyped
    <3>2. PICK k \in 1 .. Len(channel[p]) : m = channel[p][k]
      BY <2>3, <3>1, LenProperties DEF ToSet
    <3>3. p \in Sender
      <4>1. Len(<< >>) = 0
        OBVIOUS
      <4>. QED BY <1>1, <3>2, <4>1 DEF IInv, FTyped, Sender
    <3>. QED BY <1>1, <3>1, <3>2, <3>3, MessagesFit DEF IInv, Consistent, Flight
  <2>4. /\ output_buffer \in [Rank -> Seq(Chars)] /\ closed \in [Rank -> Seq(Seq(Chars))]
    BY <1>1, <2>1, <2>2 DEF IInv, FTyped
  <2>. QED BY <1>1, <2>3, <2>4 DEF IInv, FTyped, TypeOK, Chars
<1>. QED BY <1>1, Invariance, PTL

\* For every size of a message and length of a text a posted receive has room behind
\* what has come, and a receive buffer never holds the texts of two calls.
THEOREM ReceiveBuffersCorrect == Spec => []ReceiveBuffersHold
<1>1. ASSUME IInv, NEW p \in Sender
      PROVE  /\ recv_reqs[p] => Len(recv_output_buffers[p]) + B <= recv_sizes[p]
             /\ LET s == recv_output_buffers[p]
                IN /\ \A k \in 1 .. Len(s) - 1 : s[k] # NUL
                   /\ pc[OutputRank] = "receiving" /\ ~recv_reqs[p] => s # << >> /\ s[Len(s)] = NUL
  <2>1. Consistent(p) /\ p \in Rank /\ closed[p] \in Seq(Text)
    BY <1>1 DEF IInv, FTyped, Sender
  <2>2. ASSUME recv_reqs[p] PROVE Len(recv_output_buffers[p]) + B <= recv_sizes[p]
    <3>1. PICK c \in Nat, m \in Nat \ {0} :
            recv_sizes[p] = m * B /\ Len(recv_output_buffers[p]) = c * B /\ c < m
      BY <2>1, <2>2 DEF Consistent, HasRoom
    <3>2. m - c \in Nat /\ m - c >= 1
      BY <3>1
    <3>3. (m - c) * B >= B
      BY <3>2, Size
    <3>4. (m - c) * B = m * B - c * B
      BY Size
    <3>. QED BY <3>1, <3>3, <3>4, Size
  <2>3. ASSUME pc[OutputRank] = "receiving", ~recv_reqs[p]
        PROVE  recv_output_buffers[p] # << >> /\ recv_output_buffers[p][Len(recv_output_buffers[p])] = NUL
    <3>1. closed[p] # << >> /\ recv_output_buffers[p] = Ended(closed[p][1])
      BY <2>1, <2>3 DEF Consistent, Receives, Receiving
    <3>2. closed[p][1] \in Text
      <4>1. 1 \in 1 .. Len(closed[p])
        BY <2>1, <3>1, EmptySeq
      <4>. QED BY <2>1, <4>1, ElementOfSeq
    <3>3. Len(<< >>) = 0
      OBVIOUS
    <3>. QED BY <3>1, <3>2, <3>3, EndedText
  <2>. QED BY <2>1, <2>2, <2>3 DEF Consistent, Receives
<1>2. IInv => ReceiveBuffersHold
  BY <1>1 DEF ReceiveBuffersHold, ReceiveFits, OneCallPerBuffer
<1>. QED BY <1>2, Invariance, PTL

-----------------------------------------------------------------------------
(* The refinement of OutputLog, step by step. *)

Open == [p \in Rank |-> IF pc[p] = "work" THEN output_buffer[p] ELSE << >>]

LEMMA OpenAfter ==
  ASSUME FTyped, FTyped', NEW p \in Rank, NEW v, NEW o,
         pc' = [pc EXCEPT ![p] = v], output_buffer' = [output_buffer EXCEPT ![p] = o]
  PROVE  Open' = [Open EXCEPT ![p] = IF v = "work" THEN o ELSE << >>]
<1>1. \A q \in Rank : q # p => pc'[q] = pc[q] /\ output_buffer'[q] = output_buffer[q]
  BY DEF FTyped
<1>2. pc'[p] = v /\ output_buffer'[p] = o
  BY DEF FTyped
<1>. QED BY <1>1, <1>2 DEF Open

LEMMA RefinesInit == Init => Promise!Init
<1>. SUFFICES ASSUME Init PROVE Promise!Init
  OBVIOUS
<1>1. Open = [p \in Rank |-> << >>]
  BY DEF Init, Open
<1>. QED BY <1>1 DEF Init, Promise!Init, Open

\* print_output keeps the text, or writes it through.
LEMMA RefinesPrint ==
  ASSUME NEW p \in Rank, IInv, IInv', print_output(p)
  PROVE  (\E q \in Rank : Promise!Keep(q)) \/ Promise!WriteThrough
<1>1. pc[p] = "work" /\ UNCHANGED <<pc, closed>>
  BY DEF print_output
<1>2. PICK length \in 1 .. MaxText - printed[p] :
        LET text == [k \in 1 .. length |-> printed[p] + k]
        IN IF p = OutputRank
           THEN /\ output_file' = Append(output_file, <<p, text>>)
                /\ UNCHANGED output_buffer
           ELSE /\ output_buffer' = [output_buffer EXCEPT ![p] = @ \o text]
                /\ UNCHANGED output_file
  BY DEF print_output
<1>. DEFINE text == [k \in 1 .. length |-> printed[p] + k]
<1>3. printed[p] \in Nat /\ output_buffer[p] \in Seq(Nat) /\ length \in Nat \ {0}
  <2>1. output_buffer[p] \in Text /\ printed[p] \in Nat
    BY BoundsNatural DEF IInv, FTyped
  <2>2. length \in Nat \ {0}
    BY <2>1, BoundsNatural
  <2>. QED BY <2>1, <2>2, SeqMonotone, Char \subseteq Nat DEF Text, Char
<1>4. text \in Seq(Nat) /\ Len(text) = length
  <2>1. \A k \in 1 .. length : printed[p] + k \in Nat
    BY <1>3
  <2>. QED BY <1>3, <2>1
<1>. HIDE DEF text
<1>5. CASE p = OutputRank
  <2>1. /\ output_file' = Append(output_file, <<p, text>>) /\ UNCHANGED output_buffer
    BY <1>2, <1>5 DEF text
  <2>2. Open' = Open
    BY <1>1, <2>1 DEF Open
  <2>. DEFINE S == Rank \X Seq(Nat)
  <2>3. output_file \in Seq(S) /\ <<p, text>> \in S /\ Len(output_file) \in Nat
    BY <1>4, LenProperties DEF IInv, FTyped
  <2>4. /\ Len(output_file') = Len(output_file) + 1 /\ output_file' \in Seq(S)
        /\ output_file'[Len(output_file) + 1] = <<p, text>>
        /\ \A k \in 1 .. Len(output_file) : output_file'[k] = output_file[k]
    BY <2>1, <2>3, AppendProperties
  <2>5. SubSeq(output_file, 1, Len(output_file)) = SubSeq(output_file', 1, Len(output_file))
    <3>1. \A k \in 1 .. Len(output_file) : output_file[k] \in S /\ output_file'[k] \in S
      BY <2>3, <2>4, ElementOfSeq
    <3>2. /\ SubSeq(output_file, 1, Len(output_file)) \in Seq(S)
          /\ Len(SubSeq(output_file, 1, Len(output_file))) =
               IF 1 <= Len(output_file) THEN Len(output_file) - 1 + 1 ELSE 0
          /\ \A k \in 1 .. Len(output_file) - 1 + 1 :
               SubSeq(output_file, 1, Len(output_file))[k] = output_file[1 + k - 1]
      BY <2>3, <3>1, SubSeqProperties, 1 \in Int
    <3>3. /\ SubSeq(output_file', 1, Len(output_file)) \in Seq(S)
          /\ Len(SubSeq(output_file', 1, Len(output_file))) =
               IF 1 <= Len(output_file) THEN Len(output_file) - 1 + 1 ELSE 0
          /\ \A k \in 1 .. Len(output_file) - 1 + 1 :
               SubSeq(output_file', 1, Len(output_file))[k] = output_file'[1 + k - 1]
      BY <2>3, <3>1, SubSeqProperties, 1 \in Int
    <3>4. \A k \in 1 .. Len(SubSeq(output_file, 1, Len(output_file))) :
            k \in 1 .. Len(output_file) /\ k \in 1 .. Len(output_file) - 1 + 1 /\ 1 + k - 1 = k
      BY <2>3, <3>2
    <3>. QED BY <2>4, <3>2, <3>3, <3>4, SeqEqual
  <2>6. IsStrictPrefix(output_file, output_file')
    <3>1. output_file # output_file' /\ Len(output_file) <= Len(output_file')
      BY <2>3, <2>4
    <3>. QED BY <2>5, <3>1 DEF IsStrictPrefix, IsPrefix
  <2>7. \A k \in Len(output_file) + 1 .. Len(output_file') : output_file'[k][1] = OutputRank
    <3>1. \A k \in Len(output_file) + 1 .. Len(output_file') : k = Len(output_file) + 1
      BY <2>3, <2>4
    <3>2. <<p, text>>[1] = OutputRank
      BY <1>5
    <3>. QED BY <2>4, <3>1, <3>2
  <2>8. Promise!WriteThrough
    BY <1>1, <2>2, <2>6, <2>7 DEF Promise!WriteThrough, Promise!IsStrictPrefix, Promise!IsPrefix, IsStrictPrefix, IsPrefix, Open
  <2>. QED BY <2>8
<1>6. CASE p # OutputRank
  <2>. DEFINE b == output_buffer[p]
  <2>1. output_buffer' = [output_buffer EXCEPT ![p] = b \o text] /\ UNCHANGED output_file
    BY <1>2, <1>6 DEF text
  <2>2. Open[p] = b /\ Open'[p] = b \o text /\ Open' = [Open EXCEPT ![p] = b \o text]
    <3>1. output_buffer'[p] = b \o text /\ \A q \in Rank : q # p => output_buffer'[q] = output_buffer[q]
      BY <2>1 DEF IInv, FTyped
    <3>. QED BY <1>1, <3>1 DEF Open
  <2>3. IsStrictPrefix(b, b \o text)
    <3>1. /\ Len(b \o text) = Len(b) + length /\ Len(b) \in Nat
      BY <1>3, <1>4, ConcatProperties, LenProperties
    <3>2. b # b \o text /\ Len(b) <= Len(b \o text)
      BY <1>3, <3>1
    <3>3. SubSeq(b, 1, Len(b)) = SubSeq(b \o text, 1, Len(b))
      <4>1. CASE Len(b) = 0
        BY <4>1, SubSeqEmpty
      <4>2. CASE Len(b) # 0
        <5>1. 1 \in 1 .. Len(b) /\ Len(b) \in 1 .. Len(b)
          BY <3>1, <4>2
        <5>. QED BY <1>3, <1>4, <5>1, SubSeqOfConcat1
      <4>. QED BY <4>1, <4>2
    <3>. QED BY <3>2, <3>3 DEF IsStrictPrefix, IsPrefix
  <2>4. Promise!Keep(p)
    BY <1>1, <1>6, <2>1, <2>2, <2>3 DEF Promise!Keep, Promise!Sender, Promise!IsStrictPrefix, Promise!IsPrefix, IsStrictPrefix, IsPrefix, Open
  <2>. QED BY <2>4
<1>. QED BY <1>5, <1>6

\* The call of flush_output closes the text.
LEMMA RefinesBeginSend ==
  ASSUME NEW p \in Sender, IInv, IInv', BeginSend(p)
  PROVE  Promise!Close(p)
<1>1. /\ p \in Rank /\ p # OutputRank /\ pc[p] = "work" /\ pc' = [pc EXCEPT ![p] = "sending"]
      /\ closed' = [closed EXCEPT ![p] = Append(@, output_buffer[p])]
      /\ UNCHANGED <<output_buffer, output_file>>
  BY DEF BeginSend, Goto, Sender
<1>2. Open[p] = output_buffer[p] /\ Open' = [Open EXCEPT ![p] = << >>]
  <2>1. pc'[p] = "sending" /\ \A q \in Rank : q # p => pc'[q] = pc[q]
    BY <1>1 DEF IInv, FTyped
  <2>. QED BY <1>1, <2>1 DEF Open
<1>3. closed' = [closed EXCEPT ![p] = Append(@, Open[p])]
  BY <1>1, <1>2
<1>. QED BY <1>1, <1>2, <1>3 DEF Promise!Close, Promise!Sender, Open

\* When all texts are there they are written, in rank order.
LEMMA RefinesPrintReceived ==
  ASSUME IInv, IInv', PrintReceived
  PROVE  Promise!Publish
<1>1. /\ pc[OutputRank] = "receiving" /\ pc' = [pc EXCEPT ![OutputRank] = "work"]
      /\ output_file' = output_file \o
           [k \in 1 .. Cardinality(Sender) |->
              LET p == InOrder(Sender)[k] IN <<p, CString(recv_output_buffers[p])>>]
      /\ closed' = [p \in Rank |-> IF p \in Sender THEN Tail(closed[p]) ELSE closed[p]]
      /\ UNCHANGED output_buffer
  BY DEF PrintReceived, Goto, senderVars
<1>2. /\ OutputRank \in Rank /\ Sender \in SUBSET Nat /\ IsFiniteSet(Sender)
  BY RanksOrdered, FS_Subset DEF Sender
<1>3. Open' = Open
  <2>1. \A q \in Rank : q # OutputRank => pc'[q] = pc[q]
    BY <1>1, <1>2 DEF IInv, FTyped
  <2>2. output_buffer[OutputRank] = << >>
    BY DEF IInv, FTyped
  <2>. QED BY <1>1, <2>1, <2>2 DEF Open
<1>4. ASSUME NEW k \in 1 .. Cardinality(Sender)
      PROVE  <<InOrder(Sender)[k], CString(recv_output_buffers[InOrder(Sender)[k]])>>
               = <<InOrder(Sender)[k], Head(closed[InOrder(Sender)[k]])>>
  <2>1. InOrder(Sender)[k] \in Sender
    BY <1>2, InOrderSelects
  <2>. QED BY <2>1, TextsThere
<1>5. [k \in 1 .. Cardinality(Sender) |->
         LET p == InOrder(Sender)[k] IN <<p, CString(recv_output_buffers[p])>>]
      = [k \in 1 .. Cardinality(Sender) |->
         LET p == InOrder(Sender)[k] IN <<p, Head(closed[p])>>]
  BY <1>4
<1>6. \A p \in Sender : closed[p] # << >>
  BY TextsThere
<1>7. /\ Promise!Sender = Sender /\ Promise!InOrder(Sender) = InOrder(Sender)
      /\ Promise!Cardinality(Sender) = Cardinality(Sender)
  <2>1. \A S : Promise!Cardinality(S) = Cardinality(S)
    BY DEF Promise!Cardinality, Cardinality
  <2>2. Promise!InOrder(Sender) = InOrder(Sender)
    BY DEF Promise!InOrder, InOrder, Promise!Cardinality, Cardinality
  <2>. QED BY <2>1, <2>2 DEF Promise!Sender, Sender
<1>8. output_file' = output_file \o
        [k \in 1 .. Promise!Cardinality(Promise!Sender) |->
           LET p == Promise!InOrder(Promise!Sender)[k] IN <<p, Head(closed[p])>>]
  BY <1>1, <1>5, <1>7
<1>9. closed' = [p \in Rank |-> IF p \in Promise!Sender THEN Tail(closed[p]) ELSE closed[p]]
      /\ \A p \in Promise!Sender : closed[p] # << >>
  BY <1>1, <1>6, <1>7
<1>. QED BY <1>3, <1>8, <1>9 DEF Promise!Publish, Open

\* All that goes on inside the call changes nothing of what it promises.
LEMMA RefinesInside ==
  ASSUME IInv, IInv',
         \/ \E p \in Sender : SendChunk(p) \/ SendEmpty(p) \/ Waitany(p)
         \/ BeginReceive \/ UNCHANGED vars
  PROVE  UNCHANGED <<Open, closed, output_file>>
<1>1. ASSUME NEW p \in Sender, SendChunk(p) \/ SendEmpty(p)
      PROVE  UNCHANGED <<Open, closed, output_file>>
  <2>1. p \in Rank /\ pc[p] # "work" /\ UNCHANGED <<closed, output_file>>
    BY <1>1 DEF SendChunk, SendEmpty, Sender
  <2>2. \/ UNCHANGED <<pc, output_buffer>>
        \/ pc' = [pc EXCEPT ![p] = "closing"] /\ UNCHANGED output_buffer
        \/ /\ pc' = [pc EXCEPT ![p] = "work"]
           /\ output_buffer' = [output_buffer EXCEPT ![p] = << >>]
    BY <1>1 DEF SendChunk, SendEmpty, EndSend, Goto
  <2>3. /\ \A q \in Rank : q # p => pc'[q] = pc[q] /\ output_buffer'[q] = output_buffer[q]
        /\ pc'[p] = "work" => output_buffer'[p] = << >>
    BY <2>1, <2>2 DEF IInv, FTyped
  <2>4. Open' = Open
    BY <2>1, <2>3 DEF Open
  <2>. QED BY <2>1, <2>4
<1>2. CASE (\E p \in Sender : Waitany(p)) \/ UNCHANGED vars
  BY <1>2 DEF Waitany, vars, senderVars, Open
<1>3. CASE BeginReceive
  <2>1. /\ pc' = [pc EXCEPT ![OutputRank] = "receiving"]
        /\ UNCHANGED <<output_buffer, closed, output_file>>
    BY <1>3 DEF BeginReceive, Goto, senderVars
  <2>2. (\A q \in Rank : q # OutputRank => pc'[q] = pc[q]) /\ output_buffer[OutputRank] = << >>
    BY <2>1, RanksOrdered DEF IInv, FTyped
  <2>. QED BY <2>1, <2>2 DEF Open
<1>. QED BY <1>1, <1>2, <1>3

\* flush_output keeps what it promises: the file gets, call by call and rank by rank,
\* every text once, whole and in order, for any number of ranks, texts of any length
\* and senders any number of calls ahead.
THEOREM FlushKeepsPromise == Spec => KeepsPromise
<1>1. Init => Promise!Init
  BY RefinesInit
<1>2. ASSUME IInv, IInv', [Next]_vars PROVE [Promise!Next]_<<Open, closed, output_file>>
  <2>1. ASSUME NEW p \in Rank, print_output(p) PROVE Promise!Next
    BY <1>2, <2>1, RefinesPrint DEF Promise!Next
  <2>2. ASSUME NEW p \in Sender, BeginSend(p) PROVE Promise!Next
    <3>1. p \in Rank
      BY DEF Sender
    <3>. QED BY <1>2, <2>2, <3>1, RefinesBeginSend DEF Promise!Next
  <2>3. CASE PrintReceived
    BY <1>2, <2>3, RefinesPrintReceived DEF Promise!Next
  <2>4. CASE \/ \E p \in Sender : SendChunk(p) \/ SendEmpty(p) \/ Waitany(p)
             \/ BeginReceive \/ UNCHANGED vars
    BY <1>2, <2>4, RefinesInside
  <2>. QED BY <1>2, <2>1, <2>2, <2>3, <2>4 DEF Next, SenderStep, ReceiverStep, Terminated
<1>3. IInv /\ IInv' /\ [Next]_vars =>
        [Promise!Next]_<<[p \in Rank |-> IF pc[p] = "work" THEN output_buffer[p] ELSE << >>],
                         closed, output_file>>
  BY <1>2 DEF Open
<1>. QED BY <1>1, <1>3, Invariance, PTL DEF Spec, KeepsPromise, Promise!Spec
=============================================================================
