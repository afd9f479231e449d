--------------------------- MODULE TimeDiff_proof ---------------------------
(***************************************************************************)
(* Proofs about TimeDiff, for every set of processes and communicators,    *)
(* every offset of the clocks, every Slack and any number of calls.        *)
(*                                                                         *)
(* The error of two comparisons is the invariant wanted; it is inductive   *)
(* only with what is known of the values it is computed from: the entries  *)
(* for the root come from one comparison and the others' updates leave     *)
(* them alone (Compared), and so do the root's own entries until they are  *)
(* broadcast (RootKnows) and the ones that are on their way (Sent).  The   *)
(* entry of a process for itself is right until an update as somebody      *)
(* else's partner has determined it (OwnZero), within two comparisons.     *)
(***************************************************************************)
EXTENDS TimeDiff, TLAPS

Near(x, d, s) == x - d <= s /\ d - x <= s

CommValid == (phase # "idle" \/ comm # << >>) => comm \in Comms

Compared ==
  \A r \in 1 .. Len(comm) - 1 : phase # "compare" \/ r < i =>
    Near(tds[comm[r + 1]][comm[1]], TrueDiff(comm[r + 1], comm[1]), Slack)

RootKnows ==
  phase = "compare" => \A r \in 1 .. Len(comm) - 1 : r < i =>
    Near(tds[comm[1]][comm[r + 1]], TrueDiff(comm[1], comm[r + 1]), Slack)

Sent ==
  phase = "update" =>
    /\ tmp_tds \in [1 .. Len(comm) - 1 -> Int]
    /\ \A r \in 1 .. Len(comm) - 1 :
         Near(tmp_tds[r], TrueDiff(comm[1], comm[r + 1]), Slack)

Bounded ==
  \A p, q \in Node : <<p, q>> \in known => Near(tds[p][q], TrueDiff(p, q), 2 * Slack)

OwnZero == \A p \in Node : <<p, p>> \notin known => tds[p][p] = 0

IInv == TypeOK /\ CommValid /\ Compared /\ RootKnows /\ Sent /\ Bounded /\ OwnZero

-----------------------------------------------------------------------------
\* A communicator has its processes in different places.
LEMMA CommRanks ==
  ASSUME TypeOK, CommValid, comm # << >>
  PROVE  /\ Len(comm) \in Nat /\ Len(comm) >= 1 /\ comm[1] \in Node
         /\ \A r \in 1 .. Len(comm) - 1 : comm[r + 1] \in Node /\ comm[r + 1] # comm[1]
         /\ \A q \in Others : /\ q \in Node /\ q # comm[1]
                              /\ RankOf(q) \in 1 .. Len(comm) - 1
                              /\ comm[RankOf(q) + 1] = q
<1>1. comm \in Comms /\ comm \in Seq(Node) /\ Len(comm) >= 1
  BY CommsOfNodes DEF TypeOK, CommValid
<1>2. \A j, k \in 1 .. Len(comm) : comm[j] = comm[k] => j = k
  BY <1>1, CommsOfNodes
<1>3. /\ Len(comm) \in Nat /\ comm[1] \in Node
      /\ \A r \in 1 .. Len(comm) - 1 : comm[r + 1] \in Node /\ comm[r + 1] # comm[1]
  BY <1>1, <1>2
<1>4. ASSUME NEW q \in Others
      PROVE  RankOf(q) \in 1 .. Len(comm) - 1 /\ comm[RankOf(q) + 1] = q
  <2>1. \E r \in 1 .. Len(comm) - 1 : comm[r + 1] = q
    BY <1>4 DEF Others, get_global_rank
  <2>. QED BY <2>1 DEF RankOf, get_global_rank
<1>5. \A q \in Others : q \in Node /\ q # comm[1]
  BY <1>3, <1>4
<1>. QED BY <1>1, <1>3, <1>4, <1>5

LEMMA InitIInv == Init => IInv
<1>. SUFFICES ASSUME Init PROVE IInv
  OBVIOUS
<1>1. Len(<< >>) = 0 /\ << >> \in Seq(Node) /\ << >> \in Seq(Int)
  OBVIOUS
<1>2. TypeOK
  BY <1>1 DEF Init, TypeOK
<1>3. CommValid /\ RootKnows /\ Sent /\ Bounded /\ OwnZero
  BY DEF Init, CommValid, RootKnows, Sent, Bounded, OwnZero
<1>4. Compared
  BY <1>1 DEF Init, Compared
<1>. QED BY <1>2, <1>3, <1>4 DEF IInv

-----------------------------------------------------------------------------
LEMMA BeginIInv == IInv /\ Begin => IInv'
<1>. SUFFICES ASSUME IInv, Begin PROVE IInv'
  OBVIOUS
<1>1. comm' \in Comms /\ comm' \in Seq(Node) /\ << >> \in Seq(Int)
  BY CommsOfNodes DEF Begin
<1>2. TypeOK'
  BY <1>1 DEF IInv, TypeOK, Begin
<1>3. CommValid' /\ Sent'
  BY <1>1 DEF Begin, CommValid, Sent
<1>4. Compared' /\ RootKnows'
  BY DEF Begin, Compared, RootKnows
<1>5. Bounded' /\ OwnZero'
  BY DEF IInv, Begin, Bounded, OwnZero, TrueDiff
<1>. QED BY <1>2, <1>3, <1>4, <1>5 DEF IInv

\* Two entries change, each to the outcome of one comparison.
LEMMA CompareIInv == IInv /\ Compare => IInv'
<1>. SUFFICES ASSUME IInv, Compare PROVE IInv'
  OBVIOUS
<1>. DEFINE q == get_global_rank(i)
            p == root
<1>1. comm \in Comms /\ comm # << >> /\ i \in 1 .. Len(comm) - 1
  <2>1. comm \in Comms /\ i < Len(comm) /\ i \in Nat \ {0} /\ comm \in Seq(Node)
    BY DEF IInv, TypeOK, CommValid, Compare
  <2>. QED BY <2>1
<1>2. /\ p = comm[1] /\ q = comm[i + 1]
      /\ p \in Node /\ q \in Node /\ q # p /\ Len(comm) \in Nat
      /\ \A r \in 1 .. Len(comm) - 1 : comm[r + 1] \in Node /\ comm[r + 1] # p
  BY <1>1, CommRanks DEF IInv, root, get_global_rank
<1>3. \A a, b \in Node : TrueDiff(a, b) \in Int
  BY ClocksDiffer DEF TrueDiff
<1>4. PICK d \in Estimates(TrueDiff(p, q)), e \in Estimates(TrueDiff(q, p)) :
        tds' = [tds EXCEPT ![p][q] = d, ![q][p] = e]
  BY DEF Compare
<1>5. /\ d \in Int /\ e \in Int /\ Slack \in Nat
      /\ Near(d, TrueDiff(p, q), Slack) /\ Near(e, TrueDiff(q, p), Slack)
      /\ Near(d, TrueDiff(p, q), 2 * Slack) /\ Near(e, TrueDiff(q, p), 2 * Slack)
  BY <1>2, <1>3, BoundsNatural, SMTT(30) DEF Estimates, Near
<1>6. /\ tds' \in [Node -> [Node -> Int]]
      /\ tds'[p][q] = d /\ tds'[q][p] = e
      /\ \A a, b \in Node : <<a, b>> # <<p, q>> /\ <<a, b>> # <<q, p>> => tds'[a][b] = tds[a][b]
  <2>1. tds \in [Node -> [Node -> Int]]
    BY DEF IInv, TypeOK
  <2>. QED BY <1>2, <1>4, <1>5, <2>1
<1>7. /\ known' = known \cup {<<p, q>>, <<q, p>>}
      /\ i' = i + 1 /\ UNCHANGED <<calls, phase, comm, tmp_tds, updated>> /\ phase = "compare"
  BY DEF Compare
<1>8. TypeOK'
  <2>1. known' \subseteq Node \X Node
    <3>1. known \subseteq Node \X Node
      BY DEF IInv, TypeOK
    <3>2. <<p, q>> \in Node \X Node /\ <<q, p>> \in Node \X Node
      BY <1>2
    <3>. QED BY <1>7, <3>1, <3>2, Zenon
  <2>2. i' \in Nat \ {0}
    BY <1>7 DEF IInv, TypeOK
  <2>. QED BY <1>6, <1>7, <2>1, <2>2 DEF IInv, TypeOK
<1>9. CommValid' /\ Sent'
  BY <1>1, <1>7 DEF CommValid, Sent
<1>10. Bounded'
  <2>. SUFFICES ASSUME NEW a \in Node, NEW b \in Node, <<a, b>> \in known'
                PROVE  Near(tds'[a][b], TrueDiff(a, b), 2 * Slack)
    BY DEF Bounded, TrueDiff, Near
  <2>1. CASE <<a, b>> = <<p, q>> \/ <<a, b>> = <<q, p>>
    BY <1>5, <1>6, <2>1
  <2>2. CASE <<a, b>> # <<p, q>> /\ <<a, b>> # <<q, p>>
    BY <1>6, <1>7, <2>2 DEF IInv, Bounded
  <2>. QED BY <2>1, <2>2
<1>11. Compared'
  <2>. SUFFICES ASSUME NEW r \in 1 .. Len(comm) - 1, r < i + 1
                PROVE  Near(tds'[comm[r + 1]][p], TrueDiff(comm[r + 1], p), Slack)
    BY <1>2, <1>7 DEF Compared, TrueDiff, Near
  <2>1. CASE comm[r + 1] = q
    BY <1>5, <1>6, <2>1
  <2>2. CASE comm[r + 1] # q
    <3>1. r < i
      BY <1>1, <1>2, <2>2
    <3>2. Near(tds[comm[r + 1]][p], TrueDiff(comm[r + 1], p), Slack)
      BY <1>2, <3>1 DEF IInv, Compared
    <3>3. tds'[comm[r + 1]][p] = tds[comm[r + 1]][p]
      BY <1>2, <1>6, <2>2
    <3>. QED BY <3>2, <3>3
  <2>. QED BY <2>1, <2>2
<1>12. RootKnows'
  <2>. SUFFICES ASSUME NEW r \in 1 .. Len(comm) - 1, r < i + 1
                PROVE  Near(tds'[p][comm[r + 1]], TrueDiff(p, comm[r + 1]), Slack)
    BY <1>2, <1>7 DEF RootKnows, TrueDiff, Near
  <2>1. CASE comm[r + 1] = q
    BY <1>5, <1>6, <2>1
  <2>2. CASE comm[r + 1] # q
    <3>1. r < i
      BY <1>1, <1>2, <2>2
    <3>2. Near(tds[p][comm[r + 1]], TrueDiff(p, comm[r + 1]), Slack)
      BY <1>2, <1>7, <3>1 DEF IInv, RootKnows
    <3>3. tds'[p][comm[r + 1]] = tds[p][comm[r + 1]]
      BY <1>2, <1>6, <2>2
    <3>. QED BY <3>2, <3>3
  <2>. QED BY <2>1, <2>2
<1>13. OwnZero'
  BY <1>2, <1>6, <1>7 DEF IInv, OwnZero
<1>. QED BY <1>8, <1>9, <1>10, <1>11, <1>12, <1>13 DEF IInv

LEMMA BroadcastIInv == IInv /\ Broadcast => IInv'
<1>. SUFFICES ASSUME IInv, Broadcast PROVE IInv'
  OBVIOUS
<1>1. comm \in Comms /\ comm \in Seq(Node) /\ Len(comm) >= 1 /\ comm # << >> /\ Len(comm) \in Nat
  <2>1. comm \in Comms
    BY DEF IInv, CommValid, Broadcast
  <2>. QED BY <2>1, CommsOfNodes
<1>2. comm[1] \in Node /\ \A r \in 1 .. Len(comm) - 1 : comm[r + 1] \in Node
  BY <1>1, CommRanks DEF IInv
<1>3. tmp_tds' = [r \in 1 .. Len(comm) - 1 |-> tds[comm[1]][comm[r + 1]]]
  BY DEF Broadcast, root, get_global_rank
<1>4. tmp_tds' \in [1 .. Len(comm) - 1 -> Int] /\ tmp_tds' \in Seq(Int)
  <2>1. tmp_tds' \in [1 .. Len(comm) - 1 -> Int]
    BY <1>2, <1>3 DEF IInv, TypeOK
  <2>2. Len(comm) - 1 \in Nat
    BY <1>1
  <2>. QED BY <2>1, <2>2
<1>5. TypeOK'
  BY <1>4 DEF IInv, TypeOK, Broadcast
<1>6. CommValid' /\ RootKnows' /\ Bounded' /\ OwnZero'
  BY <1>1 DEF IInv, Broadcast, CommValid, RootKnows, Bounded, OwnZero, TrueDiff
<1>7. \A r \in 1 .. Len(comm) - 1 : r < i
  BY <1>1 DEF IInv, TypeOK, Broadcast
<1>8. Compared'
  BY <1>7 DEF IInv, Broadcast, Compared, TrueDiff
<1>9. Sent'
  <2>1. \A r \in 1 .. Len(comm) - 1 : Near(tds[comm[1]][comm[r + 1]], TrueDiff(comm[1], comm[r + 1]), Slack)
    BY <1>7 DEF IInv, Broadcast, RootKnows
  <2>. QED BY <1>3, <1>4, <2>1 DEF Broadcast, Sent, TrueDiff, Near
<1>. QED BY <1>5, <1>6, <1>8, <1>9 DEF IInv

\* The errors of the two summands add up, and the entry for the root stays.
LEMMA UpdateIInv == ASSUME NEW p \in Node PROVE IInv /\ Update(p) => IInv'
<1>. SUFFICES ASSUME IInv, Update(p) PROVE IInv'
  OBVIOUS
<1>1. comm \in Comms /\ comm # << >> /\ comm \in Seq(Node) /\ phase = "update"
  <2>1. comm \in Comms
    BY DEF IInv, CommValid, Update
  <2>. QED BY <2>1, CommsOfNodes DEF Update
<1>2. /\ Len(comm) \in Nat /\ comm[1] \in Node
      /\ \A r \in 1 .. Len(comm) - 1 : comm[r + 1] \in Node /\ comm[r + 1] # comm[1]
      /\ \A q \in Others : /\ q \in Node /\ q # comm[1]
                           /\ RankOf(q) \in 1 .. Len(comm) - 1 /\ comm[RankOf(q) + 1] = q
  BY <1>1, CommRanks DEF IInv
<1>3. p \in Others /\ comm[RankOf(p) + 1] = p /\ RankOf(p) \in 1 .. Len(comm) - 1
  BY <1>2 DEF Update
<1>4. /\ tmp_tds \in [1 .. Len(comm) - 1 -> Int]
      /\ tds \in [Node -> [Node -> Int]]
  BY <1>1 DEF IInv, TypeOK, Sent
<1>5. tds' = [tds EXCEPT ![p] = [q \in Node |->
                IF q \in Others THEN tmp_tds[RankOf(q)] + tds[p][comm[1]] ELSE tds[p][q]]]
  BY DEF Update, ViaRoot, root, get_global_rank
<1>6. /\ tds' \in [Node -> [Node -> Int]]
      /\ \A q \in Others : tds'[p][q] = tmp_tds[RankOf(q)] + tds[p][comm[1]]
      /\ \A q \in Node \ Others : tds'[p][q] = tds[p][q]
      /\ \A a \in Node \ {p}, b \in Node : tds'[a][b] = tds[a][b]
  <2>. DEFINE row == [q \in Node |->
                IF q \in Others THEN tmp_tds[RankOf(q)] + tds[p][comm[1]] ELSE tds[p][q]]
  <2>1. row \in [Node -> Int]
    BY <1>2, <1>4
  <2>2. /\ \A q \in Others : row[q] = tmp_tds[RankOf(q)] + tds[p][comm[1]]
        /\ \A q \in Node \ Others : row[q] = tds[p][q]
    BY <1>2
  <2>3. tds' = [tds EXCEPT ![p] = row]
    BY <1>5
  <2>. HIDE DEF row
  <2>. QED BY <1>2, <1>4, <2>1, <2>2, <2>3
<1>7. /\ \A a \in Node : tds'[a][comm[1]] = tds[a][comm[1]]
      /\ UNCHANGED <<calls, phase, comm, i, tmp_tds>>
      /\ known' = known \cup {<<p, q>> : q \in Others} /\ updated' = updated \cup {p}
  <2>1. comm[1] \notin Others
    BY <1>2
  <2>2. \A a \in Node : tds'[a][comm[1]] = tds[a][comm[1]]
    BY <1>2, <1>6, <2>1
  <2>. QED BY <2>2 DEF Update
<1>8. TypeOK'
  <2>1. known' \subseteq Node \X Node
    <3>1. known \subseteq Node \X Node
      BY DEF IInv, TypeOK
    <3>2. \A q \in Others : <<p, q>> \in Node \X Node
      BY <1>2
    <3>. QED BY <1>7, <3>1, <3>2, Zenon
  <2>2. updated' \subseteq Node
    BY <1>7 DEF IInv, TypeOK
  <2>. QED BY <1>6, <1>7, <2>1, <2>2 DEF IInv, TypeOK
<1>9. CommValid' /\ RootKnows' /\ Sent'
  BY <1>1, <1>7 DEF IInv, CommValid, RootKnows, Sent, TrueDiff
<1>10. Compared'
  <2>. SUFFICES ASSUME NEW r \in 1 .. Len(comm) - 1
                PROVE  Near(tds'[comm[r + 1]][comm[1]], TrueDiff(comm[r + 1], comm[1]), Slack)
    BY <1>7 DEF Compared, TrueDiff, Near
  <2>1. Near(tds[comm[r + 1]][comm[1]], TrueDiff(comm[r + 1], comm[1]), Slack)
    BY <1>1 DEF IInv, Compared
  <2>. QED BY <1>2, <1>7, <2>1
<1>11. Bounded'
  <2>. SUFFICES ASSUME NEW a \in Node, NEW b \in Node, <<a, b>> \in known'
                PROVE  Near(tds'[a][b], TrueDiff(a, b), 2 * Slack)
    BY DEF Bounded, TrueDiff, Near
  <2>1. CASE a = p /\ b \in Others
    <3>1. Near(tmp_tds[RankOf(b)], TrueDiff(comm[1], b), Slack)
      BY <1>1, <1>2, <2>1 DEF IInv, Sent
    <3>2. Near(tds[p][comm[1]], TrueDiff(p, comm[1]), Slack)
      BY <1>1, <1>3 DEF IInv, Compared
    <3>3. /\ tmp_tds[RankOf(b)] \in Int /\ tds[p][comm[1]] \in Int /\ Slack \in Nat
          /\ Offset[p] \in Int /\ Offset[b] \in Int /\ Offset[comm[1]] \in Int
      BY <1>2, <1>4, <2>1, BoundsNatural, ClocksDiffer
    <3>4. tds'[a][b] = tmp_tds[RankOf(b)] + tds[p][comm[1]]
      BY <1>6, <2>1
    <3>. QED BY <2>1, <3>1, <3>2, <3>3, <3>4 DEF Near, TrueDiff
  <2>2. CASE ~(a = p /\ b \in Others)
    <3>1. tds'[a][b] = tds[a][b]
      BY <1>6, <2>2
    <3>2. <<a, b>> \in known
      BY <1>7, <2>2
    <3>. QED BY <3>1, <3>2 DEF IInv, Bounded
  <2>. QED BY <2>1, <2>2
<1>12. OwnZero'
  <2>. SUFFICES ASSUME NEW a \in Node, <<a, a>> \notin known' PROVE tds'[a][a] = 0
    BY DEF OwnZero
  <2>1. <<a, a>> \notin known /\ a # p
    BY <1>3, <1>7
  <2>2. tds'[a][a] = tds[a][a]
    BY <1>6, <2>1
  <2>. QED BY <2>1, <2>2 DEF IInv, OwnZero
<1>. QED BY <1>8, <1>9, <1>10, <1>11, <1>12 DEF IInv

LEMMA EndIInv == IInv /\ End => IInv'
<1>. SUFFICES ASSUME IInv, End PROVE IInv'
  OBVIOUS
<1>1. TypeOK'
  BY DEF IInv, TypeOK, End
<1>2. CommValid' /\ RootKnows' /\ Sent' /\ Bounded' /\ OwnZero'
  BY DEF IInv, End, CommValid, RootKnows, Sent, Bounded, OwnZero, TrueDiff
<1>3. Compared'
  BY DEF IInv, End, Compared, TrueDiff
<1>. QED BY <1>1, <1>2, <1>3 DEF IInv

\* The inductive invariant holds in every behaviour.
THEOREM Invariance == Spec => []IInv
<1>1. IInv /\ [Next]_vars => IInv'
  <2>. SUFFICES ASSUME IInv, [Next]_vars PROVE IInv'
    OBVIOUS
  <2>1. CASE UNCHANGED vars
    BY <2>1 DEF vars, IInv, TypeOK, CommValid, Compared, RootKnows, Sent, Bounded, OwnZero, TrueDiff
  <2>2. CASE Begin
    BY <2>2, BeginIInv
  <2>3. CASE Compare
    BY <2>3, CompareIInv
  <2>4. CASE Broadcast
    BY <2>4, BroadcastIInv
  <2>5. CASE \E p \in Node : Update(p)
    BY <2>5, UpdateIInv
  <2>6. CASE End
    BY <2>6, EndIInv
  <2>7. CASE Terminated
    BY <2>1, <2>7 DEF Terminated
  <2>. QED BY <2>1, <2>2, <2>3, <2>4, <2>5, <2>6, <2>7 DEF Next
<1>. QED BY <1>1, InitIInv, PTL DEF Spec

\* Type correctness.
THEOREM TypeCorrect == Spec => []TypeOK
<1>1. IInv => TypeOK
  BY DEF IInv
<1>. QED BY <1>1, Invariance, PTL

\* Differences are never off by more than two comparisons, however many calls
\* of determine_time_differences on whatever communicators came before.
THEOREM ErrorBound == Spec => []ErrorsDoNotAddUp
<1>1. IInv => ErrorsDoNotAddUp
  BY DEF IInv, Bounded, ErrorsDoNotAddUp, Near
<1>. QED BY <1>1, Invariance, PTL

\* All members start a run within two comparisons of each other, the root
\* within three, although its entry for itself may be left from another call.
THEOREM StartsNear == Spec => []StartsTogether
<1>1. ASSUME IInv PROVE StartsTogether
  <2>. SUFFICES ASSUME phase = "idle", comm # << >>,
                       NEW p \in Others \cup {root}, NEW q \in Others \cup {root}
                PROVE  StartError(p) - StartError(q) <=
                         (IF root \in {p, q} THEN 3 ELSE 2) * Slack
    BY DEF StartsTogether
  <2>1. /\ root = comm[1] /\ root \in Node
        /\ \A a \in Others : a \in Node /\ a # root
    BY <1>1, CommRanks DEF IInv, root, get_global_rank
  <2>2. /\ Slack \in Nat
        /\ \A a \in Node : StartError(a) \in Int
    BY <1>1, <2>1, BoundsNatural, ClocksDiffer DEF IInv, TypeOK, StartError, TrueDiff
  <2>3. \A a \in Others : StartError(a) <= Slack /\ -Slack <= StartError(a)
    <3>. SUFFICES ASSUME NEW a \in Others
                  PROVE  StartError(a) <= Slack /\ -Slack <= StartError(a)
      OBVIOUS
    <3>1. PICK r \in 1 .. Len(comm) - 1 : a = comm[r + 1]
      BY DEF Others, get_global_rank
    <3>2. Near(tds[a][root], TrueDiff(a, root), Slack)
      BY <1>1, <2>1, <3>1 DEF IInv, Compared
    <3>3. tds[a][root] \in Int /\ TrueDiff(a, root) \in Int
      <4>1. a \in Node /\ root \in Node /\ tds \in [Node -> [Node -> Int]]
        BY <1>1, <2>1 DEF IInv, TypeOK
      <4>. QED BY <4>1, ClocksDiffer DEF TrueDiff
    <3>. QED BY <2>2, <3>2, <3>3 DEF Near, StartError
  <2>4. StartError(root) <= 2 * Slack /\ -(2 * Slack) <= StartError(root)
    <3>1. TrueDiff(root, root) = 0 /\ tds[root][root] \in Int
      BY <1>1, <2>1, ClocksDiffer DEF IInv, TypeOK, TrueDiff
    <3>2. tds[root][root] = 0 \/ Near(tds[root][root], TrueDiff(root, root), 2 * Slack)
      BY <1>1, <2>1 DEF IInv, OwnZero, Bounded
    <3>. QED BY <2>2, <3>1, <3>2 DEF Near, StartError
  <2>5. CASE p = root /\ q = root
    BY <2>1, <2>2, <2>5
  <2>6. CASE p = root /\ q \in Others
    BY <2>1, <2>2, <2>3, <2>4, <2>6
  <2>7. CASE p \in Others /\ q = root
    BY <2>1, <2>2, <2>3, <2>4, <2>7
  <2>8. CASE p \in Others /\ q \in Others
    BY <2>1, <2>2, <2>3, <2>8
  <2>. QED BY <2>5, <2>6, <2>7, <2>8
<1>. QED BY <1>1, Invariance, PTL
=============================================================================
