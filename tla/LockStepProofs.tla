--------------------------- MODULE LockStepProofs ---------------------------
(***************************************************************************)
(* The round in lock step, for every number of nodes, requests and         *)
(* rankings, and for all sizes that leave room for one quorum per round    *)
(* (OneQuorum).                                                            *)
(*                                                                         *)
(* The argument is about what is still useful of the traffic.  Weight is   *)
(* what may yet be counted as prepares of this round, Replied what the     *)
(* client may yet count as replies, wherever it is: on the wire, in a      *)
(* counter, or still to be sent for a message that is on the wire.  The    *)
(* two put a round in one of three phases (Phase); the other parts of Live *)
(* say why the lead starts no other round within one and every close finds *)
(* its request.                                                            *)
(*                                                                         *)
(* First the messages are counted by kind (Passed: what a step does to the *)
(* counts), then the invariant is shown of the steps that keep the phase,  *)
(* of those that move it on, of closes, and of an abort.  The theorems     *)
(* follow, then the certificates and the service, which rest on it.  Until *)
(* a round is closed every network is in lock step: the last part is about *)
(* that first round.                                                       *)
(***************************************************************************)
EXTENDS LockStep, QueueProofs

----------------------------------------------------------------------------
(* The traffic of a round, counted by what it is good for.                 *)

PreparesOf(k) == {m \in OfType("MsgPrepare") : m.groupSign.key = k}
PrepreparesOf(k) == {m \in OfType("MsgPreprepare") : m.signature.key = k}

\* Of what n sends, c are proposals, v answers to one, p prepares and pp
\* pre-prepares of key k, r results and a acknowledgements.
Sends(n, out, k, c, v, p, pp, r, a) ==
    /\ Gives(n, out, PCs, c)
    /\ Gives(n, out, PVs, v)
    /\ Gives(n, out, PreparesOf(k), p)
    /\ Gives(n, out, PrepreparesOf(k), pp)
    /\ Gives(n, out, Results, r)
    /\ Gives(n, out, Acks, a)

\* The kinds of messages of a round, by their type and the key they carry.
LEMMA Kinds ==
  ASSUME NEW m \in AnyMessage, NEW k
  PROVE  /\ m \in PCs <=> m.type = "MsgPrimaryConsensus"
         /\ m \in PVs <=> m.type = "MsgPrimaryVerified"
         /\ m \in PreparesOf(k) <=> m.type = "MsgPrepare" /\ m.groupSign.key = k
         /\ m \in PrepreparesOf(k) <=> m.type = "MsgPreprepare" /\ m.signature.key = k
         /\ m \in Results <=> m.type \in {"MsgSend", "MsgReply"}
         /\ m \in Acks <=> m.type = "MsgAck"
BY DEF PCs, PVs, PreparesOf, PrepreparesOf, Results, Acks, OfType, AnyMessage

\* All of them are messages of a finite number.
LEMMA Counts ==
  ASSUME NEW f, IsFiniteSet(Spots(f, All, Rest)), NEW k
  PROVE  /\ IsFiniteSet(Spots(f, All, PCs)) /\ Count(f, PCs) \in Nat
         /\ IsFiniteSet(Spots(f, All, PVs)) /\ Count(f, PVs) \in Nat
         /\ IsFiniteSet(Spots(f, All, PreparesOf(k))) /\ Count(f, PreparesOf(k)) \in Nat
         /\ IsFiniteSet(Spots(f, All, PrepreparesOf(k))) /\ Count(f, PrepreparesOf(k)) \in Nat
         /\ IsFiniteSet(Spots(f, All, Results)) /\ Count(f, Results) \in Nat
         /\ IsFiniteSet(Spots(f, All, Acks)) /\ Count(f, Acks) \in Nat
<1>1. /\ PCs \subseteq Rest /\ PVs \subseteq Rest /\ PreparesOf(k) \subseteq Rest
      /\ PrepreparesOf(k) \subseteq Rest /\ Results \subseteq Rest /\ Acks \subseteq Rest
  BY DEF PCs, PVs, PreparesOf, PrepreparesOf, Results, Acks, OfType, Rest, AnyMessage
<1> QED BY <1>1, PartOfRest

\* Sending nothing sends none of any kind.
LEMMA SendsNothing ==
  ASSUME NEW n \in Peers, NEW k
  PROVE  Sends(n, Nothing, k, 0, 0, 0, 0, 0, 0)
BY ToAt, NoneGiven DEF Sends

\* Sending a message to S sends one of its kind for every peer of S.
LEMMA SendsTo ==
  ASSUME NEW n \in Peers, NEW S, IsFiniteSet(S), NEW m \in AnyMessage, NEW k,
         NEW s, s = Cardinality(S \cap Peers)
  PROVE  /\ m.type = "MsgPrimaryConsensus" => Sends(n, To(S, m), k, s, 0, 0, 0, 0, 0)
         /\ m.type = "MsgPrimaryVerified" => Sends(n, To(S, m), k, 0, s, 0, 0, 0, 0)
         /\ m.type = "MsgPrepare" /\ m.groupSign.key = k => Sends(n, To(S, m), k, 0, 0, s, 0, 0, 0)
         /\ m.type = "MsgPreprepare" /\ m.signature.key = k => Sends(n, To(S, m), k, 0, 0, 0, s, 0, 0)
         /\ m.type \in {"MsgSend", "MsgReply"} => Sends(n, To(S, m), k, 0, 0, 0, 0, s, 0)
         /\ m.type = "MsgAck" => Sends(n, To(S, m), k, 0, 0, 0, 0, 0, s)
<1>1. ASSUME NEW W PROVE Gives(n, To(S, m), W, IF m \in W THEN s ELSE 0)
  BY ToSomeGives
<1>2. Sends(n, To(S, m), k, IF m \in PCs THEN s ELSE 0, IF m \in PVs THEN s ELSE 0,
            IF m \in PreparesOf(k) THEN s ELSE 0, IF m \in PrepreparesOf(k) THEN s ELSE 0,
            IF m \in Results THEN s ELSE 0, IF m \in Acks THEN s ELSE 0)
  BY <1>1 DEF Sends
<1> QED BY <1>2, Kinds

\* What is sent one after the other adds up.
LEMMA SendsThen ==
  ASSUME NEW n \in Peers, NEW k,
         NEW f \in [Peers -> Seq(AnyMessage)], NEW g \in [Peers -> Seq(AnyMessage)],
         NEW c, NEW v, NEW p, NEW pp, NEW r, NEW a, Sends(n, f, k, c, v, p, pp, r, a),
         NEW c2, NEW v2, NEW p2, NEW pp2, NEW r2, NEW a2, Sends(n, g, k, c2, v2, p2, pp2, r2, a2)
  PROVE  Sends(n, Then(f, g), k, c + c2, v + v2, p + p2, pp + pp2, r + r2, a + a2)
<1>1. ASSUME NEW W, NEW x, NEW y, Gives(n, f, W, x), Gives(n, g, W, y)
      PROVE  Gives(n, Then(f, g), W, x + y)
  BY <1>1, ThenGives
<1>2. Gives(n, Then(f, g), PCs, c + c2)
  BY <1>1 DEF Sends
<1>3. Gives(n, Then(f, g), PVs, v + v2)
  BY <1>1 DEF Sends
<1>4. Gives(n, Then(f, g), PreparesOf(k), p + p2)
  BY <1>1 DEF Sends
<1>5. Gives(n, Then(f, g), PrepreparesOf(k), pp + pp2)
  BY <1>1 DEF Sends
<1>6. Gives(n, Then(f, g), Results, r + r2)
  BY <1>1 DEF Sends
<1>7. Gives(n, Then(f, g), Acks, a + a2)
  BY <1>1 DEF Sends
<1> QED BY <1>2, <1>3, <1>4, <1>5, <1>6, <1>7 DEF Sends

\* A proposal sends as many questions as Asking1 says, with the close of the
\* round before it or without.
LEMMA SendsProposal ==
  ASSUME TypeOK, TypeOK', NEW n \in Nodes, NEW q \in Seq(Entry), NEW k
  PROVE  /\ Sends(n, Proposal(n, q), k, Asking1(n, q), 0, 0, 0, 0, 0)
         /\ Sends(n, Then(NextRequest(n), Proposal(n, q)), k, Asking1(n, q), 0, 0, 0, 0, 0)
         /\ Asking1(n, q) \in Nat
<1>0. n \in Peers /\ orderNumber \in Nat /\ GroupSets' /\ PrimarySize \in Nat /\ PrimarySize >= 1
  <2>1. TypeOK' => GroupSets'
    BY GroupsAsSets, PTL
  <2>2. PrimarySize \in Nat /\ PrimarySize >= 1
    BY SizeAssumption
  <2>3. orderNumber \in Nat
    BY DEF TypeOK
  <2> QED BY <2>1, <2>2, <2>3 DEF Peers
<1>1. ASSUME q # <<>>, Lead' = n
      PROVE  Sends(n, Proposal(n, q), k, Asking1(n, q), 0, 0, 0, 0, 0) /\ Asking1(n, q) \in Nat
  <2> DEFINE m == [type |-> "MsgPrimaryConsensus", order |-> orderNumber + 1,
                   signature |-> Sign(n, orderNumber + 1, Head(q).message)]
             S == Members(primaryGroup') \ {n}
  <2>1. Head(q) \in Entry
    BY <1>1
  <2>2. Sign(n, orderNumber + 1, Head(q).message) \in PeerSignature
    BY <1>0, <2>1, PeerSigned DEF Entry, Texts
  <2>3. m \in AnyMessage /\ m.type = "MsgPrimaryConsensus"
    BY <1>0, <2>2 DEF AnyMessage, NodeMessage
  <2>4. Proposal(n, q) = To(S, m)
    BY <1>1 DEF Proposal, Lead
  <2>5. IsFiniteSet(S) /\ Cardinality(S \cap Peers) = PrimarySize - 1
    <3>1. /\ IsFiniteSet(Members(primaryGroup')) /\ Cardinality(Members(primaryGroup')) = PrimarySize
          /\ n \in Members(primaryGroup') /\ Members(primaryGroup') \subseteq Nodes
      BY <1>0, <1>1 DEF GroupSets, Lead
    <3>2. S \cap Peers = S
      BY <3>1 DEF Peers
    <3> QED BY <3>1, <3>2, FS_RemoveElement
  <2> HIDE DEF m, S
  <2>6. Sends(n, To(S, m), k, PrimarySize - 1, 0, 0, 0, 0, 0)
    BY <1>0, <2>3, <2>5, SendsTo
  <2>7. Asking1(n, q) = PrimarySize - 1 /\ PrimarySize - 1 \in Nat
    BY <1>0, <1>1 DEF Asking1
  <2> QED BY <2>4, <2>6, <2>7
<1>2. ASSUME ~(q # <<>> /\ Lead' = n)
      PROVE  Sends(n, Proposal(n, q), k, Asking1(n, q), 0, 0, 0, 0, 0) /\ Asking1(n, q) \in Nat
  <2>1. Proposal(n, q) = Nothing
    BY <1>2 DEF Proposal, Lead
  <2>2. Asking1(n, q) = 0
    BY <1>2 DEF Asking1
  <2>3. Sends(n, Nothing, k, 0, 0, 0, 0, 0, 0)
    BY <1>0, SendsNothing
  <2> QED BY <2>1, <2>2, <2>3
<1>3. Sends(n, Proposal(n, q), k, Asking1(n, q), 0, 0, 0, 0, 0) /\ Asking1(n, q) \in Nat
  BY <1>1, <1>2
<1>4. Sends(n, NextRequest(n), k, 0, 0, 0, 0, 0, 0)
  <2> DEFINE m == [type |-> "MsgNextRequest"]
  <2>1. m \in AnyMessage /\ m.type = "MsgNextRequest"
    BY DEF AnyMessage, NodeMessage
  <2>2. NextRequest(n) = To(Nodes \ {n}, m)
    BY DEF NextRequest
  <2> HIDE DEF m
  <2>3. /\ m \notin PCs /\ m \notin PVs /\ m \notin PreparesOf(k) /\ m \notin PrepreparesOf(k)
        /\ m \notin Results /\ m \notin Acks
    BY <2>1, Kinds
  <2> QED BY <1>0, <2>2, <2>3, ToGives DEF Sends
<1>5. NextRequest(n) \in [Peers -> Seq(AnyMessage)] /\ Proposal(n, q) \in [Peers -> Seq(AnyMessage)]
  <2>1. Tame(n, NextRequest(n)) /\ Tame(n, Proposal(n, q))
    BY TameProposal
  <2> QED BY <2>1 DEF Tame
<1>6. Sends(n, Then(NextRequest(n), Proposal(n, q)), k, 0 + Asking1(n, q), 0 + 0, 0 + 0, 0 + 0, 0 + 0, 0 + 0)
  BY <1>0, <1>3, <1>4, <1>5, SendsThen
<1>7. 0 + Asking1(n, q) = Asking1(n, q) /\ 0 + 0 = 0
  BY <1>3
<1> QED BY <1>3, <1>6, <1>7

\* What became of the counts when m was taken and these were sent.
Passed(m, k, c, v, p, pp, r, a) ==
    /\ Count(net', PCs) = Count(net, PCs) + c - In(m, PCs)
    /\ Count(net', PVs) = Count(net, PVs) + v - In(m, PVs)
    /\ Count(net', PreparesOf(k)) = Count(net, PreparesOf(k)) + p - In(m, PreparesOf(k))
    /\ Count(net', PrepreparesOf(k)) = Count(net, PrepreparesOf(k)) + pp - In(m, PrepreparesOf(k))
    /\ Count(net', Results) = Count(net, Results) + r - In(m, Results)
    /\ Count(net', Acks) = Count(net, Acks) + a - In(m, Acks)

\* What is on the channels after a step is what was, less the message read,
\* plus the messages sent.
LEMMA NewCounts ==
  ASSUME TypeOK, Tidy, NEW n \in Peers, NEW q \in Peers, net[q][n] # <<>>,
         NEW out \in [Peers -> Seq(AnyMessage)], Handle(n, q, out),
         NEW k, NEW c, NEW v, NEW p, NEW pp, NEW r, NEW a, Sends(n, out, k, c, v, p, pp, r, a)
  PROVE  Passed(Head(net[q][n]), k, c, v, p, pp, r, a)
<1>1. q # n /\ IsFiniteSet(Spots(net, All, Rest))
  BY DEF Tidy
<1>2. ASSUME NEW W, NEW d, Gives(n, out, W, d), IsFiniteSet(Spots(net, All, W))
      PROVE  Count(net', W) = Count(net, W) + d - In(Head(net[q][n]), W)
  BY <1>1, <1>2, Flow DEF In
<1>3. /\ IsFiniteSet(Spots(net, All, PCs)) /\ IsFiniteSet(Spots(net, All, PVs))
      /\ IsFiniteSet(Spots(net, All, PreparesOf(k))) /\ IsFiniteSet(Spots(net, All, PrepreparesOf(k)))
      /\ IsFiniteSet(Spots(net, All, Results)) /\ IsFiniteSet(Spots(net, All, Acks))
  BY <1>1, Counts
<1>4. /\ Gives(n, out, PCs, c) /\ Gives(n, out, PVs, v)
      /\ Gives(n, out, PreparesOf(k), p) /\ Gives(n, out, PrepreparesOf(k), pp)
      /\ Gives(n, out, Results, r) /\ Gives(n, out, Acks, a)
  BY DEF Sends
<1> QED BY <1>2, <1>3, <1>4 DEF Passed

\* No message of a kind is on its way, at least one is.
LEMMA NoneCounted ==
  ASSUME NEW f, NEW W, IsFiniteSet(Spots(f, All, W)), Count(f, W) = 0,
         NEW p \in Peers, NEW q \in Peers, NEW M, f[p][q] \in Seq(M)
  PROVE  \A m \in Members(f[p][q]) : m \notin W
<1>1. Spots(f, All, W) = {}
  BY FS_EmptySet DEF Count
<1>2. ASSUME NEW i \in DOMAIN f[p][q], f[p][q][i] \in W PROVE FALSE
  <2>1. i \in Nat
    OBVIOUS
  <2>2. <<p, q, i>> \in Spots(f, All, W)
    BY <1>2, <2>1 DEF Spots, All, At
  <2> QED BY <1>1, <2>2
<1> QED BY <1>2 DEF Members

----------------------------------------------------------------------------
(* The closes on their way.                                                *)

Calm(f) == \A n \in Nodes : Told(f)[n] = 0

\* A node is told of a close just if a MsgNextRequest to it is on a channel.
LEMMA ClosingTold ==
  ASSUME TypeOK, Counted, NEW n \in Nodes
  PROVE  /\ Told(net)[n] \in Nat
         /\ Told(net)[n] = 0 => \A p \in Peers : ~Closing(p, n)
         /\ Told(net)[n] # 0 => \E p \in Nodes : Closing(p, n)
<1> DEFINE C == Coming(net, n, "MsgNextRequest")
<1>1. IsFiniteSet(C) /\ Told(net)[n] = Cardinality(C)
  BY DEF Counted, Told
<1>2. ASSUME NEW p \in Peers, NEW i \in DOMAIN net[p][n]
      PROVE  /\ net[p][n][i] \in AnyMessage /\ i \in Nat
             /\ p \in Clients => net[p][n][i] \in ClientMessage
  <2>1. net \in Channels(NodeMessage, ClientMessage) /\ n \in Peers
    BY DEF TypeOK, Peers
  <2>2. /\ net[p][n] \in Seq(AnyMessage)
        /\ p \in Clients => net[p][n] \in Seq(ClientMessage)
    BY <2>1 DEF Channels, AnyMessage
  <2> QED BY <2>2
<1>3. ASSUME C = {}, NEW p \in Peers PROVE ~Closing(p, n)
  <2>1. SUFFICES ASSUME NEW i \in DOMAIN net[p][n], net[p][n][i].type = "MsgNextRequest" PROVE FALSE
    BY DEF Closing
  <2>2. net[p][n][i] \in AnyMessage /\ i \in Nat
    BY <1>2
  <2>3. At(net[p][n], i, OfType("MsgNextRequest"))
    BY <2>1, <2>2 DEF At, OfType, AnyMessage
  <2>4. n \in Peers
    BY DEF Peers
  <2>5. <<p, n, i>> \in C
    BY <2>2, <2>3, <2>4 DEF Coming, Spots
  <2> QED BY <1>3, <2>5
<1>4. ASSUME C # {} PROVE \E p \in Nodes : Closing(p, n)
  <2>1. PICK x : x \in C
    BY <1>4
  <2>2. PICK p \in Peers, b \in Peers, i \in Nat : x = <<p, b, i>> /\ b = n /\ At(net[p][n], i, OfType("MsgNextRequest"))
    BY <2>1 DEF Coming, Spots
  <2>3. i \in DOMAIN net[p][n] /\ net[p][n][i].type = "MsgNextRequest"
    BY <2>2 DEF At, OfType
  <2>4. p \in Nodes
    BY <1>2, <2>3, ClientMessageFields DEF Peers
  <2> QED BY <2>3, <2>4 DEF Closing
<1> HIDE DEF C
<1>5. Cardinality(C) \in Nat /\ (Cardinality(C) = 0 <=> C = {})
  BY <1>1, FS_CardinalityType, FS_EmptySet
<1> QED BY <1>1, <1>3, <1>4, <1>5

\* In lock step, what happens while closes are on their way is a delivery
\* from a connection with one.
LEMMA CalmOrClosing ==
  ASSUME TypeOK, Counted, Next, ClosesFirst
  PROVE  Calm(net) \/ \E n \in Nodes, q \in Nodes : Closing(q, n) /\ Node(n, q)
<1>1. CASE Calm(net)
  BY <1>1
<1>2. CASE ~Calm(net)
  <2>1. PICK n \in Nodes : Told(net)[n] # 0
    BY <1>2 DEF Calm
  <2>2. \E p \in Nodes : Closing(p, n)
    BY <2>1, ClosingTold
  <2> QED BY <2>2 DEF ClosesFirst
<1> QED BY <1>1, <1>2

\* The closes a node step sends and takes.
LEMMA NewTold ==
  ASSUME TypeOK, Counted, NEW n \in Nodes, NEW q \in Peers, net[q][n] # <<>>,
         NEW out \in [Peers -> Seq(NodeMessage)], Handle(n, q, out),
         NEW closes \in {0, 1}, Tells(n, out, closes)
  PROVE  LET type == Head(net[q][n]).type IN
         /\ Told(net) \in [Nodes -> Nat]
         /\ type # "MsgNextRequest" /\ closes = 0 => Told(net') = Told(net)
         /\ type # "MsgNextRequest" /\ closes = 1 =>
               Told(net') = [k \in Nodes |-> IF k = n THEN Told(net)[k] ELSE Told(net)[k] + 1]
         /\ type = "MsgNextRequest" /\ closes = 0 =>
               Told(net)[n] > 0 /\ Told(net') = [Told(net) EXCEPT ![n] = @ - 1]
<1> DEFINE type == Head(net[q][n]).type
<1>1. ASSUME NEW k \in Nodes PROVE Arrived(n, k, type, closes)
  BY NodeComing
<1>2. Counted'
  BY <1>1 DEF Counted, Arrived
<1> HIDE DEF type
<1> QED BY <1>1, <1>2, ToldNode DEF type

----------------------------------------------------------------------------
(* The lock step invariant.                                                *)

\* The sizes leave room for one quorum of prepares in a round, and the client
\* waits for a reply of every member of the consensus group.
OneQuorum ==
    /\ PrimarySize < ConsensusSize
    /\ MaxPrepared < 2 * PrepareQuorum
    /\ ConsensusSize <= ReplyQuorum

\* What is open of the lead's question; what may still be counted as prepares
\* of this round; what the client may still count as replies.
Asking == Count(net, PCs) + Count(net, PVs)
Weight == (prepared_messages + Count(net, PreparesOf(groupKey)))
             + (ConsensusSize - 1) * Count(net, PrepreparesOf(groupKey))
Replied == (Count(net, Results) + replies[client][TRUE]) + ConsensusSize * Count(net, Acks)

\* All nodes are in the round of the lead, which has its answers.
Engaged == busy[Lead] /\ Asking = 0 /\ Calm(net)

\* A round waits for its certificate, gathers its prepares, or is answered.
PhaseOf(e, w, r, s, k) ==
    \/ w = 0 /\ r = 0 /\ s < k
    \/ e /\ w <= MaxPrepared /\ r = 0 /\ s < k
    \/ e /\ w + PrepareQuorum <= MaxPrepared /\ r <= ConsensusSize /\ s <= k

Phase == PhaseOf(Engaged, Weight, Replied, trust.Sat, groupKey)

AsksOf(a, b, t, v) ==
    a > 0 => b /\ t = 0 /\ a <= PrimarySize - 1 /\ (v >= PrimarySize - 1 \/ a + v = PrimarySize - 1)

Asks == AsksOf(Asking, busy[Lead], Told(net)[Lead], Answers(verified_message[Lead]))

TallyOf(v, open) == v = 0 \/ v >= PrimarySize - 1 \/ open

Tallies == \A n \in Nodes : TallyOf(Answers(verified_message[n]), n = Lead /\ Asking > 0)

Routed(m, p, q) ==
    /\ m \in PCs => p = Lead
    /\ m \in PVs => q = Lead /\ Calm(net)

Routes == \A p, q \in Peers : \A m \in Members(net[p][q]) : Routed(m, p, q)

InOrder(s) == \A i, j \in Nat : At(s, i, PCs) /\ At(s, j, Close) => j < i

Ordered == \A p, q \in Peers : InOrder(net[p][q])

ToldOnce == \A n \in Nodes : Told(net)[n] <= 1

NoneOwed == \A n \in Nodes : Left(requestQueue, net, n) >= 0

Live == Phase /\ Asks /\ Tallies /\ Routes /\ Ordered /\ ToldOnce /\ NoneOwed

Rewarded == trust.Sat <= groupKey /\ (MaxPrepared < PrepareQuorum => trust.Sat = 0)

Numbers ==
    /\ Count(net, PCs) \in Nat /\ Count(net, PVs) \in Nat
    /\ Count(net, PreparesOf(groupKey)) \in Nat
    /\ Count(net, PrepreparesOf(groupKey)) \in Nat
    /\ Count(net, Results) \in Nat /\ Count(net, Acks) \in Nat
    /\ prepared_messages \in Nat /\ replies[client][TRUE] \in Nat
    /\ Asking \in Nat /\ Weight \in Nat /\ Replied \in Nat
    /\ trust.Sat \in Nat /\ groupKey \in Nat
    /\ \A n \in Nodes : Told(net)[n] \in Nat /\ Answers(verified_message[n]) \in Nat
    /\ Lead \in Nodes /\ Lead \in Members(primaryGroup)

\* All that the invariant counts are numbers.
LEMMA InNumbers == Ground => Numbers
<1> SUFFICES ASSUME Ground PROVE Numbers
  OBVIOUS
<1>1. TypeOK /\ Tidy /\ Counted /\ GroupSets
  BY GroupsAsSets DEF Ground, Balanced
<1>2. /\ Count(net, PCs) \in Nat /\ Count(net, PVs) \in Nat
      /\ Count(net, PreparesOf(groupKey)) \in Nat
      /\ Count(net, PrepreparesOf(groupKey)) \in Nat
      /\ Count(net, Results) \in Nat /\ Count(net, Acks) \in Nat
  BY <1>1, Counts DEF Tidy
<1>3. /\ prepared_messages \in Nat /\ replies[client][TRUE] \in Nat
      /\ trust.Sat \in Nat /\ groupKey \in Nat
      /\ \A n \in Nodes : verified_message[n][TRUE] \in Nat /\ verified_message[n][FALSE] \in Nat
  BY <1>1, ClientAssumption DEF TypeOK
<1>4. \A a, b \in Nat : a * b \in Nat /\ a + b \in Nat
  OBVIOUS
<1>5. \A n \in Nodes : Answers(verified_message[n]) \in Nat
  BY <1>3, <1>4 DEF Answers
<1>6. \A n \in Nodes : Told(net)[n] \in Nat
  BY <1>1, ClosingTold
<1>7. Asking \in Nat
  BY <1>2, <1>4 DEF Asking
<1>8. Weight \in Nat
  <2>1. prepared_messages + Count(net, PreparesOf(groupKey)) \in Nat
    BY <1>2, <1>3, <1>4
  <2>2. (ConsensusSize - 1) * Count(net, PrepreparesOf(groupKey)) \in Nat
    BY <1>2, <1>4, Sizes
  <2> QED BY <1>4, <2>1, <2>2 DEF Weight
<1>9. Replied \in Nat
  <2>1. Count(net, Results) + replies[client][TRUE] \in Nat
    BY <1>2, <1>3, <1>4
  <2>2. ConsensusSize * Count(net, Acks) \in Nat
    BY <1>2, <1>4, Sizes
  <2> QED BY <1>4, <2>1, <2>2 DEF Replied
<1>10. Lead \in Nodes /\ Lead \in Members(primaryGroup)
  BY <1>1 DEF GroupSets, Lead
<1> QED BY <1>2, <1>3, <1>5, <1>6, <1>7, <1>8, <1>9, <1>10 DEF Numbers

\* The same after a step.
LEMMA InNumbersNext == Ground' => Numbers'
BY InNumbers, PTL

LeftNumbers == \A k \in Nodes : Left(requestQueue, net, k) \in Int

\* What is left of a queue is an integer: closes may outnumber requests.
LEMMA LeftTypes == Ground => LeftNumbers
<1> SUFFICES ASSUME Ground, NEW k \in Nodes PROVE Left(requestQueue, net, k) \in Int
  BY DEF LeftNumbers
<1>1. requestQueue[k] \in Seq(Entry) /\ Counted
  BY DEF Ground, Balanced, TypeOK
<1>2. /\ Len(requestQueue[k]) \in Nat
      /\ Cardinality(Coming(net, k, "MsgGroup")) \in Nat
      /\ Cardinality(Coming(net, k, "MsgNextRequest")) \in Nat
  BY <1>1, FS_CardinalityType DEF Counted
<1> QED BY <1>2 DEF Left

\* The same after a step.
LEMMA LeftTypesNext == Ground' => LeftNumbers'
BY LeftTypes, PTL

\* A phase lasts while its numbers fall.
LEMMA PhaseFalls ==
  ASSUME NEW e, NEW e2, NEW w \in Nat, NEW w2 \in Nat, NEW r \in Nat, NEW r2 \in Nat,
         NEW s \in Nat, NEW k \in Nat,
         PhaseOf(e, w, r, s, k), e => e2, w2 <= w, r2 <= r
  PROVE  PhaseOf(e2, w2, r2, s, k)
<1>1. CASE w = 0 /\ r = 0 /\ s < k
  BY <1>1 DEF PhaseOf
<1>2. CASE e /\ w <= MaxPrepared /\ r = 0 /\ s < k
  BY <1>2, Sizes DEF PhaseOf
<1>3. CASE e /\ w + PrepareQuorum <= MaxPrepared /\ r <= ConsensusSize /\ s <= k
  BY <1>3, Sizes DEF PhaseOf
<1> QED BY <1>1, <1>2, <1>3 DEF PhaseOf

\* Most steps do no more than to use up what there is.
LEMMA Keeps ==
  ASSUME Ground, Ground', Live, Rewarded,
         UNCHANGED <<verified_message, groupVars, randomValue, groupKey, trust>>,
         busy[Lead] => busy'[Lead],
         \A k \in Nodes : Told(net')[k] <= Told(net)[k],
         Asking' = Asking, Weight' <= Weight, Replied' <= Replied,
         Routes', Ordered',
         \A k \in Nodes : Left(requestQueue', net', k) >= Left(requestQueue, net, k)
  PROVE  Live' /\ Rewarded'
<1>1. Numbers /\ Numbers'
  BY InNumbers, InNumbersNext
<1>2. Lead' = Lead
  BY DEF Lead, groupVars
<1>3. /\ Calm(net) => Calm(net')
      /\ Told(net)[Lead] = 0 => Told(net')[Lead'] = 0
      /\ \A k \in Nodes : Told(net)[k] <= 1 => Told(net')[k] <= 1
  BY <1>1, <1>2 DEF Numbers, Calm
<1>4. Engaged => Engaged'
  BY <1>2, <1>3 DEF Engaged
<1>5. Phase'
  <2>1. PhaseOf(Engaged, Weight, Replied, trust.Sat, groupKey)
    BY DEF Live, Phase
  <2>2. /\ Weight \in Nat /\ Weight' \in Nat /\ Replied \in Nat /\ Replied' \in Nat
        /\ trust.Sat \in Nat /\ groupKey \in Nat
    BY <1>1 DEF Numbers
  <2>3. PhaseOf(Engaged', Weight', Replied', trust.Sat, groupKey)
    BY <1>4, <2>1, <2>2, PhaseFalls
  <2> QED BY <2>3 DEF Phase
<1>6. Asks'
  BY <1>2, <1>3 DEF Live, Asks, AsksOf
<1>7. Tallies'
  BY <1>2 DEF Live, Tallies
<1>8. ToldOnce'
  BY <1>3 DEF Live, ToldOnce
<1>9. NoneOwed'
  <2>1. \A k \in Nodes : Left(requestQueue, net, k) \in Int /\ Left(requestQueue', net', k) \in Int
    BY LeftTypes, LeftTypesNext DEF LeftNumbers
  <2> QED BY <2>1 DEF Live, NoneOwed
<1> QED BY <1>5, <1>6, <1>7, <1>8, <1>9 DEF Live, Rewarded

----------------------------------------------------------------------------
(* What steps preserve on the channels.                                    *)

\* Questions come from the lead and answers go to it, if that is so of what
\* is sent.
LEMMA KeepsRoutes ==
  ASSUME TypeOK, Routes, Lead' = Lead, Calm(net) => Calm(net'),
         NEW n \in Peers, NEW q \in Peers, net[q][n] # <<>>,
         NEW out \in [Peers -> Seq(AnyMessage)], Handle(n, q, out),
         \A b \in Peers : \A m \in Members(out[b]) :
            /\ m \in PCs => n = Lead
            /\ m \in PVs => b = Lead /\ Calm(net')
  PROVE  Routes'
<1> SUFFICES ASSUME NEW a \in Peers, NEW b \in Peers, NEW m \in Members(net'[a][b])
             PROVE  /\ m \in PCs => a = Lead
                    /\ m \in PVs => b = Lead /\ Calm(net')
  BY DEF Routes, Routed
<1>1. net \in Channels(NodeMessage, ClientMessage) /\ out \in [Peers -> Seq(NodeMessage \cup ClientMessage)]
  BY DEF TypeOK, AnyMessage
<1>2. m \in Members(net[a][b]) \/ (a = n /\ m \in Members(out[b]))
  BY <1>1, HandleMembers
<1>3. CASE m \in Members(net[a][b])
  <2>1. Routed(m, a, b)
    BY <1>3 DEF Routes
  <2> QED BY <2>1 DEF Routed
<1>4. CASE a = n /\ m \in Members(out[b])
  BY <1>4
<1> QED BY <1>2, <1>3, <1>4

\* Reading a message off a channel leaves the others in order.
LEMMA OrderTail ==
  ASSUME NEW s \in Seq(AnyMessage), s # <<>>, InOrder(s)
  PROVE  InOrder(Tail(s))
<1> SUFFICES ASSUME NEW i \in Nat, NEW j \in Nat, At(Tail(s), i, PCs), At(Tail(s), j, Close)
             PROVE  j < i
  BY DEF InOrder
<1>1. At(s, i + 1, PCs) /\ At(s, j + 1, Close)
  BY AtPlaces
<1>2. i + 1 \in Nat /\ j + 1 \in Nat
  OBVIOUS
<1>3. j + 1 < i + 1
  BY <1>1, <1>2 DEF InOrder
<1> QED BY <1>3

\* Adding no close keeps the order, and so does adding what is in order to
\* what holds no proposal.
LEMMA OrderAdd ==
  ASSUME NEW s \in Seq(AnyMessage), NEW t \in Seq(AnyMessage),
         \/ InOrder(s) /\ \A i \in Nat : ~At(t, i, Close)
         \/ InOrder(t) /\ \A i \in Nat : ~At(s, i, PCs)
  PROVE  InOrder(s \o t)
<1> SUFFICES ASSUME NEW i \in Nat, NEW j \in Nat, At(s \o t, i, PCs), At(s \o t, j, Close)
             PROVE  j < i
  BY DEF InOrder
<1>1. Len(s) \in Nat
  BY LenProperties
<1>2. /\ i <= Len(s) => At(s, i, PCs)
      /\ i > Len(s) => At(t, i - Len(s), PCs) /\ i - Len(s) \in Nat
      /\ j <= Len(s) => At(s, j, Close)
      /\ j > Len(s) => At(t, j - Len(s), Close) /\ j - Len(s) \in Nat
  BY <1>1, AtPlaces
<1>3. CASE InOrder(s) /\ \A k \in Nat : ~At(t, k, Close)
  <2>1. j <= Len(s)
    BY <1>1, <1>2, <1>3
  <2> QED BY <1>1, <1>2, <1>3, <2>1 DEF InOrder
<1>4. CASE InOrder(t) /\ \A k \in Nat : ~At(s, k, PCs)
  <2>1. i > Len(s)
    BY <1>1, <1>2, <1>4
  <2>2. CASE j <= Len(s)
    BY <1>1, <2>1, <2>2
  <2>3. CASE j > Len(s)
    <3>1. j - Len(s) < i - Len(s)
      BY <1>2, <1>4, <2>1, <2>3 DEF InOrder
    <3> QED BY <1>1, <3>1
  <2> QED BY <1>1, <2>2, <2>3
<1> QED BY <1>3, <1>4

\* No question overtakes a close, if no close is sent behind a question.
LEMMA KeepsOrder ==
  ASSUME TypeOK, Tidy, Ordered,
         NEW n \in Peers, NEW q \in Peers, net[q][n] # <<>>,
         NEW out \in [Peers -> Seq(AnyMessage)], Handle(n, q, out),
         \/ \A b \in Peers : \A i \in Nat : ~At(out[b], i, Close)
         \/ \A b \in Peers : InOrder(out[b]) /\ \A i \in Nat : ~At(net[n][b], i, PCs)
  PROVE  Ordered'
<1> SUFFICES ASSUME NEW a \in Peers, NEW b \in Peers PROVE InOrder(net'[a][b])
  BY DEF Ordered
<1>1. net[a][b] \in Seq(AnyMessage) /\ InOrder(net[a][b]) /\ out[b] \in Seq(AnyMessage)
  BY DEF TypeOK, Channels, AnyMessage, Ordered
<1>2. n # q
  BY DEF Tidy
<1>3. CASE a = q /\ b = n
  <2>1. net'[a][b] = Tail(net[a][b])
    BY <1>3 DEF Handle
  <2> QED BY <1>1, <1>3, <2>1, OrderTail
<1>4. CASE a = n
  <2>1. net'[a][b] = net[a][b] \o out[b]
    BY <1>2, <1>4 DEF Handle
  <2>2. \/ InOrder(net[a][b]) /\ \A i \in Nat : ~At(out[b], i, Close)
        \/ InOrder(out[b]) /\ \A i \in Nat : ~At(net[a][b], i, PCs)
    BY <1>1, <1>4
  <2> QED BY <1>1, <2>1, <2>2, OrderAdd
<1>5. CASE a # n /\ ~(a = q /\ b = n)
  <2>1. net'[a][b] = net[a][b]
    BY <1>5 DEF Handle
  <2> QED BY <1>1, <2>1
<1> QED BY <1>3, <1>4, <1>5

\* Messages that neither ask, nor answer the lead, nor close.
Plain(out) ==
    /\ out \in [Peers -> Seq(AnyMessage)]
    /\ \A b \in Peers : \A m \in Members(out[b]) :
          m.type \notin {"MsgPrimaryConsensus", "MsgPrimaryVerified", "MsgNextRequest"}

\* What is plain: messages that are neither question, answer nor close.
LEMMA PlainSends ==
  /\ Plain(Nothing)
  /\ \A S : \A m \in AnyMessage :
        m.type \notin {"MsgPrimaryConsensus", "MsgPrimaryVerified", "MsgNextRequest"}
            => Plain(To(S, m))
  /\ \A f, g : Plain(f) /\ Plain(g) => Plain(Then(f, g))
<1>1. Plain(Nothing)
  <2>1. Nothing \in [Peers -> Seq(AnyMessage)] /\ \A b \in Peers : Members(Nothing[b]) = {}
    BY NothingSent, ToMembers
  <2> QED BY <2>1 DEF Plain
<1>2. ASSUME NEW S, NEW m \in AnyMessage,
             m.type \notin {"MsgPrimaryConsensus", "MsgPrimaryVerified", "MsgNextRequest"}
      PROVE  Plain(To(S, m))
  <2>1. To(S, m) \in [Peers -> Seq(AnyMessage)] /\ \A b \in Peers : Members(To(S, m)[b]) \subseteq {m}
    BY ToSent, ToMembers
  <2> QED BY <1>2, <2>1 DEF Plain
<1>3. ASSUME NEW f, NEW g, Plain(f), Plain(g) PROVE Plain(Then(f, g))
  <2>1. f \in [Peers -> Seq(AnyMessage)] /\ g \in [Peers -> Seq(AnyMessage)]
    BY <1>3 DEF Plain
  <2>2. Then(f, g) \in [Peers -> Seq(AnyMessage)]
    BY <2>1, ThenSent
  <2>3. ASSUME NEW b \in Peers, NEW m \in Members(Then(f, g)[b])
        PROVE  m.type \notin {"MsgPrimaryConsensus", "MsgPrimaryVerified", "MsgNextRequest"}
    <3>1. Then(f, g)[b] = f[b] \o g[b] /\ f[b] \in Seq(AnyMessage) /\ g[b] \in Seq(AnyMessage)
      BY <2>1 DEF Then
    <3>2. m \in Members(f[b]) \cup Members(g[b])
      BY <3>1, SeqMembers
    <3> QED BY <1>3, <3>2 DEF Plain
  <2> QED BY <2>2, <2>3 DEF Plain
<1> QED BY <1>1, <1>2, <1>3

\* Plain messages are none of the three.
LEMMA PlainKinds ==
  ASSUME NEW out, Plain(out), NEW b \in Peers
  PROVE  /\ \A m \in Members(out[b]) : m \notin PCs /\ m \notin PVs
         /\ \A i \in Nat : ~At(out[b], i, Close) /\ ~At(out[b], i, PCs)
<1>1. \A m \in Members(out[b]) : m \notin PCs /\ m \notin PVs /\ m \notin Close
  BY DEF Plain, PCs, PVs, Close, OfType
<1> QED BY <1>1 DEF At, Members

\* A step that sends plain messages only keeps routes and order.
LEMMA PlainKeeps ==
  ASSUME TypeOK, Tidy, Routes, Ordered, Lead' = Lead, Calm(net) => Calm(net'),
         NEW n \in Peers, NEW q \in Peers, net[q][n] # <<>>,
         NEW out, Plain(out), Handle(n, q, out)
  PROVE  Routes' /\ Ordered'
<1>1. out \in [Peers -> Seq(AnyMessage)]
  BY DEF Plain
<1>2. Routes'
  BY <1>1, PlainKinds, KeepsRoutes
<1>3. Ordered'
  BY <1>1, PlainKinds, KeepsOrder
<1> QED BY <1>2, <1>3

----------------------------------------------------------------------------
(* Steps that keep the phase: the client's.                                *)

\* The client's request changes nothing in the round.
LEMMA MulticastKeeps ==
  ASSUME Ground, Ground', Live, Rewarded, NEW t \in Threads, multicast(t)
  PROVE  Live' /\ Rewarded'
<1>0. TypeOK /\ Tidy /\ Counted /\ Routes /\ Ordered /\ Numbers
  BY InNumbers DEF Ground, Balanced, Live
<1>1. /\ UNCHANGED <<verified_message, groupVars, randomValue, groupKey, trust, busy,
                     prepared_messages, replies, requestQueue>>
  BY DEF multicast, nodeVars
<1>2. ASSUME NEW W, W \subseteq Rest PROVE Count(net', W) = Count(net, W)
  BY <1>0, <1>2, MulticastRest
<1>3. /\ PCs \subseteq Rest /\ PVs \subseteq Rest /\ PreparesOf(groupKey) \subseteq Rest
      /\ PrepreparesOf(groupKey) \subseteq Rest /\ Results \subseteq Rest /\ Acks \subseteq Rest
  BY DEF PCs, PVs, PreparesOf, PrepreparesOf, Results, Acks, OfType, Rest, AnyMessage
<1>4. Asking' = Asking /\ Weight' = Weight /\ Replied' = Replied
  <2>1. /\ Count(net', PCs) = Count(net, PCs) /\ Count(net', PVs) = Count(net, PVs)
        /\ Count(net', PreparesOf(groupKey)) = Count(net, PreparesOf(groupKey))
        /\ Count(net', PrepreparesOf(groupKey)) = Count(net, PrepreparesOf(groupKey))
        /\ Count(net', Results) = Count(net, Results) /\ Count(net', Acks) = Count(net, Acks)
    BY <1>2, <1>3
  <2>2. groupKey' = groupKey /\ prepared_messages' = prepared_messages /\ replies' = replies
    BY <1>1
  <2> QED BY <2>1, <2>2 DEF Asking, Weight, Replied
<1>5. ASSUME NEW k \in Nodes PROVE Told(net')[k] = Told(net)[k]
  BY <1>0, MulticastComing DEF Told
<1>6. \A k \in Nodes : Left(requestQueue', net', k) >= Left(requestQueue, net, k)
  <2> SUFFICES ASSUME NEW k \in Nodes PROVE Left(requestQueue', net', k) >= Left(requestQueue, net, k)
    OBVIOUS
  <2> DEFINE l == Len(requestQueue[k])
             g == Cardinality(Coming(net, k, "MsgGroup"))
             c == Cardinality(Coming(net, k, "MsgNextRequest"))
  <2>1. l \in Nat /\ g \in Nat /\ c \in Nat
    <3>1. requestQueue[k] \in Seq(Entry)
      BY <1>0 DEF TypeOK
    <3> QED BY <1>0, <3>1, FS_CardinalityType DEF Counted
  <2>2. /\ Cardinality(Coming(net', k, "MsgGroup")) = g + 1
        /\ Cardinality(Coming(net', k, "MsgNextRequest")) = c
    BY <1>0, MulticastComing
  <2>3. Left(requestQueue, net, k) = l + g - c /\ Left(requestQueue', net', k) = l + (g + 1) - c
    BY <1>1, <2>2 DEF Left
  <2> HIDE DEF l, g, c
  <2> QED BY <2>1, <2>3
<1>7. \A a, b \in Peers :
         \/ net'[a][b] = net[a][b]
         \/ \E k \in AnyMessage : k.type = "MsgGroup" /\ net'[a][b] = net[a][b] \o <<k>>
  <2> SUFFICES ASSUME NEW a \in Peers, NEW b \in Peers, net'[a][b] # net[a][b]
               PROVE  \E k \in AnyMessage : k.type = "MsgGroup" /\ net'[a][b] = net[a][b] \o <<k>>
    OBVIOUS
  <2>0. Rest \subseteq Rest
    OBVIOUS
  <2>1. PICK k \in AnyMessage : k.type = "MsgGroup" /\ net'[a][b] = Append(net[a][b], k)
    BY <1>0, <2>0, MulticastRest
  <2>2. net[a][b] \in Seq(AnyMessage)
    BY <1>0 DEF TypeOK, Channels, AnyMessage
  <2>3. Append(net[a][b], k) = net[a][b] \o <<k>>
    BY <2>2
  <2> QED BY <2>1, <2>3
<1>8. Calm(net) => Calm(net')
  BY <1>5 DEF Calm
<1>9. Lead' = Lead
  BY <1>1 DEF Lead, groupVars
<1>10. Routes'
  <2> SUFFICES ASSUME NEW a \in Peers, NEW b \in Peers, NEW m \in Members(net'[a][b])
               PROVE  (m \in PCs => a = Lead) /\ (m \in PVs => b = Lead /\ Calm(net'))
    BY <1>9 DEF Routes, Routed
  <2>1. CASE m \in Members(net[a][b])
    <3>1. Routed(m, a, b)
      BY <1>0, <2>1 DEF Routes
    <3> QED BY <1>8, <3>1 DEF Routed
  <2>2. CASE m \notin Members(net[a][b])
    <3>1. PICK k \in AnyMessage : k.type = "MsgGroup" /\ net'[a][b] = net[a][b] \o <<k>>
      BY <1>7, <2>2
    <3>2. net[a][b] \in Seq(AnyMessage) /\ <<k>> \in Seq(AnyMessage)
      BY <1>0, <3>1 DEF TypeOK, Channels, AnyMessage
    <3>3. m \in Members(<<k>>)
      BY <2>2, <3>1, <3>2, SeqMembers
    <3>4. m = k
      BY <3>3 DEF Members
    <3> QED BY <3>1, <3>4, Kinds
  <2> QED BY <2>1, <2>2
<1>11. Ordered'
  <2> SUFFICES ASSUME NEW a \in Peers, NEW b \in Peers PROVE InOrder(net'[a][b])
    BY DEF Ordered
  <2>1. InOrder(net[a][b]) /\ net[a][b] \in Seq(AnyMessage)
    BY <1>0 DEF Ordered, TypeOK, Channels, AnyMessage
  <2>2. ASSUME NEW k \in AnyMessage, k.type = "MsgGroup" PROVE InOrder(net[a][b] \o <<k>>)
    <3>1. <<k>> \in Seq(AnyMessage) /\ \A i \in Nat : ~At(<<k>>, i, Close)
      BY <2>2 DEF At, Close, OfType
    <3> QED BY <2>1, <3>1, OrderAdd
  <2> QED BY <1>7, <2>1, <2>2
<1>12. /\ \A k \in Nodes : Told(net')[k] <= Told(net)[k]
       /\ Weight' <= Weight /\ Replied' <= Replied
       /\ busy[Lead] => busy'[Lead]
  BY <1>0, <1>1, <1>4, <1>5 DEF Numbers
<1> QED BY <1>1, <1>4, <1>6, <1>10, <1>11, <1>12, Keeps

\* What the client reads concerns no close and no request of a node.
LEMMA ReplyTold ==
  ASSUME TypeOK, Counted, NEW c \in Clients, NEW q \in Nodes, reply_handler(c, q), NEW k \in Nodes
  PROVE  /\ Told(net')[k] = Told(net)[k]
         /\ Left(requestQueue', net', k) = Left(requestQueue, net, k)
<1>1. UNCHANGED requestQueue
  BY DEF reply_handler, nodeVars
<1> QED BY <1>1, ReplyComing DEF Told, Left

\* A reply counted is no longer on its way; the one that completes the tally
\* sets it to zero and sends an acknowledgement.
ReplyCounted(c) ==
    /\ Count(net', PCs) = Count(net, PCs) /\ Count(net', PVs) = Count(net, PVs)
    /\ Count(net', PreparesOf(groupKey)) = Count(net, PreparesOf(groupKey))
    /\ Count(net', PrepreparesOf(groupKey)) = Count(net, PrepreparesOf(groupKey))
    /\ Count(net', Results) = Count(net, Results) - 1
    /\ \/ /\ replies[c][TRUE] + 1 >= ReplyQuorum
          /\ replies'[c][TRUE] = 0 /\ Count(net', Acks) = Count(net, Acks) + 1
       \/ /\ replies'[c][TRUE] = replies[c][TRUE] + 1 /\ Count(net', Acks) = Count(net, Acks)

\* What the client counts as a reply was on its way as one, and what it sends
\* on is plain.
LEMMA ReplyCounts ==
  ASSUME Ground, Routes, NEW c \in Clients, NEW q \in Nodes, reply_handler(c, q)
  PROVE  /\ net[q][c] # <<>> /\ Head(net[q][c]).type = "MsgReply" /\ Head(net[q][c]) \in NodeMessage
         /\ c = client /\ replies[c][TRUE] \in Nat
         /\ UNCHANGED <<verified_message, groupVars, randomValue, groupKey, trust, busy,
                        prepared_messages>>
         /\ \E out \in [Peers -> Seq(AnyMessage)] : Plain(out) /\ Handle(c, q, out)
         /\ ReplyCounted(c)
<1> DEFINE m == Head(net[q][c])
           tally == [replies[c] EXCEPT ![m.result] = @ + 1]
           ack == [type |-> "MsgAck"]
           out == IF Enough(tally) THEN To({q}, ack) ELSE Nothing
           a == IF Enough(tally) THEN 1 ELSE 0
<1>0. TypeOK /\ Tidy /\ Counted /\ Numbers /\ SuccessOnly
  BY InNumbers DEF Ground, Balanced
<1>1. /\ UNCHANGED <<verified_message, groupVars, randomValue, groupKey, trust, busy,
                     prepared_messages>>
      /\ replies' = [replies EXCEPT ![c] = Judged(tally)]
      /\ Handle(c, q, out) /\ net[q][c] # <<>> /\ m.type = "MsgReply"
      /\ c \in Peers /\ q \in Peers /\ c = client
  BY ClientAssumption DEF reply_handler, nodeVars, Arrives, Peers
<1>2. m \in NodeMessage /\ m \in AnyMessage /\ m.result = TRUE
  <2>1. net \in Channels(SuccessMessage, ClientMessage) /\ net \in Channels(NodeMessage, ClientMessage)
    BY <1>0 DEF SuccessOnly, TypeOK
  <2>2. m \in SuccessMessage
    BY <1>1, <2>1, HeadOnChannel
  <2> QED BY <1>1, <2>2 DEF SuccessMessage, AnyMessage
<1>3. /\ replies[c] \in [BOOLEAN -> Nat] /\ replies[c][FALSE] = 0
      /\ replies \in [Clients -> [BOOLEAN -> Nat]]
  BY <1>0 DEF TypeOK, SuccessOnly
<1>4. ack \in AnyMessage /\ ack.type = "MsgAck"
  BY DEF AnyMessage, ClientMessage
<1> HIDE DEF ack
<1>5. Sends(c, out, groupKey, 0, 0, 0, 0, 0, a) /\ Plain(out)
  <2>1. CASE Enough(tally)
    <3>1. IsFiniteSet({q}) /\ Cardinality({q} \cap Peers) = 1
      <4>1. {q} \cap Peers = {q}
        BY <1>1
      <4> QED BY <4>1, FS_Singleton
    <3>2. Sends(c, To({q}, ack), groupKey, 0, 0, 0, 0, 0, 1)
      BY <1>1, <1>4, <3>1, SendsTo
    <3>3. Plain(To({q}, ack))
      BY <1>4, PlainSends
    <3> QED BY <2>1, <3>2, <3>3
  <2>2. CASE ~Enough(tally)
    <3>1. Sends(c, Nothing, groupKey, 0, 0, 0, 0, 0, 0)
      BY <1>1, SendsNothing
    <3> QED BY <2>2, <3>1, PlainSends
  <2> QED BY <2>1, <2>2
<1>6. tally[TRUE] = replies[c][TRUE] + 1 /\ tally[FALSE] = 0 /\ replies[c][TRUE] \in Nat
  BY <1>2, <1>3
<1>7. Enough(tally) => replies[c][TRUE] + 1 >= ReplyQuorum
  <2> SUFFICES ASSUME Enough(tally) PROVE tally[TRUE] >= ReplyQuorum
    BY <1>6
  <2> HIDE DEF tally
  <2> DEFINE yes == tally[TRUE]
             no == tally[FALSE]
  <2>1. ReplyQuorum \in Nat /\ ReplyQuorum > 0
    BY SizeAssumption
  <2>2. yes >= ReplyQuorum \/ no >= ReplyQuorum
    BY DEF Enough
  <2>3. no = 0
    BY <1>6
  <2> HIDE DEF yes, no
  <2>4. yes >= ReplyQuorum
    BY <2>1, <2>2, <2>3
  <2> QED BY <2>4 DEF yes
<1>8. replies'[c][TRUE] = IF Enough(tally) THEN 0 ELSE replies[c][TRUE] + 1
  <2>1. replies'[c] = Judged(tally)
    BY <1>1, <1>3
  <2> QED BY <1>6, <2>1 DEF Judged, NoAnswer
<1> HIDE DEF tally, out, m
<1>9. Passed(m, groupKey, 0, 0, 0, 0, 0, a)
  <2>1. out \in [Peers -> Seq(AnyMessage)]
    BY <1>5 DEF Plain
  <2> QED BY <1>0, <1>1, <1>5, <2>1, NewCounts DEF m
<1>10. /\ Count(net', PCs) = Count(net, PCs) /\ Count(net', PVs) = Count(net, PVs)
       /\ Count(net', PreparesOf(groupKey)) = Count(net, PreparesOf(groupKey))
       /\ Count(net', PrepreparesOf(groupKey)) = Count(net, PrepreparesOf(groupKey))
       /\ Count(net', Results) = Count(net, Results) - 1 /\ Count(net', Acks) = Count(net, Acks) + a
  <2>1. /\ In(m, PCs) = 0 /\ In(m, PVs) = 0 /\ In(m, PreparesOf(groupKey)) = 0
        /\ In(m, PrepreparesOf(groupKey)) = 0 /\ In(m, Results) = 1 /\ In(m, Acks) = 0
    <3>1. m \in AnyMessage /\ m.type = "MsgReply"
      BY <1>1, <1>2
    <3> QED BY <3>1, Kinds DEF In
  <2>2. /\ Count(net, PCs) \in Nat /\ Count(net, PVs) \in Nat /\ Count(net, Results) \in Nat
        /\ Count(net, Acks) \in Nat /\ Count(net, PreparesOf(groupKey)) \in Nat
        /\ Count(net, PrepreparesOf(groupKey)) \in Nat /\ a \in Nat
    BY <1>0 DEF Numbers
  <2>3. Passed(m, groupKey, 0, 0, 0, 0, 0, a)
    BY <1>9
  <2> HIDE DEF a
  <2> QED BY <2>1, <2>2, <2>3 DEF Passed
<1>11. \/ /\ replies[c][TRUE] + 1 >= ReplyQuorum
          /\ replies'[c][TRUE] = 0 /\ Count(net', Acks) = Count(net, Acks) + 1
       \/ /\ replies'[c][TRUE] = replies[c][TRUE] + 1 /\ Count(net', Acks) = Count(net, Acks)
  <2>1. Count(net, Acks) + 0 = Count(net, Acks)
    BY <1>0 DEF Numbers
  <2>2. CASE Enough(tally)
    BY <1>7, <1>8, <1>10, <2>2
  <2>3. CASE ~Enough(tally)
    BY <1>8, <1>10, <2>1, <2>3
  <2> QED BY <2>2, <2>3
<1>12. \E o \in [Peers -> Seq(AnyMessage)] : Plain(o) /\ Handle(c, q, o)
  BY <1>1, <1>5 DEF Plain
<1>13. m.type = "MsgReply" /\ m \in NodeMessage
  BY <1>1, <1>2
<1>14. ReplyCounted(c)
  BY <1>10, <1>11 DEF ReplyCounted
<1> QED BY <1>1, <1>6, <1>12, <1>13, <1>14 DEF m

\* An acknowledgement takes the place of as many replies as there are members
\* of the consensus group.
LEMMA ReplyKeeps ==
  ASSUME OneQuorum, Ground, Ground', Live, Rewarded,
         NEW c \in Clients, NEW q \in Nodes, reply_handler(c, q)
  PROVE  Live' /\ Rewarded'
<1>0. TypeOK /\ Counted /\ Routes /\ Ordered /\ Numbers /\ Tidy
  BY InNumbers DEF Ground, Balanced, Live
<1>1. /\ c = client /\ c \in Peers /\ q \in Peers /\ net[q][c] # <<>>
      /\ UNCHANGED <<verified_message, groupVars, randomValue, groupKey, trust, busy,
                     prepared_messages>>
  BY <1>0, ReplyCounts DEF Peers
<1>2. PICK out \in [Peers -> Seq(AnyMessage)] : Plain(out) /\ Handle(c, q, out)
  BY <1>0, ReplyCounts
<1>3. ReplyCounted(c)
  BY <1>0, ReplyCounts
<1>4. Asking' = Asking /\ Weight' = Weight
  <2>1. groupKey' = groupKey /\ prepared_messages' = prepared_messages
    BY <1>1
  <2> QED BY <1>3, <2>1 DEF Asking, Weight, ReplyCounted
<1>5. Replied' <= Replied
  <2> DEFINE r == Count(net, Results)
             t == replies[c][TRUE]
             k == Count(net, Acks)
             d == ConsensusSize * k
  <2>0. r \in Nat /\ t \in Nat /\ k \in Nat
    BY <1>0, <1>1 DEF Numbers
  <2>1. /\ r \in Nat /\ t \in Nat /\ k \in Nat /\ d \in Nat
        /\ ConsensusSize * (k + 1) = d + ConsensusSize
    <3>1. ConsensusSize \in Nat
      BY Sizes
    <3> HIDE DEF k
    <3>2. ConsensusSize * k \in Nat
      BY <2>0, <3>1
    <3>3. ConsensusSize * (k + 1) = ConsensusSize * k + ConsensusSize
      BY <2>0, <3>1
    <3> QED BY <2>0, <3>2, <3>3
  <2>2. Replied = (r + t) + d
    BY <1>1 DEF Replied
  <2>3. /\ Replied' = ((r - 1) + replies'[c][TRUE]) + ConsensusSize * Count(net', Acks)
        /\ \/ t + 1 >= ReplyQuorum /\ replies'[c][TRUE] = 0 /\ Count(net', Acks) = k + 1
           \/ replies'[c][TRUE] = t + 1 /\ Count(net', Acks) = k
    BY <1>1, <1>3 DEF Replied, ReplyCounted
  <2> HIDE DEF r, t, k
  <2>4. CASE t + 1 >= ReplyQuorum /\ replies'[c][TRUE] = 0 /\ Count(net', Acks) = k + 1
    <3>1. Replied' = ((r - 1) + 0) + (d + ConsensusSize)
      BY <2>1, <2>3, <2>4
    <3> HIDE DEF d
    <3> QED BY <2>1, <2>2, <2>4, <3>1, Sizes DEF OneQuorum
  <2>5. CASE replies'[c][TRUE] = t + 1 /\ Count(net', Acks) = k
    <3>1. Replied' = ((r - 1) + (t + 1)) + d
      BY <2>3, <2>5
    <3> HIDE DEF d
    <3> QED BY <2>1, <2>2, <3>1
  <2> QED BY <2>3, <2>4, <2>5
<1>6. \A k \in Nodes : /\ Told(net')[k] = Told(net)[k]
                       /\ Left(requestQueue', net', k) = Left(requestQueue, net, k)
  BY <1>0, ReplyTold
<1>7. Lead' = Lead /\ (Calm(net) => Calm(net'))
  BY <1>1, <1>6 DEF Lead, groupVars, Calm
<1>8. Routes' /\ Ordered'
  BY <1>0, <1>1, <1>2, <1>7, PlainKeeps
<1>9. /\ \A k \in Nodes : Told(net')[k] <= Told(net)[k]
      /\ \A k \in Nodes : Left(requestQueue', net', k) >= Left(requestQueue, net, k)
      /\ Weight' <= Weight /\ (busy[Lead] => busy'[Lead])
  <2>1. LeftNumbers
    BY LeftTypes
  <2> QED BY <1>0, <1>1, <1>4, <1>6, <2>1 DEF Numbers, LeftNumbers
<1> QED BY <1>1, <1>4, <1>5, <1>8, <1>9, Keeps

----------------------------------------------------------------------------
(* Steps of nodes that keep the phase.                                     *)

\* A step that closes no round takes nothing off what is left of a queue.
LEMMA LeftKept ==
  ASSUME Ground, NEW n \in Nodes, NEW q \in Peers, Node(n, q), UNCHANGED groupKey
  PROVE  \A k \in Nodes : Left(requestQueue', net', k) >= Left(requestQueue, net, k)
<1>0. TypeOK /\ Counted /\ LeftNumbers /\ groupKey \in Nat
  BY LeftTypes DEF Ground, Balanced, TypeOK
<1>1. ~CloseRound(n, q)
  BY <1>0 DEF CloseRound, changeGroupKey
<1>2. (aborted' /\ UNCHANGED <<requestQueue, net>>) \/ Shifts(0)
  BY <1>0, <1>1, NodeShifts
<1>3. CASE UNCHANGED <<requestQueue, net>>
  <2> SUFFICES ASSUME NEW k \in Nodes PROVE Left(requestQueue', net', k) >= Left(requestQueue, net, k)
    OBVIOUS
  <2>1. requestQueue' = requestQueue /\ net' = net
    BY <1>3
  <2>2. Left(requestQueue', net', k) = Left(requestQueue, net, k)
    BY <2>1
  <2> QED BY <1>0, <2>2 DEF LeftNumbers
<1>4. CASE Shifts(0)
  BY <1>0, <1>4 DEF Shifts, LeftNumbers
<1> QED BY <1>2, <1>3, <1>4

\* Plain messages of a node tell nobody of a request or a close.
LEMMA PlainIsQuiet ==
  ASSUME NEW out \in [Peers -> Seq(NodeMessage)], Plain(out)
  PROVE  Quiet(out)
BY PlainKinds DEF Quiet

\* A node step that sends plain messages leaves the closes alone.
LEMMA PlainTold ==
  ASSUME Ground, NEW n \in Nodes, NEW q \in Peers, net[q][n] # <<>>,
         Head(net[q][n]).type # "MsgNextRequest",
         NEW out \in [Peers -> Seq(NodeMessage)], Quiet(out), Handle(n, q, out)
  PROVE  Told(net') = Told(net) /\ (Calm(net) => Calm(net'))
<1>1. TypeOK /\ Counted /\ 0 \in {0, 1}
  BY DEF Ground, Balanced
<1>2. Tells(n, out, 0)
  BY DEF Tells
<1>3. Told(net') = Told(net)
  BY <1>1, <1>2, NewTold
<1> QED BY <1>3 DEF Calm

\* A step of a node keeps the invariant if it sends plain messages and adds
\* neither weight nor replies.
LEMMA NodeKeeps ==
  ASSUME Ground, Ground', Live, Rewarded, NEW n \in Nodes, NEW q \in Peers, Node(n, q),
         net[q][n] # <<>>, Head(net[q][n]) \in AnyMessage,
         Head(net[q][n]).type \notin {"MsgPrimaryConsensus", "MsgPrimaryVerified", "MsgNextRequest"},
         NEW out \in [Peers -> Seq(NodeMessage)], Plain(out), Handle(n, q, out),
         UNCHANGED <<verified_message, groupVars, randomValue, groupKey, trust>>,
         busy[Lead] => busy'[Lead],
         NEW p, NEW pp, NEW r, NEW a, Sends(n, out, groupKey, 0, 0, p, pp, r, a),
         Weight' <= Weight, Replied' <= Replied
  PROVE  Live' /\ Rewarded'
<1>0. /\ TypeOK /\ Tidy /\ Routes /\ Ordered /\ Numbers /\ n \in Peers
      /\ out \in [Peers -> Seq(AnyMessage)]
  BY InNumbers DEF Ground, Live, Peers, Plain
<1>1. Lead' = Lead
  BY DEF Lead, groupVars
<1>2. Told(net') = Told(net) /\ (Calm(net) => Calm(net'))
  BY PlainIsQuiet, PlainTold
<1>3. Routes' /\ Ordered'
  BY <1>0, <1>1, <1>2, PlainKeeps
<1>4. Passed(Head(net[q][n]), groupKey, 0, 0, p, pp, r, a)
  BY <1>0, NewCounts
<1>5. Asking' = Asking
  <2>1. In(Head(net[q][n]), PCs) = 0 /\ In(Head(net[q][n]), PVs) = 0
    BY Kinds DEF In
  <2>2. Count(net', PCs) = Count(net, PCs) + 0 - 0 /\ Count(net', PVs) = Count(net, PVs) + 0 - 0
    BY <1>4, <2>1 DEF Passed
  <2>3. Count(net', PCs) = Count(net, PCs) /\ Count(net', PVs) = Count(net, PVs)
    BY <1>0, <2>2 DEF Numbers
  <2> QED BY <2>3 DEF Asking
<1>6. \A k \in Nodes : Told(net')[k] <= Told(net)[k]
  BY <1>0, <1>2 DEF Numbers
<1> QED BY <1>3, <1>5, <1>6, LeftKept, Keeps

\* The counts of a step of n that takes m and sends these.
LEMMA NodeCounts ==
  ASSUME Ground, NEW n \in Nodes, NEW q \in Peers, net[q][n] # <<>>,
         NEW m, m = Head(net[q][n]), m \in AnyMessage,
         NEW out \in [Peers -> Seq(NodeMessage)], Handle(n, q, out),
         NEW c \in Nat, NEW v \in Nat, NEW p \in Nat, NEW pp \in Nat, NEW r \in Nat,
         Sends(n, out, groupKey, c, v, p, pp, r, 0)
  PROVE  /\ Count(net', PCs) = Count(net, PCs) + c
              - (IF m.type = "MsgPrimaryConsensus" THEN 1 ELSE 0)
         /\ Count(net', PVs) = Count(net, PVs) + v
              - (IF m.type = "MsgPrimaryVerified" THEN 1 ELSE 0)
         /\ Count(net', PreparesOf(groupKey)) = Count(net, PreparesOf(groupKey)) + p
              - (IF m.type = "MsgPrepare" /\ m.groupSign.key = groupKey THEN 1 ELSE 0)
         /\ Count(net', PrepreparesOf(groupKey)) = Count(net, PrepreparesOf(groupKey)) + pp
              - (IF m.type = "MsgPreprepare" /\ m.signature.key = groupKey THEN 1 ELSE 0)
         /\ Count(net', Results) = Count(net, Results) + r
              - (IF m.type \in {"MsgSend", "MsgReply"} THEN 1 ELSE 0)
         /\ Count(net', Acks) = Count(net, Acks) + 0 - (IF m.type = "MsgAck" THEN 1 ELSE 0)
<1>0. /\ TypeOK /\ Tidy /\ n \in Peers
      /\ out \in [Peers -> Seq(AnyMessage)]
  <2>1. \A b \in Peers : out[b] \in Seq(AnyMessage)
    BY DEF AnyMessage
  <2> QED BY <2>1 DEF Ground, Peers
<1>1. Passed(m, groupKey, c, v, p, pp, r, 0)
  BY <1>0, NewCounts
<1> QED BY <1>1, Kinds DEF Passed, In

\* To send nothing is plain, and sends none of any kind.
LEMMA NothingPlain ==
  ASSUME NEW n \in Nodes, NEW k
  PROVE  /\ Nothing \in [Peers -> Seq(NodeMessage)] /\ Plain(Nothing)
         /\ Sends(n, Nothing, k, 0, 0, 0, 0, 0, 0)
BY NothingSent, PlainSends, SendsNothing DEF Peers

\* A request arrives at a node that does not lead with it.
LEMMA GroupKeeps ==
  ASSUME Ground, Ground', Live, Rewarded, NEW n \in Nodes, NEW q \in Peers,
         group_request_handler(n, q), busy[n] \/ n # Lead
  PROVE  Live' /\ Rewarded'
<1> DEFINE m == Head(net[q][n])
           queue == Enqueue(requestQueue[n], [client |-> q, message |-> m.message])
<1>1. /\ net[q][n] # <<>> /\ m.type = "MsgGroup"
      /\ UNCHANGED <<verified_message, randomValue, groupVars, groupKey, trust,
                     prepared_messages, replies>>
      /\ \/ busy[n] /\ Handle(n, q, Nothing) /\ UNCHANGED busy
         \/ Process(n, queue, Empty) /\ Handle(n, q, Proposal(n, queue)) /\ n # Lead
  BY DEF group_request_handler, Arrives, clientVars
<1> HIDE DEF queue
<1>2. m \in AnyMessage
  BY <1>1, NodeHead
<1>3. Handle(n, q, Nothing) /\ (busy[Lead] => busy'[Lead])
  <2>1. CASE n # Lead /\ Process(n, queue, Empty) /\ Handle(n, q, Proposal(n, queue))
    <3>1. Lead' = Lead
      BY <1>1 DEF Lead, groupVars
    <3>2. Proposal(n, queue) = Nothing
      BY <2>1, <3>1 DEF Proposal, Lead
    <3>3. busy' = [busy EXCEPT ![n] = queue # <<>>]
      BY <2>1 DEF Process
    <3>4. busy \in [Nodes -> BOOLEAN] /\ Lead \in Nodes
      BY InNumbers DEF Ground, TypeOK, Numbers
    <3>5. busy'[Lead] = busy[Lead]
      BY <2>1, <3>3, <3>4
    <3> QED BY <2>1, <3>2, <3>5
  <2> QED BY <1>1, <2>1
<1>4. /\ Nothing \in [Peers -> Seq(NodeMessage)] /\ Plain(Nothing)
      /\ Sends(n, Nothing, groupKey, 0, 0, 0, 0, 0, 0)
  BY NothingPlain
<1>5. Numbers
  BY InNumbers
<1> HIDE DEF m
<1>6. /\ Count(net', PreparesOf(groupKey)) = Count(net, PreparesOf(groupKey)) + 0 - 0
      /\ Count(net', PrepreparesOf(groupKey)) = Count(net, PrepreparesOf(groupKey)) + 0 - 0
      /\ Count(net', Results) = Count(net, Results) + 0 - 0
      /\ Count(net', Acks) = Count(net, Acks) + 0 - 0
  <2>1. 0 \in Nat
    OBVIOUS
  <2> QED BY <1>1, <1>2, <1>3, <1>4, <2>1, NodeCounts DEF m
<1>7. /\ Count(net', PreparesOf(groupKey)) = Count(net, PreparesOf(groupKey))
      /\ Count(net', PrepreparesOf(groupKey)) = Count(net, PrepreparesOf(groupKey))
      /\ Count(net', Results) = Count(net, Results)
      /\ Count(net', Acks) = Count(net, Acks)
  BY <1>5, <1>6 DEF Numbers
<1>8. Weight' <= Weight /\ Replied' <= Replied
  <2>1. groupKey' = groupKey /\ prepared_messages' = prepared_messages /\ replies' = replies
    BY <1>1
  <2>2. Weight' = Weight /\ Replied' = Replied
    BY <1>7, <2>1 DEF Weight, Replied
  <2> QED BY <1>5, <2>2 DEF Numbers
<1>9. Node(n, q)
  BY DEF Node
<1> QED BY <1>1, <1>2, <1>3, <1>4, <1>8, <1>9, NodeKeeps DEF m

\* The weight falls with its parts.
LEMMA WeightFalls ==
  ASSUME Numbers, Numbers', groupKey' = groupKey, prepared_messages' <= prepared_messages,
         Count(net', PreparesOf(groupKey)) <= Count(net, PreparesOf(groupKey)),
         Count(net', PrepreparesOf(groupKey)) <= Count(net, PrepreparesOf(groupKey))
  PROVE  Weight' <= Weight
<1> DEFINE x == Count(net, PrepreparesOf(groupKey))
           y == Count(net', PrepreparesOf(groupKey))
           c == ConsensusSize - 1
           p == Count(net, PreparesOf(groupKey))
           p2 == Count(net', PreparesOf(groupKey))
<1>1. x \in Nat /\ c \in Nat /\ p \in Nat /\ prepared_messages \in Nat
  BY Sizes DEF Numbers
<1>2. y \in Nat /\ p2 \in Nat /\ prepared_messages' \in Nat
  <2>1. /\ Count(net', PreparesOf(groupKey')) \in Nat /\ Count(net', PrepreparesOf(groupKey')) \in Nat
        /\ prepared_messages' \in Nat
    BY DEF Numbers
  <2> QED BY <2>1
<1>3. Weight = (prepared_messages + p) + c * x
  BY DEF Weight
<1>4. Weight' = (prepared_messages' + p2) + c * y
  BY DEF Weight
<1>5. y <= x /\ p2 <= p
  OBVIOUS
<1> HIDE DEF x, y, c, p, p2
<1> DEFINE cx == c * x
           cy == c * y
<1>6. cy <= cx /\ cy \in Nat /\ cx \in Nat
  BY <1>1, <1>2, <1>5, Multiply
<1> DEFINE u == prepared_messages
           u2 == prepared_messages'
<1>7. Weight = (u + p) + cx /\ Weight' = (u2 + p2) + cy /\ u2 <= u /\ u \in Nat /\ u2 \in Nat
  BY <1>1, <1>2, <1>3, <1>4
<1> HIDE DEF cx, cy, u, u2
<1>8. (u2 + p2) + cy <= (u + p) + cx
  BY <1>1, <1>2, <1>5, <1>6, <1>7
<1> QED BY <1>7, <1>8

\* A result is passed on to the client, or to nobody.
LEMMA SendKeeps ==
  ASSUME Ground, Ground', Live, Rewarded, NEW n \in Nodes, NEW q \in Peers,
         send_reply_handler(n, q)
  PROVE  Live' /\ Rewarded'
<1> DEFINE m == Head(net[q][n])
           k == [type |-> "MsgReply", result |-> m.sendReply, order |-> m.order]
           out == Reply(n, m.order, m.sendReply)
           r == Cardinality({client_id[n]} \cap Peers)
<1>1. /\ net[q][n] # <<>> /\ m.type = "MsgSend"
      /\ UNCHANGED <<verified_message, randomValue, groupVars, groupKey, trust, replies, busy>>
      /\ prepared_messages' = 0
      /\ Handle(n, q, out)
  BY DEF send_reply_handler, Arrives, clientVars, nodeVars, clearPreparedMessages
<1>2. m \in AnyMessage /\ m \in NodeMessage /\ n \in Peers
  BY <1>1, NodeHead
<1>3. m.order \in Nat /\ m.sendReply \in BOOLEAN
  BY <1>1, <1>2, NodeMessageFields
<1>4. k \in NodeMessage /\ k \in AnyMessage /\ k.type = "MsgReply"
  BY <1>3 DEF AnyMessage, NodeMessage
<1>5. out = To({client_id[n]}, k)
  BY DEF Reply
<1> HIDE DEF k
<1>6. out \in [Peers -> Seq(NodeMessage)] /\ Plain(out)
  BY <1>4, <1>5, ToSent, PlainSends
<1>7. IsFiniteSet({client_id[n]}) /\ r \in Nat /\ r <= 1
  <2>1. IsFiniteSet({client_id[n]}) /\ Cardinality({client_id[n]}) = 1
    BY FS_Singleton
  <2>2. {client_id[n]} \cap Peers \subseteq {client_id[n]}
    OBVIOUS
  <2>3. r \in Nat /\ r <= Cardinality({client_id[n]})
    BY <2>1, <2>2, FS_Subset, FS_CardinalityType
  <2> QED BY <2>1, <2>3
<1>8. Sends(n, out, groupKey, 0, 0, 0, 0, r, 0)
  BY <1>2, <1>4, <1>5, <1>7, SendsTo
<1> HIDE DEF m, out, r
<1>9. Numbers /\ Numbers'
  BY InNumbers, InNumbersNext
<1>10. /\ Count(net', PreparesOf(groupKey)) = Count(net, PreparesOf(groupKey)) + 0 - 0
       /\ Count(net', PrepreparesOf(groupKey)) = Count(net, PrepreparesOf(groupKey)) + 0 - 0
       /\ Count(net', Results) = Count(net, Results) + r - 1
       /\ Count(net', Acks) = Count(net, Acks) + 0 - 0
  <2>1. 0 \in Nat
    OBVIOUS
  <2>2. m = Head(net[q][n])
    BY DEF m
  <2>3. net[q][n] # <<>> /\ m \in AnyMessage /\ Handle(n, q, out) /\ m.type = "MsgSend"
    BY <1>1, <1>2
  <2>4. out \in [Peers -> Seq(NodeMessage)] /\ r \in Nat
    BY <1>6, <1>7
  <2> QED BY <1>8, <2>1, <2>2, <2>3, <2>4, NodeCounts
<1>11. Weight' <= Weight
  <2>1. prepared_messages \in Nat /\ prepared_messages' <= prepared_messages
    BY <1>1, <1>9 DEF Numbers
  <2>2. /\ Count(net', PreparesOf(groupKey)) <= Count(net, PreparesOf(groupKey))
        /\ Count(net', PrepreparesOf(groupKey)) <= Count(net, PrepreparesOf(groupKey))
    BY <1>9, <1>10 DEF Numbers
  <2> QED BY <1>1, <1>9, <2>1, <2>2, WeightFalls
<1>12. Replied' <= Replied
  <2> DEFINE x == Count(net, Results)
             d == ConsensusSize * Count(net, Acks)
             t == replies[client][TRUE]
  <2>0. Count(net, Acks) \in Nat /\ x \in Nat /\ t \in Nat
    BY <1>9 DEF Numbers
  <2>1. d \in Nat
    BY <2>0, Sizes, Multiply
  <2>2. Replied = (x + t) + d
    BY DEF Replied
  <2>3. Replied' = (Count(net', Results) + t) + ConsensusSize * Count(net', Acks)
    BY <1>1 DEF Replied
  <2>4. Count(net', Acks) = Count(net, Acks)
    BY <1>10, <2>0
  <2>5. Replied' = ((x + r - 1) + t) + d
    BY <1>10, <2>3, <2>4
  <2> HIDE DEF x, d, t
  <2> QED BY <1>7, <2>0, <2>1, <2>2, <2>5
<1>13. Node(n, q)
  BY DEF Node
<1> QED BY <1>1, <1>2, <1>6, <1>8, <1>11, <1>12, <1>13, NodeKeeps DEF m

\* If nothing is sent, the kinds lose the message read.
LEMMA NothingCounts ==
  ASSUME Ground, NEW n \in Nodes, NEW q \in Peers, net[q][n] # <<>>,
         NEW m, m = Head(net[q][n]), Handle(n, q, Nothing)
  PROVE  /\ Count(net', PreparesOf(groupKey)) = Count(net, PreparesOf(groupKey)) + 0
              - (IF m.type = "MsgPrepare" /\ m.groupSign.key = groupKey THEN 1 ELSE 0)
         /\ Count(net', PrepreparesOf(groupKey)) = Count(net, PrepreparesOf(groupKey)) + 0
              - (IF m.type = "MsgPreprepare" /\ m.signature.key = groupKey THEN 1 ELSE 0)
         /\ Count(net', Results) = Count(net, Results) + 0
              - (IF m.type \in {"MsgSend", "MsgReply"} THEN 1 ELSE 0)
         /\ Count(net', Acks) = Count(net, Acks) + 0 - (IF m.type = "MsgAck" THEN 1 ELSE 0)
<1>1. /\ Nothing \in [Peers -> Seq(NodeMessage)]
      /\ Sends(n, Nothing, groupKey, 0, 0, 0, 0, 0, 0)
  BY NothingPlain
<1>2. m \in AnyMessage /\ 0 \in Nat
  BY NodeHead
<1> QED BY <1>1, <1>2, NodeCounts

\* A prepare for every other member of the group weighs what the pre-prepare
\* weighed that it answers; an unverified pre-prepare is lost.
LEMMA PreprepareKeeps ==
  ASSUME Ground, Ground', Live, Rewarded, NEW n \in Nodes, NEW q \in Peers,
         preprepare_handler(n, q)
  PROVE  Live' /\ Rewarded'
<1> DEFINE m == Head(net[q][n])
           verify == VerifySignature(m.order, client_request[n], m.signature, groupKey)
           k == [type |-> "MsgPrepare", order |-> m.order, groupSign |-> m.signature,
                 peerSign |-> Sign(n, m.order, client_request[n])]
           S == Members(consensusGroup) \ {n}
           P == Count(net, PreparesOf(groupKey))
           PP == Count(net, PrepreparesOf(groupKey))
           c == ConsensusSize - 1
<1>1. /\ net[q][n] # <<>> /\ m.type = "MsgPreprepare"
      /\ UNCHANGED <<verified_message, randomValue, groupVars, groupKey, trust, replies, busy,
                     prepared_messages>>
      /\ Handle(n, q, IF verify THEN To(S, k) ELSE Nothing)
  BY DEF preprepare_handler, Arrives, clientVars, nodeVars
<1>2. m = Head(net[q][n]) /\ m \in AnyMessage /\ m \in NodeMessage /\ n \in Peers /\ m \in Members(net[q][n])
  BY <1>1, NodeHead
<1>3. m.order \in Nat /\ m.signature \in GroupSignature
  BY <1>1, <1>2, NodeMessageFields
<1>4. k \in NodeMessage /\ k \in AnyMessage /\ k.type = "MsgPrepare" /\ k.groupSign = m.signature
  <2>1. client_request[n] \in Texts
    BY DEF Ground, TypeOK
  <2> QED BY <1>3, <2>1, PeerSigned DEF AnyMessage, NodeMessage
<1>5. Numbers /\ Numbers' /\ Node(n, q) /\ c \in Nat
  BY InNumbers, InNumbersNext, Sizes DEF Node
<1>6. P \in Nat /\ PP \in Nat /\ prepared_messages \in Nat
  BY <1>5 DEF Numbers
<1>7. ASSUME verify PROVE Live' /\ Rewarded'
  <2>1. m.signature.key = groupKey
    BY <1>7 DEF VerifySignature, Sign
  <2>2. n \in Members(consensusGroup)
    <3>1. Placed(m, q, n)
      BY <1>2 DEF Ground, AllPlaced
    <3> QED BY <1>1, <2>1, <3>1 DEF Placed
  <2>3. IsFiniteSet(S) /\ Cardinality(S \cap Peers) = c
    <3>1. /\ IsFiniteSet(Members(consensusGroup)) /\ Cardinality(Members(consensusGroup)) = ConsensusSize
          /\ Members(consensusGroup) \subseteq Nodes
      BY GroupsAsSets DEF GroupSets, Ground
    <3>2. S \cap Peers = S
      BY <3>1 DEF Peers
    <3> QED BY <2>2, <3>1, <3>2, FS_RemoveElement
  <2> HIDE DEF m, k, S, c
  <2>4. Sends(n, To(S, k), groupKey, 0, 0, c, 0, 0, 0)
    <3>1. k.groupSign.key = groupKey
      BY <1>4, <2>1
    <3> QED BY <1>2, <1>4, <2>3, <3>1, SendsTo
  <2>5. Handle(n, q, To(S, k)) /\ To(S, k) \in [Peers -> Seq(NodeMessage)] /\ Plain(To(S, k))
    BY <1>1, <1>4, <1>7, ToSent, PlainSends
  <2>6. /\ Count(net', PreparesOf(groupKey)) = P + c - 0
        /\ Count(net', PrepreparesOf(groupKey)) = PP + 0 - 1
        /\ Count(net', Results) = Count(net, Results) + 0 - 0
        /\ Count(net', Acks) = Count(net, Acks) + 0 - 0
    <3>1. 0 \in Nat
      OBVIOUS
    <3>2. net[q][n] # <<>> /\ m.type = "MsgPreprepare" /\ m = Head(net[q][n]) /\ m \in AnyMessage
      BY <1>1, <1>2
    <3> QED BY <1>5, <2>1, <2>4, <2>5, <3>1, <3>2, NodeCounts
  <2>7. Weight' = Weight
    <3>1. Weight = (prepared_messages + P) + c * PP
      BY DEF Weight, c
    <3>2. Weight' = (prepared_messages + (P + c)) + c * (PP - 1)
      <4>1. Count(net', PreparesOf(groupKey)) = P + c /\ Count(net', PrepreparesOf(groupKey)) = PP - 1
        BY <1>5, <1>6, <2>6
      <4>2. Weight' = (prepared_messages + Count(net', PreparesOf(groupKey)))
                         + c * Count(net', PrepreparesOf(groupKey))
        BY <1>1 DEF Weight, c
      <4> QED BY <4>1, <4>2
    <3> HIDE DEF P, PP
    <3> DEFINE u == prepared_messages
               d == c * PP
    <3>3. c * (PP - 1) = d - c /\ d \in Nat /\ u \in Nat
      BY <1>5, <1>6, Multiply
    <3>4. Weight = (u + P) + d /\ Weight' = (u + (P + c)) + (d - c)
      BY <3>1, <3>2, <3>3
    <3> HIDE DEF u, d
    <3> QED BY <1>5, <1>6, <3>3, <3>4
  <2>8. Replied' = Replied
    <3>1. Count(net', Results) = Count(net, Results) /\ Count(net', Acks) = Count(net, Acks)
      BY <1>5, <2>6 DEF Numbers
    <3> QED BY <1>1, <3>1 DEF Replied
  <2>9. Weight' <= Weight /\ Replied' <= Replied
    BY <1>5, <2>7, <2>8 DEF Numbers
  <2> QED BY <1>1, <1>2, <1>5, <2>4, <2>5, <2>9, NodeKeeps DEF m
<1>8. ASSUME ~verify PROVE Live' /\ Rewarded'
  <2>1. /\ Nothing \in [Peers -> Seq(NodeMessage)] /\ Plain(Nothing)
        /\ Sends(n, Nothing, groupKey, 0, 0, 0, 0, 0, 0)
    BY NothingPlain
  <2>2. Handle(n, q, Nothing)
    BY <1>1, <1>8
  <2> HIDE DEF m, k, S, c, verify
  <2>3. /\ Count(net', PreparesOf(groupKey)) = P + 0 - 0
        /\ Count(net', PrepreparesOf(groupKey)) = PP + 0 - (IF m.signature.key = groupKey THEN 1 ELSE 0)
        /\ Count(net', Results) = Count(net, Results) + 0 - 0
        /\ Count(net', Acks) = Count(net, Acks) + 0 - 0
    <3>1. 0 \in Nat
      OBVIOUS
    <3>2. net[q][n] # <<>> /\ m.type = "MsgPreprepare" /\ m = Head(net[q][n]) /\ m \in AnyMessage
      BY <1>1, <1>2
    <3>3. /\ Count(net', PreparesOf(groupKey)) = P + 0
              - (IF m.type = "MsgPrepare" /\ m.groupSign.key = groupKey THEN 1 ELSE 0)
          /\ Count(net', PrepreparesOf(groupKey)) = PP + 0
              - (IF m.type = "MsgPreprepare" /\ m.signature.key = groupKey THEN 1 ELSE 0)
          /\ Count(net', Results) = Count(net, Results) + 0
              - (IF m.type \in {"MsgSend", "MsgReply"} THEN 1 ELSE 0)
          /\ Count(net', Acks) = Count(net, Acks) + 0 - (IF m.type = "MsgAck" THEN 1 ELSE 0)
      BY <2>2, <3>2, NothingCounts
    <3> QED BY <3>2, <3>3
  <2>4. Weight' <= Weight
    <3>1. Count(net', PreparesOf(groupKey)) <= P /\ Count(net', PrepreparesOf(groupKey)) <= PP
      BY <1>6, <2>3
    <3>2. prepared_messages' <= prepared_messages /\ groupKey' = groupKey
      BY <1>1, <1>6
    <3> QED BY <1>5, <3>1, <3>2, WeightFalls
  <2>5. Replied' = Replied
    <3>1. Count(net', Results) = Count(net, Results) /\ Count(net', Acks) = Count(net, Acks)
      BY <1>5, <2>3 DEF Numbers
    <3> QED BY <1>1, <3>1 DEF Replied
  <2>6. Replied' <= Replied
    BY <1>5, <2>5 DEF Numbers
  <2> QED BY <1>1, <1>2, <1>5, <2>1, <2>2, <2>4, <2>6, NodeKeeps DEF m
<1> QED BY <1>7, <1>8

\* A prepare that is counted below the quorum was on its way as a prepare.
LEMMA PrepareKeeps ==
  ASSUME Ground, Ground', Live, Rewarded, NEW n \in Nodes, NEW q \in Peers,
         prepare_handler(n, q), Handle(n, q, Nothing),
         prepared_messages' = Prepared(n, q, Head(net[q][n])),
         UNCHANGED <<nodeVars, groupKey, groupVars, trust>>
  PROVE  Live' /\ Rewarded'
<1> DEFINE m == Head(net[q][n])
           P == Count(net, PreparesOf(groupKey))
           PP == Count(net, PrepreparesOf(groupKey))
<1>1. /\ net[q][n] # <<>> /\ m.type = "MsgPrepare"
      /\ UNCHANGED <<verified_message, randomValue, groupVars, groupKey, trust, replies, busy>>
  BY DEF prepare_handler, Arrives, clientVars, nodeVars
<1>2. m = Head(net[q][n]) /\ m \in AnyMessage
  BY <1>1, NodeHead
<1>3. Numbers /\ Numbers' /\ Node(n, q)
  BY InNumbers, InNumbersNext DEF Node
<1>4. P \in Nat /\ PP \in Nat /\ prepared_messages \in Nat
  BY <1>3 DEF Numbers
<1>5. /\ Nothing \in [Peers -> Seq(NodeMessage)] /\ Plain(Nothing)
      /\ Sends(n, Nothing, groupKey, 0, 0, 0, 0, 0, 0)
  BY NothingPlain
<1> HIDE DEF m
<1>6. /\ Count(net', PreparesOf(groupKey)) = P + 0 - (IF m.groupSign.key = groupKey THEN 1 ELSE 0)
      /\ Count(net', PrepreparesOf(groupKey)) = PP + 0 - 0
      /\ Count(net', Results) = Count(net, Results) + 0 - 0
      /\ Count(net', Acks) = Count(net, Acks) + 0 - 0
  <2>1. 0 \in Nat
    OBVIOUS
  <2> QED BY <1>1, <1>2, <1>5, <2>1, NodeCounts
<1>7. \/ prepared_messages' = prepared_messages
      \/ prepared_messages' = prepared_messages + 1 /\ m.groupSign.key = groupKey
  BY <1>1, <1>2, PrepareTaken DEF m
<1>8. Weight' <= Weight
  <2>1. CASE prepared_messages' = prepared_messages
    <3>1. Count(net', PreparesOf(groupKey)) <= P /\ Count(net', PrepreparesOf(groupKey)) <= PP
      BY <1>4, <1>6
    <3> QED BY <1>1, <1>3, <1>4, <2>1, <3>1, WeightFalls
  <2>2. CASE prepared_messages' = prepared_messages + 1 /\ m.groupSign.key = groupKey
    <3> DEFINE d == (ConsensusSize - 1) * PP
               u == prepared_messages
    <3>1. Count(net', PreparesOf(groupKey)) = P - 1 /\ Count(net', PrepreparesOf(groupKey)) = PP
      BY <1>4, <1>6, <2>2
    <3>2. Weight = (u + P) + d
      BY DEF Weight
    <3>3. Weight' = ((u + 1) + (P - 1)) + d
      <4>1. Weight' = (prepared_messages' + Count(net', PreparesOf(groupKey)))
                         + (ConsensusSize - 1) * Count(net', PrepreparesOf(groupKey))
        BY <1>1 DEF Weight
      <4> QED BY <2>2, <3>1, <4>1
    <3>4. d \in Nat /\ u \in Nat
      BY <1>4, Sizes, Multiply
    <3> HIDE DEF d, u, P
    <3> QED BY <1>4, <3>2, <3>3, <3>4
  <2> QED BY <1>7, <2>1, <2>2
<1>9. Replied' <= Replied
  <2>1. Count(net', Results) = Count(net, Results) /\ Count(net', Acks) = Count(net, Acks)
    BY <1>3, <1>6 DEF Numbers
  <2>2. Replied' = Replied
    BY <1>1, <2>1 DEF Replied
  <2> QED BY <1>3, <2>2 DEF Numbers
<1> QED BY <1>1, <1>2, <1>3, <1>5, <1>8, <1>9, NodeKeeps DEF m

\* Asking and answering moves no other weight.
LEMMA QuestionCounts ==
  ASSUME Ground, NEW n \in Nodes, NEW q \in Peers, net[q][n] # <<>>,
         NEW m, m = Head(net[q][n]),
         m.type \in {"MsgGroup", "MsgNextRequest", "MsgPrimaryConsensus", "MsgPrimaryVerified"},
         NEW out \in [Peers -> Seq(NodeMessage)], Handle(n, q, out),
         NEW c \in Nat, NEW v \in Nat, Sends(n, out, groupKey, c, v, 0, 0, 0, 0),
         UNCHANGED <<groupKey, prepared_messages, replies>>
  PROVE  /\ Weight' = Weight /\ Replied' = Replied
         /\ Count(net', PCs) = Count(net, PCs) + c
              - (IF m.type = "MsgPrimaryConsensus" THEN 1 ELSE 0)
         /\ Count(net', PVs) = Count(net, PVs) + v
              - (IF m.type = "MsgPrimaryVerified" THEN 1 ELSE 0)
<1>1. m \in AnyMessage /\ 0 \in Nat
  BY NodeHead
<1>2. ASSUME NEW z \in Nat, Sends(n, out, groupKey, c, v, z, z, z, 0)
      PROVE  /\ Count(net', PCs) = Count(net, PCs) + c
                   - (IF m.type = "MsgPrimaryConsensus" THEN 1 ELSE 0)
             /\ Count(net', PVs) = Count(net, PVs) + v
                   - (IF m.type = "MsgPrimaryVerified" THEN 1 ELSE 0)
             /\ Count(net', PreparesOf(groupKey)) = Count(net, PreparesOf(groupKey)) + z
                   - (IF m.type = "MsgPrepare" /\ m.groupSign.key = groupKey THEN 1 ELSE 0)
             /\ Count(net', PrepreparesOf(groupKey)) = Count(net, PrepreparesOf(groupKey)) + z
                   - (IF m.type = "MsgPreprepare" /\ m.signature.key = groupKey THEN 1 ELSE 0)
             /\ Count(net', Results) = Count(net, Results) + z
                   - (IF m.type \in {"MsgSend", "MsgReply"} THEN 1 ELSE 0)
             /\ Count(net', Acks) = Count(net, Acks) + 0 - (IF m.type = "MsgAck" THEN 1 ELSE 0)
  <2>1. m = Head(net[q][n]) /\ m \in AnyMessage
    BY <1>1
  <2> QED BY <1>2, <2>1, NodeCounts
<1>3. /\ Count(net', PreparesOf(groupKey)) = Count(net, PreparesOf(groupKey)) + 0 - 0
      /\ Count(net', PrepreparesOf(groupKey)) = Count(net, PrepreparesOf(groupKey)) + 0 - 0
      /\ Count(net', Results) = Count(net, Results) + 0 - 0
      /\ Count(net', Acks) = Count(net, Acks) + 0 - 0
      /\ Count(net', PCs) = Count(net, PCs) + c
            - (IF m.type = "MsgPrimaryConsensus" THEN 1 ELSE 0)
      /\ Count(net', PVs) = Count(net, PVs) + v
            - (IF m.type = "MsgPrimaryVerified" THEN 1 ELSE 0)
  BY <1>1, <1>2
<1>4. /\ Count(net', PreparesOf(groupKey)) = Count(net, PreparesOf(groupKey))
      /\ Count(net', PrepreparesOf(groupKey)) = Count(net, PrepreparesOf(groupKey))
      /\ Count(net', Results) = Count(net, Results)
      /\ Count(net', Acks) = Count(net, Acks)
  BY <1>3, InNumbers DEF Numbers
<1>5. groupKey' = groupKey /\ prepared_messages' = prepared_messages /\ replies' = replies
  OBVIOUS
<1>6. Weight' = Weight /\ Replied' = Replied
  BY <1>4, <1>5 DEF Weight, Replied
<1> QED BY <1>3, <1>6

\* A member of the primary group answers the lead: the question stays open.
LEMMA AnswerKeeps ==
  ASSUME Ground, Ground', Live, Rewarded, NEW n \in Nodes, NEW q \in Peers,
         primary_consensus_handler(n, q), Calm(net) \/ Closing(q, n)
  PROVE  Live' /\ Rewarded'
<1> DEFINE m == Head(net[q][n])
           k == [type |-> "MsgPrimaryVerified",
                 verified |-> VerifySignature(m.order, client_request[n], m.signature, q)]
           out == To({q}, k)
<1>1. /\ net[q][n] # <<>> /\ m.type = "MsgPrimaryConsensus" /\ Handle(n, q, out)
      /\ UNCHANGED <<verified_message, randomValue, groupVars, groupKey, trust, replies, busy,
                     prepared_messages>>
  BY DEF primary_consensus_handler, Arrives, clientVars, nodeVars
<1>2. m = Head(net[q][n]) /\ m \in AnyMessage /\ n \in Peers /\ m \in Members(net[q][n]) /\ m \in PCs
  BY <1>1, NodeHead, Kinds
<1>3. k \in NodeMessage /\ k \in AnyMessage /\ k.type = "MsgPrimaryVerified"
  BY DEF AnyMessage, NodeMessage, VerifySignature
<1> HIDE DEF k
<1>4. Numbers /\ Node(n, q) /\ TypeOK /\ Tidy /\ Routes /\ Ordered /\ LeftNumbers
  BY InNumbers, LeftTypes DEF Node, Ground, Live
<1>5. q = Lead
  BY <1>2, <1>4 DEF Routes, Routed
<1>6. Calm(net)
  <2>1. SUFFICES ASSUME Closing(q, n) PROVE FALSE
    OBVIOUS
  <2>2. PICK j \in DOMAIN net[q][n] : net[q][n][j].type = "MsgNextRequest"
    BY <2>1 DEF Closing
  <2>3. net[q][n] \in Seq(AnyMessage)
    BY <1>2, <1>4 DEF TypeOK, Channels, AnyMessage
  <2>4. j \in Nat /\ j # 0 /\ net[q][n][j] \in AnyMessage
    BY <2>3
  <2>5. At(net[q][n], j, Close)
    BY <2>2, <2>4 DEF At, Close, OfType, AnyMessage
  <2>6. At(net[q][n], 1, PCs)
    BY <1>1, <1>2, <2>3, AtPlaces
  <2>7. j < 1
    BY <1>2, <1>4, <2>4, <2>5, <2>6 DEF Ordered, InOrder
  <2> QED BY <2>4, <2>7
<1>7. /\ out \in [Peers -> Seq(NodeMessage)] /\ out \in [Peers -> Seq(AnyMessage)] /\ Quiet(out)
  BY <1>3, ToSent, QuietSends
<1>8. Sends(n, out, groupKey, 0, 1, 0, 0, 0, 0)
  <2>1. {q} \cap Peers = {q}
    OBVIOUS
  <2>2. IsFiniteSet({q}) /\ Cardinality({q} \cap Peers) = 1
    BY <2>1, FS_Singleton
  <2> QED BY <1>2, <1>3, <2>2, SendsTo
<1>9. ASSUME NEW b \in Peers, NEW x \in Members(out[b]) PROVE x = k /\ b = q
  <2>1. Members(To({q}, k)[b]) = IF b \in {q} THEN {k} ELSE {}
    BY ToMembers
  <2> QED BY <1>9, <2>1
<1> HIDE DEF m, out
<1>10. /\ Weight' = Weight /\ Replied' = Replied
       /\ Count(net', PCs) = Count(net, PCs) + 0 - 1
       /\ Count(net', PVs) = Count(net, PVs) + 1 - 0
  <2>1. 0 \in Nat /\ 1 \in Nat /\ UNCHANGED <<groupKey, prepared_messages, replies>>
    BY <1>1
  <2> QED BY <1>1, <1>2, <1>7, <1>8, <2>1, QuestionCounts
<1>11. Asking' = Asking
  BY <1>4, <1>10 DEF Asking, Numbers
<1>12. Told(net') = Told(net) /\ Calm(net')
  BY <1>1, <1>2, <1>6, <1>7, PlainTold
<1>13. Lead' = Lead
  BY <1>1 DEF Lead, groupVars
<1>14. Routes'
  <2>1. \A b \in Peers : \A x \in Members(out[b]) :
           /\ x \in PCs => n = Lead
           /\ x \in PVs => b = Lead /\ Calm(net')
    BY <1>3, <1>5, <1>9, <1>12, Kinds
  <2> QED BY <1>1, <1>2, <1>4, <1>7, <1>12, <1>13, <2>1, KeepsRoutes
<1>15. Ordered'
  <2>1. \A b \in Peers : \A i \in Nat : ~At(out[b], i, Close)
    BY <1>7 DEF Quiet
  <2> QED BY <1>1, <1>2, <1>4, <1>7, <2>1, KeepsOrder
<1>16. /\ \A j \in Nodes : Told(net')[j] <= Told(net)[j]
       /\ Weight' <= Weight /\ Replied' <= Replied /\ (busy[Lead] => busy'[Lead])
  BY <1>1, <1>4, <1>10, <1>12 DEF Numbers
<1>17. \A j \in Nodes : Left(requestQueue', net', j) >= Left(requestQueue, net, j)
  BY <1>1, <1>4, LeftKept
<1> QED BY <1>1, <1>11, <1>14, <1>15, <1>16, <1>17, Keeps

\* What the lead asks: nobody but the primary group, and nothing else.
LEMMA ProposalKinds ==
  ASSUME TypeOK, TypeOK', NEW n \in Nodes, NEW queue \in Seq(Entry)
  PROVE  /\ Proposal(n, queue) \in [Peers -> Seq(NodeMessage)]
         /\ Proposal(n, queue) \in [Peers -> Seq(AnyMessage)]
         /\ Quiet(Proposal(n, queue))
         /\ \A b \in Peers : \A x \in Members(Proposal(n, queue)[b]) :
               x.type = "MsgPrimaryConsensus" /\ x \in AnyMessage /\ Lead' = n
<1> DEFINE k == [type |-> "MsgPrimaryConsensus", order |-> orderNumber + 1,
                 signature |-> Sign(n, orderNumber + 1, Head(queue).message)]
           S == Members(primaryGroup') \ {n}
<1>1. orderNumber \in Nat
  BY DEF TypeOK
<1>2. Quiet(Proposal(n, queue)) /\ Quiet(Nothing)
  BY <1>1, ClosingSends, QuietSends
<1>3. /\ Proposal(n, queue) \in [Peers -> Seq(NodeMessage)]
      /\ Proposal(n, queue) \in [Peers -> Seq(AnyMessage)]
  <2>1. Proposal(n, queue) \in [Peers -> Seq(NodeMessage)]
    BY <1>2 DEF Quiet
  <2>2. \A s \in Seq(NodeMessage) : s \in Seq(AnyMessage)
    BY DEF AnyMessage
  <2> QED BY <2>1, <2>2
<1>4. ASSUME NEW b \in Peers, NEW x \in Members(Proposal(n, queue)[b])
      PROVE  x.type = "MsgPrimaryConsensus" /\ x \in AnyMessage /\ Lead' = n
  <2>1. CASE queue # <<>> /\ Lead' = n
    <3>1. Proposal(n, queue) = To(S, k)
      BY <2>1 DEF Proposal, Lead
    <3>2. k.type = "MsgPrimaryConsensus"
      OBVIOUS
    <3> HIDE DEF k, S
    <3>3. Members(To(S, k)[b]) = IF b \in S THEN {k} ELSE {}
      BY ToMembers
    <3>4. x = k
      BY <1>4, <3>1, <3>3
    <3>5. Proposal(n, queue)[b] \in Seq(AnyMessage)
      BY <1>3
    <3>6. x \in AnyMessage
      BY <1>4, <3>5 DEF Members
    <3> QED BY <2>1, <3>2, <3>4, <3>6
  <2>2. CASE ~(queue # <<>> /\ Lead' = n)
    <3>1. Proposal(n, queue) = Nothing
      BY <2>2 DEF Proposal, Lead
    <3> QED BY <1>4, <3>1, ToMembers
  <2> QED BY <2>1, <2>2
<1> QED BY <1>2, <1>3, <1>4

\* An idle lead asks for the next request: the round waits for a certificate.
LEMMA Starts ==
  ASSUME Ground, Ground', Live, Rewarded, NEW n \in Nodes, NEW q \in Peers,
         Node(n, q), NEW queue \in Seq(Entry), n = Lead, ~Engaged, Asking = 0,
         net[q][n] # <<>>, NEW m, m = Head(net[q][n]), m.type \in {"MsgGroup", "MsgNextRequest"},
         Handle(n, q, Proposal(n, queue)),
         UNCHANGED <<verified_message, groupVars, randomValue, groupKey, trust,
                     prepared_messages, replies>>,
         queue # <<>> => busy'[n],
         \A j \in Nodes : Told(net')[j] <= Told(net)[j], Told(net')[n] = 0
  PROVE  Live' /\ Rewarded'
<1> DEFINE out == Proposal(n, queue)
           c == Asking1(n, queue)
<1>1. Numbers /\ Numbers' /\ TypeOK /\ TypeOK' /\ Tidy /\ LeftNumbers /\ LeftNumbers'
  BY InNumbers, InNumbersNext, LeftTypes, LeftTypesNext DEF Ground
<1>2. Lead' = Lead /\ groupKey' = groupKey /\ n \in Peers
  BY DEF Lead, groupVars, Peers
<1>3. /\ out \in [Peers -> Seq(NodeMessage)] /\ out \in [Peers -> Seq(AnyMessage)] /\ Quiet(out)
      /\ \A b \in Peers : \A x \in Members(out[b]) :
            x.type = "MsgPrimaryConsensus" /\ x \in AnyMessage /\ Lead' = n
  BY <1>1, ProposalKinds
<1>4. Sends(n, out, groupKey, c, 0, 0, 0, 0, 0) /\ c \in Nat
  BY <1>1, SendsProposal
<1>5. /\ c = 0 \/ c = PrimarySize - 1
      /\ c # 0 => queue # <<>>
  BY DEF Asking1
<1> HIDE DEF out, c
<1>6. /\ Weight' = Weight /\ Replied' = Replied
      /\ Count(net', PCs) = Count(net, PCs) + c
      /\ Count(net', PVs) = Count(net, PVs)
  <2>1. ASSUME NEW v \in Nat, v = 0
        PROVE  /\ Weight' = Weight /\ Replied' = Replied
               /\ Count(net', PCs) = Count(net, PCs) + c
                    - (IF m.type = "MsgPrimaryConsensus" THEN 1 ELSE 0)
               /\ Count(net', PVs) = Count(net, PVs) + v
                    - (IF m.type = "MsgPrimaryVerified" THEN 1 ELSE 0)
    <3>1. Sends(n, out, groupKey, c, v, 0, 0, 0, 0)
      BY <1>4, <2>1
    <3>2. UNCHANGED <<groupKey, prepared_messages, replies>> /\ Handle(n, q, out)
      BY DEF out
    <3>3. m.type \in {"MsgGroup", "MsgNextRequest", "MsgPrimaryConsensus", "MsgPrimaryVerified"}
      OBVIOUS
    <3> QED BY <1>3, <1>4, <3>1, <3>2, <3>3, QuestionCounts, SMTT(40)
  <2>2. 0 \in Nat
    OBVIOUS
  <2>3. /\ Weight' = Weight /\ Replied' = Replied
        /\ Count(net', PCs) = Count(net, PCs) + c
             - (IF m.type = "MsgPrimaryConsensus" THEN 1 ELSE 0)
        /\ Count(net', PVs) = Count(net, PVs) + 0
             - (IF m.type = "MsgPrimaryVerified" THEN 1 ELSE 0)
    BY <2>1, <2>2
  <2>4. /\ Count(net', PCs) = Count(net, PCs) + c - 0
        /\ Count(net', PVs) = Count(net, PVs) + 0 - 0
    BY <2>3
  <2> QED BY <1>1, <1>4, <2>3, <2>4 DEF Numbers
<1>7. Asking' = c
  <2>1. Count(net, PCs) \in Nat /\ Count(net, PVs) \in Nat
    BY <1>1 DEF Numbers
  <2>2. Count(net, PCs) + Count(net, PVs) = 0
    BY DEF Asking
  <2>3. Count(net, PCs) = 0 /\ Count(net, PVs) = 0
    BY <2>1, <2>2
  <2>4. Asking' = Count(net', PCs) + Count(net', PVs)
    BY DEF Asking
  <2> QED BY <1>4, <1>6, <2>3, <2>4
<1>8. Phase'
  <2>1. PhaseOf(Engaged, Weight, Replied, trust.Sat, groupKey)
    BY DEF Live, Phase
  <2>2. Weight = 0 /\ Replied = 0 /\ trust.Sat < groupKey
    BY <2>1 DEF PhaseOf
  <2> QED BY <1>2, <1>6, <2>2 DEF Phase, PhaseOf
<1>9. Answers(verified_message[Lead]) = 0 \/ Answers(verified_message[Lead]) >= PrimarySize - 1
  BY <1>1 DEF Live, Tallies, TallyOf, Numbers
<1>10. Asks'
  <2>1. SUFFICES ASSUME c > 0
                 PROVE  AsksOf(c, busy'[Lead'], Told(net')[Lead'], Answers(verified_message'[Lead']))
    BY <1>7, <1>4 DEF Asks, AsksOf
  <2>2. c = PrimarySize - 1 /\ busy'[Lead'] /\ Told(net')[Lead'] = 0
    BY <1>2, <1>5, <2>1
  <2>3. verified_message'[Lead'] = verified_message[Lead]
    BY <1>2
  <2> QED BY <1>4, <1>9, <2>2, <2>3, Sizes DEF AsksOf
<1>11. Tallies'
  <2>1. ASSUME NEW j \in Nodes PROVE TallyOf(Answers(verified_message'[j]), j = Lead' /\ Asking' > 0)
    <3>1. TallyOf(Answers(verified_message[j]), j = Lead /\ Asking > 0)
      BY DEF Live, Tallies
    <3>2. Answers(verified_message[j]) = 0 \/ Answers(verified_message[j]) >= PrimarySize - 1
      BY <3>1 DEF TallyOf
    <3> QED BY <3>2 DEF TallyOf
  <2> QED BY <2>1 DEF Tallies
<1>a. \A j \in Nodes : /\ Told(net)[j] \in Nat /\ Told(net')[j] \in Nat
                        /\ Told(net')[j] <= Told(net)[j]
  BY <1>1 DEF Numbers
<1>12. Calm(net) => Calm(net')
  BY <1>a DEF Calm
<1>13. Routes'
  <2>1. \A b \in Peers : \A x \in Members(out[b]) :
           /\ x \in PCs => n = Lead
           /\ x \in PVs => b = Lead /\ Calm(net')
    BY <1>2, <1>3, Kinds
  <2>2. Routes /\ Handle(n, q, out)
    BY DEF Live, out
  <2> QED BY <1>1, <1>2, <1>3, <1>12, <2>1, <2>2, KeepsRoutes
<1>14. Ordered'
  <2>1. \A b \in Peers : \A i \in Nat : ~At(out[b], i, Close)
    BY <1>3 DEF Quiet
  <2>2. Ordered /\ Handle(n, q, out)
    BY DEF Live, out
  <2> QED BY <1>1, <1>2, <1>3, <2>1, <2>2, KeepsOrder
<1>15. ToldOnce'
  <2>1. \A j \in Nodes : Told(net)[j] <= 1
    BY DEF Live, ToldOnce
  <2>2. \A j \in Nodes : Told(net')[j] <= 1
    BY <1>a, <2>1
  <2> QED BY <2>2 DEF ToldOnce
<1>16. NoneOwed'
  <2>1. \A j \in Nodes : Left(requestQueue', net', j) >= Left(requestQueue, net, j)
    <3>1. groupKey' = groupKey
      BY <1>2
    <3> QED BY <3>1, LeftKept
  <2>2. \A j \in Nodes : Left(requestQueue, net, j) \in Int /\ Left(requestQueue', net', j) \in Int
    BY <1>1 DEF LeftNumbers
  <2> QED BY <2>1, <2>2 DEF Live, NoneOwed
<1>17. Rewarded'
  BY DEF Rewarded
<1> QED BY <1>8, <1>10, <1>11, <1>13, <1>14, <1>15, <1>16, <1>17 DEF Live

\* A client never sends a close.
LEMMA ClientsDoNotClose ==
  ASSUME TypeOK, NEW n \in Nodes, NEW q \in Clients
  PROVE  ~Closing(q, n)
<1>1. net[q][n] \in Seq(ClientMessage)
  BY DEF TypeOK, Channels, Peers
<1>2. ASSUME NEW i \in DOMAIN net[q][n] PROVE net[q][n][i].type # "MsgNextRequest"
  <2>1. net[q][n][i] \in ClientMessage
    BY <1>1
  <2> QED BY <2>1 DEF ClientMessage
<1> QED BY <1>2 DEF Closing

\* A request arrives at any node.
LEMMA GroupStarts ==
  ASSUME Ground, Ground', Live, Rewarded, NEW n \in Nodes, NEW q \in Peers,
         group_request_handler(n, q), Calm(net) \/ Closing(q, n)
  PROVE  Live' /\ Rewarded'
<1>1. CASE busy[n] \/ n # Lead
  BY <1>1, GroupKeeps
<1>2. CASE ~busy[n] /\ n = Lead
  <2> DEFINE m == Head(net[q][n])
             entry == [client |-> q, message |-> m.message]
             queue == Enqueue(requestQueue[n], entry)
  <2>1. /\ net[q][n] # <<>> /\ m.type = "MsgGroup" /\ Handle(n, q, Proposal(n, queue))
        /\ Process(n, queue, Empty)
        /\ UNCHANGED <<verified_message, groupVars, randomValue, groupKey, trust,
                       prepared_messages, replies>>
    BY <1>2 DEF group_request_handler, Arrives, clientVars
  <2>2. m = Head(net[q][n]) /\ q \in Clients /\ m \in ClientMessage /\ n \in Peers
    BY <2>1, NodeHead
  <2>3. Calm(net)
    BY <2>2, ClientsDoNotClose DEF Ground
  <2>4. queue \in Seq(Entry)
    <3>1. m.message \in Requests
      BY <2>1, <2>2 DEF ClientMessage
    <3>2. entry \in Entry /\ requestQueue[n] \in Seq(Entry)
      BY <2>2, <3>1 DEF Entry, Ground, TypeOK
    <3> QED BY <3>2 DEF Enqueue
  <2>5. queue # <<>> => busy'[n]
    BY <2>1 DEF Process, Ground, TypeOK
  <2>6. Node(n, q)
    BY DEF Node
  <2> HIDE DEF m, queue
  <2>7. ~Engaged /\ Asking = 0
    <3>1. AsksOf(Asking, busy[Lead], Told(net)[Lead], Answers(verified_message[Lead]))
      BY DEF Live, Asks
    <3>2. Asking \in Nat
      BY InNumbers DEF Numbers
    <3> QED BY <1>2, <3>1, <3>2 DEF AsksOf, Engaged
  <2>8. Told(net') = Told(net)
    <3>1. Quiet(Proposal(n, queue)) /\ Proposal(n, queue) \in [Peers -> Seq(NodeMessage)]
      BY <2>4, ProposalKinds DEF Ground
    <3>2. Head(net[q][n]).type # "MsgNextRequest"
      BY <2>1, <2>2
    <3> QED BY <2>1, <3>1, <3>2, PlainTold
  <2>9. /\ \A j \in Nodes : Told(net')[j] <= Told(net)[j]
        /\ Told(net')[n] = 0
    <3>1. \A j \in Nodes : Told(net)[j] = 0
      BY <2>3 DEF Calm
    <3> QED BY <2>8, <3>1
  <2>10. m.type \in {"MsgGroup", "MsgNextRequest"} /\ m = Head(net[q][n]) /\ n = Lead
    BY <1>2, <2>1, <2>2
  <2> QED BY <2>1, <2>4, <2>5, <2>6, <2>7, <2>9, <2>10, Starts
<1> QED BY <1>1, <1>2

\* A close arrives: the node goes on with its next request, and leads with it
\* if it is the lead of the new round.
LEMMA NextKeeps ==
  ASSUME Ground, Ground', Live, Rewarded, NEW n \in Nodes, NEW q \in Peers,
         process_next_request(n, q), requestQueue[n] # <<>>
  PROVE  Live' /\ Rewarded'
<1> DEFINE m == Head(net[q][n])
           rest == Tail(requestQueue[n])
           out == Proposal(n, rest)
<1>1. /\ net[q][n] # <<>> /\ m.type = "MsgNextRequest" /\ Handle(n, q, Proposal(n, rest))
      /\ Process(n, rest, Space)
      /\ UNCHANGED <<verified_message, groupVars, randomValue, groupKey, trust,
                     prepared_messages, replies>>
  BY DEF process_next_request, Arrives, clientVars
<1>2. m = Head(net[q][n]) /\ m \in AnyMessage /\ n \in Peers
  BY <1>1, NodeHead
<1>3. rest \in Seq(Entry)
  BY DEF Ground, TypeOK
<1>4. Node(n, q)
  BY DEF Node
<1>5. rest # <<>> => busy'[n]
  BY <1>1 DEF Process, Ground, TypeOK
<1>6. UNCHANGED groupKey /\ Lead' = Lead
  BY <1>1 DEF Lead, groupVars
<1>7. \A j \in Nodes : j # n => busy'[j] = busy[j]
  BY <1>1 DEF Process, Ground, TypeOK
<1> HIDE DEF m, rest, out
<1>8. Numbers /\ TypeOK /\ TypeOK' /\ Tidy /\ Counted /\ Routes /\ Ordered
  BY InNumbers DEF Ground, Live, Balanced
<1>9. /\ out \in [Peers -> Seq(NodeMessage)] /\ Quiet(out)
  BY <1>3, <1>8, ProposalKinds DEF out
<1>10. Told(net)[n] > 0 /\ Told(net') = [Told(net) EXCEPT ![n] = @ - 1] /\ Told(net) \in [Nodes -> Nat]
  <2>1. ASSUME NEW closes \in {0, 1}, closes = 0
        PROVE Told(net)[n] > 0 /\ Told(net') = [Told(net) EXCEPT ![n] = @ - 1] /\ Told(net) \in [Nodes -> Nat]
    <3>1. Tells(n, out, closes)
      BY <1>9, <2>1 DEF Tells
    <3>2. Handle(n, q, out) /\ Head(net[q][n]).type = "MsgNextRequest"
      BY <1>1, <1>2 DEF out
    <3>3. net[q][n] # <<>>
      BY <1>1
    <3> QED BY <1>8, <1>9, <2>1, <3>1, <3>2, <3>3, NewTold
  <2> QED BY <2>1
<1>11. /\ \A j \in Nodes : Told(net')[j] <= Told(net)[j]
       /\ Told(net)[n] = 1 /\ Told(net')[n] = 0
  <2>1. Told(net)[n] <= 1
    BY DEF Live, ToldOnce
  <2>2. Told(net)[n] \in Nat /\ \A j \in Nodes : Told(net)[j] \in Nat
    BY <1>8 DEF Numbers
  <2>3. \A j \in Nodes : Told(net')[j] = IF j = n THEN Told(net)[n] - 1 ELSE Told(net)[j]
    BY <1>10
  <2> QED BY <1>10, <2>1, <2>2, <2>3
<1>12. ~Calm(net)
  BY <1>11 DEF Calm
<1>13. CASE n = Lead
  <2>1. ~Engaged /\ Asking = 0
    <3>1. AsksOf(Asking, busy[Lead], Told(net)[Lead], Answers(verified_message[Lead]))
      BY DEF Live, Asks
    <3>2. Asking \in Nat
      BY <1>8 DEF Numbers
    <3> QED BY <1>11, <1>12, <1>13, <3>1, <3>2 DEF AsksOf, Engaged
  <2>2. m.type \in {"MsgGroup", "MsgNextRequest"}
    BY <1>1
  <2> QED BY <1>1, <1>2, <1>3, <1>4, <1>5, <1>11, <1>13, <2>1, <2>2, Starts
<1>14. CASE n # Lead
  <2>1. out = Nothing
    BY <1>6, <1>14 DEF Proposal, Lead, out
  <2>2. Handle(n, q, Nothing) /\ Plain(Nothing) /\ Nothing \in [Peers -> Seq(NodeMessage)]
    BY <1>1, <2>1, NothingPlain DEF out
  <2>3. /\ Weight' = Weight /\ Replied' = Replied
        /\ Count(net', PCs) = Count(net, PCs)
        /\ Count(net', PVs) = Count(net, PVs)
    <3>1. ASSUME NEW c \in Nat, c = 0
          PROVE  /\ Weight' = Weight /\ Replied' = Replied
                 /\ Count(net', PCs) = Count(net, PCs) + c
                      - (IF m.type = "MsgPrimaryConsensus" THEN 1 ELSE 0)
                 /\ Count(net', PVs) = Count(net, PVs) + c
                      - (IF m.type = "MsgPrimaryVerified" THEN 1 ELSE 0)
      <4>1. Sends(n, Nothing, groupKey, c, c, 0, 0, 0, 0)
        BY <3>1, NothingPlain
      <4>2. UNCHANGED <<groupKey, prepared_messages, replies>>
        BY <1>1
      <4>3. m.type \in {"MsgGroup", "MsgNextRequest", "MsgPrimaryConsensus", "MsgPrimaryVerified"}
        BY <1>1
      <4> QED BY <1>1, <1>2, <2>2, <3>1, <4>1, <4>2, <4>3, QuestionCounts
    <3>2. /\ Weight' = Weight /\ Replied' = Replied
          /\ Count(net', PCs) = Count(net, PCs) + 0
               - (IF m.type = "MsgPrimaryConsensus" THEN 1 ELSE 0)
          /\ Count(net', PVs) = Count(net, PVs) + 0
               - (IF m.type = "MsgPrimaryVerified" THEN 1 ELSE 0)
      BY <3>1
    <3>3. /\ Count(net', PCs) = Count(net, PCs) + 0 - 0
          /\ Count(net', PVs) = Count(net, PVs) + 0 - 0
      BY <1>1, <3>2
    <3> QED BY <1>8, <3>2, <3>3 DEF Numbers
  <2>4. Asking' = Asking
    BY <2>3 DEF Asking
  <2>5. Weight' <= Weight /\ Replied' <= Replied
    BY <1>8, <2>3 DEF Numbers
  <2>6. busy[Lead] => busy'[Lead]
    BY <1>7, <1>8, <1>14 DEF Numbers
  <2>7. Calm(net) => Calm(net')
    BY <1>12
  <2>8. Routes' /\ Ordered'
    BY <1>1, <1>2, <1>6, <1>8, <2>2, <2>7, PlainKeeps
  <2>9. \A j \in Nodes : Left(requestQueue', net', j) >= Left(requestQueue, net, j)
    BY <1>4, <1>6, LeftKept
  <2> QED BY <1>1, <1>11, <2>4, <2>5, <2>6, <2>8, <2>9, Keeps
<1> QED BY <1>13, <1>14

\* When an answer arrives, it is the lead's: the question is open, and nothing
\* of the round weighs anything yet.
LEMMA AnswerArrives ==
  ASSUME Ground, Live, NEW n \in Nodes, NEW q \in Peers, net[q][n] # <<>>,
         NEW m, m = Head(net[q][n]), m.type = "MsgPrimaryVerified"
  PROVE  /\ n = Lead /\ Calm(net) /\ busy[Lead]
         /\ Asking > 0 /\ Asking <= PrimarySize - 1
         /\ \/ Answers(verified_message[n]) >= PrimarySize - 1
            \/ Asking + Answers(verified_message[n]) = PrimarySize - 1
         /\ Weight = 0 /\ Replied = 0 /\ trust.Sat < groupKey
         /\ m \in NodeMessage /\ m \in AnyMessage /\ m \in PVs /\ m.verified \in BOOLEAN
         /\ Len(primaryGroup) = PrimarySize /\ n \in Members(primaryGroup)
<1>1. /\ m \in AnyMessage /\ m \in Members(net[q][n]) /\ n \in Peers
      /\ m \in NodeMessage /\ m \in PVs
  BY NodeHead, Kinds
<1>2. m.verified \in BOOLEAN
  BY <1>1 DEF NodeMessage
<1>3. Numbers /\ TypeOK /\ Tidy /\ GroupSets /\ Routes
  BY InNumbers, GroupsAsSets DEF Ground, Live
<1>4. n = Lead /\ Calm(net)
  BY <1>1, <1>3 DEF Routes, Routed
<1>5. Count(net, PVs) # 0
  <2>1. net[q][n] \in Seq(AnyMessage)
    BY <1>1, <1>3 DEF TypeOK, Channels, AnyMessage
  <2>2. IsFiniteSet(Spots(net, All, PVs))
    BY <1>3, Counts DEF Tidy
  <2> QED BY <1>1, <2>1, <2>2, NoneCounted
<1>6. Asking > 0
  <2>1. Count(net, PVs) \in Nat /\ Count(net, PCs) \in Nat
    BY <1>3 DEF Numbers
  <2> QED BY <1>5, <2>1 DEF Asking
<1>7. AsksOf(Asking, busy[Lead], Told(net)[Lead], Answers(verified_message[Lead]))
  BY DEF Live, Asks
<1>8. PhaseOf(Engaged, Weight, Replied, trust.Sat, groupKey)
  BY DEF Live, Phase
<1>9. ~Engaged
  BY <1>3, <1>6 DEF Engaged, Numbers
<1>10. Weight = 0 /\ Replied = 0 /\ trust.Sat < groupKey
  BY <1>8, <1>9 DEF PhaseOf
<1>11. Len(primaryGroup) = PrimarySize /\ n \in Members(primaryGroup)
  BY <1>3, <1>4 DEF GroupSets, Numbers
<1> QED BY <1>1, <1>2, <1>4, <1>6, <1>7, <1>10, <1>11 DEF AsksOf

\* An answer is put aside until all are there.
LEMMA WaitKeeps ==
  ASSUME Ground, Ground', Live, Rewarded, NEW n \in Nodes, NEW q \in Peers,
         net[q][n] # <<>>, NEW m, m = Head(net[q][n]), m.type = "MsgPrimaryVerified",
         Node(n, q), Handle(n, q, Nothing),
         NEW answers, answers = [verified_message[n] EXCEPT ![m.verified] = @ + 1],
         ~AllAnswered(answers),
         verified_message' = [verified_message EXCEPT ![n] = answers],
         UNCHANGED <<busy, groupVars, randomValue, groupKey, trust, prepared_messages, replies>>
  PROVE  Live' /\ Rewarded'
<1> DEFINE v == Answers(verified_message[n])
<1>1. /\ n = Lead /\ Calm(net) /\ busy[Lead]
      /\ Asking > 0 /\ Asking <= PrimarySize - 1
      /\ v >= PrimarySize - 1 \/ Asking + v = PrimarySize - 1
      /\ Weight = 0 /\ Replied = 0 /\ trust.Sat < groupKey
      /\ m \in AnyMessage /\ m.verified \in BOOLEAN
      /\ Len(primaryGroup) = PrimarySize
  BY AnswerArrives
<1>2. Numbers /\ Numbers' /\ TypeOK /\ Tidy /\ Routes /\ Ordered /\ n \in Peers
  BY InNumbers, InNumbersNext DEF Ground, Live, Peers
<1>3. verified_message[n] \in [BOOLEAN -> Nat]
  BY <1>2 DEF TypeOK
<1>4. Answers(answers) = v + 1 /\ v \in Nat
  BY <1>1, <1>3, OneMore
<1>5. v + 1 # PrimarySize - 1
  BY <1>1, <1>4 DEF AllAnswered
<1>6. \A j \in Nodes : Answers(verified_message'[j]) =
                         IF j = n THEN v + 1 ELSE Answers(verified_message[j])
  BY <1>2, <1>4 DEF TypeOK
<1> HIDE DEF v
<1>7. Lead' = Lead /\ groupKey' = groupKey
  BY DEF Lead, groupVars
<1>8. /\ Weight' = Weight /\ Replied' = Replied
      /\ Count(net', PCs) = Count(net, PCs)
      /\ Count(net', PVs) = Count(net, PVs) - 1
  <2>1. ASSUME NEW c \in Nat, c = 0
        PROVE  /\ Weight' = Weight /\ Replied' = Replied
               /\ Count(net', PCs) = Count(net, PCs) + c
                    - (IF m.type = "MsgPrimaryConsensus" THEN 1 ELSE 0)
               /\ Count(net', PVs) = Count(net, PVs) + c
                    - (IF m.type = "MsgPrimaryVerified" THEN 1 ELSE 0)
    <3>1. Sends(n, Nothing, groupKey, c, c, 0, 0, 0, 0) /\ Nothing \in [Peers -> Seq(NodeMessage)]
      BY <2>1, NothingPlain
    <3>2. m.type \in {"MsgGroup", "MsgNextRequest", "MsgPrimaryConsensus", "MsgPrimaryVerified"}
      OBVIOUS
    <3>3. UNCHANGED <<groupKey, prepared_messages, replies>>
      OBVIOUS
    <3> QED BY <2>1, <3>1, <3>2, <3>3, QuestionCounts
  <2>2. /\ Weight' = Weight /\ Replied' = Replied
        /\ Count(net', PCs) = Count(net, PCs) + 0
             - (IF m.type = "MsgPrimaryConsensus" THEN 1 ELSE 0)
        /\ Count(net', PVs) = Count(net, PVs) + 0
             - (IF m.type = "MsgPrimaryVerified" THEN 1 ELSE 0)
    BY <2>1
  <2>3. /\ Count(net', PCs) = Count(net, PCs) + 0 - 0
        /\ Count(net', PVs) = Count(net, PVs) + 0 - 1
    BY <2>2
  <2>4. Count(net, PCs) \in Nat /\ Count(net, PVs) \in Nat
    BY <1>2 DEF Numbers
  <2>5. \A x \in Nat : x + 0 - 0 = x /\ x + 0 - 1 = x - 1
    OBVIOUS
  <2> QED BY <2>2, <2>3, <2>4, <2>5
<1>9. Asking' = Asking - 1
  <2>1. Count(net, PCs) \in Nat /\ Count(net, PVs) \in Nat
    BY <1>2 DEF Numbers
  <2>2. \A x, y \in Nat : x + (y - 1) = (x + y) - 1
    OBVIOUS
  <2>3. Asking' = Count(net', PCs) + Count(net', PVs)
    BY DEF Asking
  <2> QED BY <1>8, <2>1, <2>2, <2>3 DEF Asking
<1>10. Told(net') = Told(net) /\ Calm(net')
  <2>1. Quiet(Nothing) /\ Nothing \in [Peers -> Seq(NodeMessage)]
    BY NothingPlain, PlainIsQuiet
  <2>2. Head(net[q][n]).type # "MsgNextRequest"
    OBVIOUS
  <2> QED BY <1>1, <2>1, <2>2, PlainTold
<1>11. Phase'
  BY <1>1, <1>7, <1>8 DEF Phase, PhaseOf
<1>12. Asking \in Nat /\ Asking' \in Nat
  BY <1>2 DEF Numbers
<1>13. Asks'
  <2>1. busy'[Lead'] /\ Told(net')[Lead'] = 0
    BY <1>1, <1>2, <1>7, <1>10 DEF Calm, Numbers
  <2>2. Answers(verified_message'[Lead']) = v + 1
    BY <1>1, <1>6, <1>7
  <2>3. Asking' > 0 => /\ Asking' <= PrimarySize - 1
                       /\ v + 1 >= PrimarySize - 1 \/ Asking' + (v + 1) = PrimarySize - 1
    <3>1. ASSUME NEW a \in Nat, NEW a2 \in Nat, NEW x \in Nat, NEW y \in Nat, a2 = a - 1,
                 a > 0, a <= y, x >= y \/ a + x = y
          PROVE  a2 <= y /\ (x + 1 >= y \/ a2 + (x + 1) = y)
      BY <3>1
    <3>2. v \in Nat /\ PrimarySize - 1 \in Nat
      BY <1>4, Sizes
    <3>3. Asking > 0 /\ Asking <= PrimarySize - 1 /\ (v >= PrimarySize - 1 \/ Asking + v = PrimarySize - 1)
      BY <1>1
    <3> HIDE <1>1 DEF Asking
    <3> QED BY <1>9, <1>12, <3>1, <3>2, <3>3
  <2> QED BY <2>1, <2>2, <2>3 DEF Asks, AsksOf
<1>14. Tallies'
  <2>1. ASSUME NEW j \in Nodes PROVE TallyOf(Answers(verified_message'[j]), j = Lead' /\ Asking' > 0)
    <3>1. CASE j = n
      <4>1. v + 1 >= PrimarySize - 1 \/ Asking' > 0
        BY <1>1, <1>4, <1>5, <1>9, <1>12, Sizes
      <4>2. Answers(verified_message'[j]) = v + 1 /\ j = Lead'
        BY <1>1, <1>6, <1>7, <3>1
      <4> QED BY <4>1, <4>2 DEF TallyOf
    <3>2. CASE j # n
      <4>1. TallyOf(Answers(verified_message[j]), j = Lead /\ Asking > 0)
        BY DEF Live, Tallies
      <4>2. Answers(verified_message[j]) = 0 \/ Answers(verified_message[j]) >= PrimarySize - 1
        BY <1>1, <3>2, <4>1 DEF TallyOf
      <4>3. Answers(verified_message'[j]) = Answers(verified_message[j])
        BY <1>6, <3>2
      <4> QED BY <4>2, <4>3 DEF TallyOf
    <3> QED BY <3>1, <3>2
  <2> QED BY <2>1 DEF Tallies
<1>15. Routes' /\ Ordered'
  BY <1>2, <1>7, <1>10, NothingPlain, PlainKeeps
<1>16. ToldOnce'
  BY <1>10 DEF Live, ToldOnce
<1>17. NoneOwed'
  <2>1. \A j \in Nodes : Left(requestQueue', net', j) >= Left(requestQueue, net, j)
    BY <1>7, LeftKept
  <2>2. \A j \in Nodes : Left(requestQueue, net, j) \in Int /\ Left(requestQueue', net', j) \in Int
    BY LeftTypes, LeftTypesNext DEF LeftNumbers
  <2> QED BY <2>1, <2>2 DEF Live, NoneOwed
<1>18. Rewarded'
  BY DEF Rewarded
<1> QED BY <1>11, <1>13, <1>14, <1>15, <1>16, <1>17, <1>18 DEF Live

\* The pre-prepares of an accepted request weigh as much as one round can.
LEMMA AcceptKeeps ==
  ASSUME Ground, Ground', Live, Rewarded, NEW n \in Nodes, NEW q \in Peers,
         net[q][n] # <<>>, NEW m, m = Head(net[q][n]), m.type = "MsgPrimaryVerified",
         Node(n, q),
         NEW k \in NodeMessage, k.type = "MsgPreprepare", k.signature.key = groupKey,
         Handle(n, q, To(Members(consensusGroup) \ Members(primaryGroup), k)),
         NEW answers, answers = [verified_message[n] EXCEPT ![m.verified] = @ + 1],
         AllAnswered(answers),
         verified_message' = [verified_message EXCEPT ![n] = NoAnswer],
         UNCHANGED <<busy, groupVars, randomValue, groupKey, trust, prepared_messages, replies>>
  PROVE  Live' /\ Rewarded' /\ Weight = 0 /\ Asking > 0
<1> DEFINE v == Answers(verified_message[n])
           S == Members(consensusGroup) \ Members(primaryGroup)
           out == To(S, k)
           d == ConsensusSize - PrimarySize
<1>1. /\ n = Lead /\ Calm(net) /\ busy[Lead]
      /\ Asking > 0 /\ Asking <= PrimarySize - 1
      /\ v >= PrimarySize - 1 \/ Asking + v = PrimarySize - 1
      /\ Weight = 0 /\ Replied = 0 /\ trust.Sat < groupKey
      /\ m \in AnyMessage /\ m.verified \in BOOLEAN
      /\ Len(primaryGroup) = PrimarySize
  BY AnswerArrives
<1>2. Numbers /\ Numbers' /\ TypeOK /\ Tidy /\ Routes /\ Ordered /\ n \in Peers /\ GroupSets
  BY InNumbers, InNumbersNext, GroupsAsSets DEF Ground, Live, Peers
<1>3. verified_message[n] \in [BOOLEAN -> Nat]
  BY <1>2 DEF TypeOK
<1>4. v + 1 = PrimarySize - 1 /\ v \in Nat
  <2>1. Answers(answers) = v + 1 /\ v \in Nat
    BY <1>1, <1>3, OneMore
  <2> QED BY <1>1, <2>1 DEF AllAnswered
<1>5. Asking = 1
  <2>1. PrimarySize - 1 \in Nat /\ Asking \in Nat
    BY <1>2, Sizes DEF Numbers
  <2>2. \A x, y, a \in Nat : y + 1 = x /\ a > 0 /\ (y >= x \/ a + y = x) => a = 1
    OBVIOUS
  <2> QED BY <1>1, <1>4, <2>1, <2>2
<1>6. /\ d \in Nat /\ IsFiniteSet(S) /\ Cardinality(S \cap Peers) = d
      /\ Cardinality(S) = d
  <2>1. /\ IsFiniteSet(Members(consensusGroup)) /\ Cardinality(Members(consensusGroup)) = ConsensusSize
        /\ IsFiniteSet(Members(primaryGroup)) /\ Cardinality(Members(primaryGroup)) = PrimarySize
        /\ Members(primaryGroup) \subseteq Members(consensusGroup)
        /\ Members(consensusGroup) \subseteq Nodes
    BY <1>2 DEF GroupSets
  <2>2. IsFiniteSet(S)
    BY <2>1, FS_Difference
  <2>3. S \cap Members(primaryGroup) = {} /\ S \cup Members(primaryGroup) = Members(consensusGroup)
    BY <2>1
  <2> HIDE DEF S
  <2>4. Cardinality(Members(consensusGroup)) = Cardinality(S) + Cardinality(Members(primaryGroup))
    BY <2>1, <2>2, <2>3, SizesAdd
  <2>5. Cardinality(S) \in Nat /\ ConsensusSize \in Nat /\ PrimarySize \in Nat
    BY <2>2, FS_CardinalityType, Sizes
  <2>6. Cardinality(S) = d /\ d \in Nat
    BY <2>1, <2>4, <2>5
  <2>7. S \cap Peers = S
    BY <2>1 DEF S, Peers
  <2> QED BY <2>2, <2>6, <2>7
<1>7. k \in AnyMessage /\ out \in [Peers -> Seq(NodeMessage)] /\ Plain(out) /\ Quiet(out)
  <2>1. k \in AnyMessage
    BY DEF AnyMessage
  <2>2. out \in [Peers -> Seq(NodeMessage)]
    BY ToSent
  <2>3. Plain(out)
    BY <2>1, PlainSends
  <2> QED BY <2>1, <2>2, <2>3, PlainIsQuiet
<1>8. Sends(n, out, groupKey, 0, 0, 0, d, 0, 0)
  BY <1>2, <1>6, <1>7, SendsTo
<1> HIDE DEF v, S, out, d
<1>9. /\ Count(net', PCs) = Count(net, PCs)
      /\ Count(net', PVs) = Count(net, PVs) - 1
      /\ Count(net', PreparesOf(groupKey)) = Count(net, PreparesOf(groupKey))
      /\ Count(net', PrepreparesOf(groupKey)) = Count(net, PrepreparesOf(groupKey)) + d
      /\ Count(net', Results) = Count(net, Results)
      /\ Count(net', Acks) = Count(net, Acks)
  <2>1. ASSUME NEW c \in Nat, NEW w \in Nat, NEW p \in Nat, NEW r \in Nat,
               Sends(n, out, groupKey, c, w, p, d, r, 0)
        PROVE  /\ Count(net', PCs) = Count(net, PCs) + c
                    - (IF m.type = "MsgPrimaryConsensus" THEN 1 ELSE 0)
               /\ Count(net', PVs) = Count(net, PVs) + w
                    - (IF m.type = "MsgPrimaryVerified" THEN 1 ELSE 0)
               /\ Count(net', PreparesOf(groupKey)) = Count(net, PreparesOf(groupKey)) + p
                    - (IF m.type = "MsgPrepare" /\ m.groupSign.key = groupKey THEN 1 ELSE 0)
               /\ Count(net', PrepreparesOf(groupKey)) = Count(net, PrepreparesOf(groupKey)) + d
                    - (IF m.type = "MsgPreprepare" /\ m.signature.key = groupKey THEN 1 ELSE 0)
               /\ Count(net', Results) = Count(net, Results) + r
                    - (IF m.type \in {"MsgSend", "MsgReply"} THEN 1 ELSE 0)
               /\ Count(net', Acks) = Count(net, Acks) + 0 - (IF m.type = "MsgAck" THEN 1 ELSE 0)
    <3>1. Handle(n, q, out) /\ m \in AnyMessage /\ m = Head(net[q][n]) /\ net[q][n] # <<>>
      BY <1>1 DEF out, S
    <3>2. out \in [Peers -> Seq(NodeMessage)] /\ d \in Nat
      BY <1>6, <1>7
    <3> HIDE <1>1
    <3> QED BY <2>1, <3>1, <3>2, NodeCounts
  <2>2. /\ Count(net', PCs) = Count(net, PCs) + 0 - 0
        /\ Count(net', PVs) = Count(net, PVs) + 0 - 1
        /\ Count(net', PreparesOf(groupKey)) = Count(net, PreparesOf(groupKey)) + 0 - 0
        /\ Count(net', PrepreparesOf(groupKey)) = Count(net, PrepreparesOf(groupKey)) + d - 0
        /\ Count(net', Results) = Count(net, Results) + 0 - 0
        /\ Count(net', Acks) = Count(net, Acks) + 0 - 0
    <3>1. Sends(n, out, groupKey, 0, 0, 0, d, 0, 0) /\ 0 \in Nat
      BY <1>8
    <3> QED BY <2>1, <3>1
  <2>3. \A x \in Nat : x + 0 - 0 = x /\ x + 0 - 1 = x - 1
    OBVIOUS
  <2>4. \A x, y \in Nat : x + y - 0 = x + y
    OBVIOUS
  <2>5. /\ Count(net, PCs) \in Nat /\ Count(net, PVs) \in Nat
        /\ Count(net, PreparesOf(groupKey)) \in Nat
        /\ Count(net, PrepreparesOf(groupKey)) \in Nat
        /\ Count(net, Results) \in Nat /\ Count(net, Acks) \in Nat
    BY <1>2 DEF Numbers
  <2> QED BY <1>6, <2>2, <2>3, <2>4, <2>5
<1>10. Asking' = 0
  <2>1. Count(net, PCs) \in Nat /\ Count(net, PVs) \in Nat
    BY <1>2 DEF Numbers
  <2>2. \A x, y \in Nat : x + y = 1 => x + (y - 1) = 0
    OBVIOUS
  <2>3. Asking' = Count(net', PCs) + Count(net', PVs)
    BY DEF Asking
  <2> QED BY <1>5, <1>9, <2>1, <2>2, <2>3 DEF Asking
<1>11. Lead' = Lead /\ groupKey' = groupKey
  BY DEF Lead, groupVars
<1>12. Weight' = MaxPrepared
  <2> DEFINE u == prepared_messages
             x == Count(net, PreparesOf(groupKey))
             y == Count(net, PrepreparesOf(groupKey))
             c == ConsensusSize - 1
  <2>1. u \in Nat /\ x \in Nat /\ y \in Nat /\ c \in Nat
    BY <1>2, Sizes DEF Numbers
  <2>2. (u + x) + c * y = 0
    BY <1>1 DEF Weight
  <2>3. Weight' = (u + x) + c * (y + d)
    BY <1>9, <1>11 DEF Weight
  <2>4. MaxPrepared = d * c
    BY DEF MaxPrepared, d
  <2> HIDE DEF u, x, y, c
  <2>5. u + x \in Nat /\ c * y \in Nat
    BY <2>1, Multiply
  <2>6. u + x = 0 /\ c * y = 0
    BY <2>2, <2>5
  <2>7. c * (y + d) = c * y + c * d /\ c * d \in Nat /\ c * d = d * c
    BY <1>6, <2>1
  <2> QED BY <2>3, <2>4, <2>6, <2>7
<1>13. Replied' = 0
  BY <1>1, <1>9 DEF Replied
<1>14. Told(net') = Told(net) /\ Calm(net')
  <2>1. Handle(n, q, out)
    BY DEF out, S
  <2>2. Head(net[q][n]).type # "MsgNextRequest"
    OBVIOUS
  <2> QED BY <1>1, <1>7, <2>1, <2>2, PlainTold
<1>15. Phase'
  <2>1. Engaged'
    BY <1>1, <1>10, <1>11, <1>14 DEF Engaged
  <2>2. Weight' <= MaxPrepared
    BY <1>12, Sizes
  <2>3. trust'.Sat < groupKey'
    BY <1>1
  <2> QED BY <1>13, <2>1, <2>2, <2>3 DEF Phase, PhaseOf
<1>16. Asks'
  BY <1>10 DEF Asks, AsksOf
<1>17. Tallies'
  <2>1. ASSUME NEW j \in Nodes PROVE TallyOf(Answers(verified_message'[j]), j = Lead' /\ Asking' > 0)
    <3>1. CASE j = n
      <4>1. verified_message'[j] = NoAnswer
        BY <1>2, <3>1 DEF TypeOK
      <4>2. NoAnswer[TRUE] = 0 /\ NoAnswer[FALSE] = 0
        BY Zenon DEF NoAnswer
      <4>3. NoAnswer[TRUE] + NoAnswer[FALSE] = 0
        BY <4>2
      <4>4. Answers(NoAnswer) = 0
        BY <4>3, Zenon DEF Answers
      <4>5. Answers(verified_message'[j]) = 0
        BY <4>1, <4>4
      <4> QED BY <4>5 DEF TallyOf
    <3>2. CASE j # n
      <4>1. TallyOf(Answers(verified_message[j]), j = Lead /\ Asking > 0)
        BY DEF Live, Tallies
      <4>2. Answers(verified_message[j]) = 0 \/ Answers(verified_message[j]) >= PrimarySize - 1
        BY <1>1, <3>2, <4>1 DEF TallyOf
      <4>3. verified_message'[j] = verified_message[j]
        BY <3>2
      <4> QED BY <4>2, <4>3 DEF TallyOf
    <3> QED BY <3>1, <3>2
  <2> QED BY <2>1 DEF Tallies
<1>18. Routes' /\ Ordered'
  <2>1. Handle(n, q, out)
    BY DEF out, S
  <2> QED BY <1>2, <1>7, <1>11, <1>14, <2>1, PlainKeeps
<1>19. ToldOnce'
  BY <1>14 DEF Live, ToldOnce
<1>20. NoneOwed'
  <2>1. \A j \in Nodes : Left(requestQueue', net', j) >= Left(requestQueue, net, j)
    BY <1>11, LeftKept
  <2>2. \A j \in Nodes : Left(requestQueue, net, j) \in Int /\ Left(requestQueue', net', j) \in Int
    BY LeftTypes, LeftTypesNext DEF LeftNumbers
  <2> QED BY <2>1, <2>2 DEF Live, NoneOwed
<1>21. Rewarded'
  BY DEF Rewarded
<1> QED BY <1>1, <1>15, <1>16, <1>17, <1>18, <1>19, <1>20, <1>21 DEF Live

----------------------------------------------------------------------------
(* A round is closed.                                                      *)

\* No messages of a kind on the channels: their number is zero.
LEMMA CountNone ==
  ASSUME NEW f, NEW W, \A p, q \in Peers : \A m \in Members(f[p][q]) : m \notin W
  PROVE  Count(f, W) = 0
<1>1. ASSUME NEW x \in Spots(f, All, W) PROVE FALSE
  <2>1. x \in Peers \X Peers \X Nat /\ At(f[x[1]][x[2]], x[3], W)
    BY <1>1 DEF Spots
  <2>2. PICK p \in Peers, q \in Peers, i \in Nat : x = <<p, q, i>>
    BY <2>1
  <2>3. i \in DOMAIN f[p][q] /\ f[p][q][i] \in W
    BY <2>1, <2>2 DEF At
  <2>4. f[p][q][i] \in Members(f[p][q])
    BY <2>3 DEF Members
  <2> QED BY <2>3, <2>4
<1>2. Spots(f, All, W) = {}
  BY <1>1
<1> QED BY <1>2, FS_EmptySet DEF Count

\* Nothing of the next key is on its way yet.
LEMMA NextKey ==
  ASSUME Ground
  PROVE  /\ Count(net, PreparesOf(groupKey + 1)) = 0
         /\ Count(net, PrepreparesOf(groupKey + 1)) = 0
<1>1. ASSUME NEW p \in Peers, NEW q \in Peers, NEW m \in Members(net[p][q])
      PROVE  m \notin PreparesOf(groupKey + 1) /\ m \notin PrepreparesOf(groupKey + 1)
  <2>1. Placed(m, p, q) /\ groupKey \in Nat
    BY DEF Ground, AllPlaced, TypeOK
  <2>2. ~(groupKey + 1 <= groupKey)
    BY <2>1
  <2> QED BY <2>1, <2>2 DEF Placed, PreparesOf, PrepreparesOf, OfType
<1> QED BY <1>1, CountNone

\* In a closing step of n, nothing of the old round counts any more.
LEMMA ClosingCounts ==
  ASSUME Ground, Ground', NEW n \in Nodes, NEW q \in Peers, net[q][n] # <<>>,
         NEW m, m = Head(net[q][n]),
         NEW rest \in Seq(Entry), Handle(n, q, Then(NextRequest(n), Proposal(n, rest))),
         groupKey' = groupKey + 1, prepared_messages' = 0, replies'[client][TRUE] = 0,
         Count(net, PCs) = 0, m.type # "MsgPrimaryConsensus",
         Count(net, PVs) = (IF m.type = "MsgPrimaryVerified" THEN 1 ELSE 0),
         Count(net, Results) = 0, m.type \notin {"MsgSend", "MsgReply"},
         Count(net, Acks) = (IF m.type = "MsgAck" THEN 1 ELSE 0)
  PROVE  /\ Weight' = 0 /\ Replied' = 0
         /\ Count(net', PVs) = 0 /\ Count(net', PCs) = Asking1(n, rest)
         /\ Asking' = Asking1(n, rest) /\ Asking1(n, rest) \in Nat
<1> DEFINE out == Then(NextRequest(n), Proposal(n, rest))
           k == groupKey + 1
           c == Asking1(n, rest)
<1>1. TypeOK /\ TypeOK' /\ Tidy /\ n \in Peers /\ m \in AnyMessage /\ Numbers'
  BY NodeHead, InNumbersNext DEF Ground
<1>2. Sends(n, out, k, c, 0, 0, 0, 0, 0) /\ c \in Nat
  BY <1>1, SendsProposal
<1>3. out \in [Peers -> Seq(AnyMessage)]
  <2>1. Tame(n, NextRequest(n)) /\ Tame(n, Proposal(n, rest))
    BY <1>1, TameProposal
  <2>2. Tame(n, out)
    BY <1>1, <2>1, TameSends
  <2> QED BY <2>2 DEF Tame
<1> HIDE DEF c
<1>4. Passed(Head(net[q][n]), k, c, 0, 0, 0, 0, 0)
  <2>1. Handle(n, q, out)
    OBVIOUS
  <2> HIDE DEF out, k
  <2> QED BY <1>1, <1>2, <1>3, <2>1, NewCounts
<1>5. /\ Count(net', PCs) = Count(net, PCs) + c - In(m, PCs)
      /\ Count(net', PVs) = Count(net, PVs) + 0 - In(m, PVs)
      /\ Count(net', PreparesOf(k)) = Count(net, PreparesOf(k)) + 0 - In(m, PreparesOf(k))
      /\ Count(net', PrepreparesOf(k)) = Count(net, PrepreparesOf(k)) + 0 - In(m, PrepreparesOf(k))
      /\ Count(net', Results) = Count(net, Results) + 0 - In(m, Results)
      /\ Count(net', Acks) = Count(net, Acks) + 0 - In(m, Acks)
  <2> HIDE DEF k
  <2> QED BY <1>4 DEF Passed
<1>6. Count(net, PreparesOf(k)) = 0 /\ Count(net, PrepreparesOf(k)) = 0
  BY NextKey
<1>7. k = groupKey'
  OBVIOUS
<1> HIDE DEF k, out
<1>8. Count(net', PreparesOf(k)) \in Nat /\ Count(net', PrepreparesOf(k)) \in Nat
  BY <1>1, <1>7 DEF Numbers
<1>9. /\ In(m, PreparesOf(k)) \in {0, 1} /\ In(m, PrepreparesOf(k)) \in {0, 1}
  BY DEF In
<1>10. Count(net', PreparesOf(k)) = 0 /\ Count(net', PrepreparesOf(k)) = 0
  BY <1>5, <1>6, <1>8, <1>9
<1>11. /\ In(m, PCs) = 0
       /\ In(m, PVs) = IF m.type = "MsgPrimaryVerified" THEN 1 ELSE 0
       /\ In(m, Results) = 0
       /\ In(m, Acks) = IF m.type = "MsgAck" THEN 1 ELSE 0
  BY <1>1, Kinds DEF In
<1>12. Count(net', PCs) = c
  BY <1>2, <1>5, <1>11
<1>13. Count(net', PVs) = 0
  BY <1>5, <1>11
<1>14. Count(net', Results) = 0
  BY <1>5, <1>11
<1>15. Count(net', Acks) = 0
  BY <1>5, <1>11
<1>16. Asking' = c
  <2>1. Asking' = Count(net', PCs) + Count(net', PVs)
    BY DEF Asking
  <2> QED BY <1>2, <1>12, <1>13, <2>1
<1>17. Replied' = 0
  <2>1. Replied' = (Count(net', Results) + replies'[client][TRUE]) + ConsensusSize * Count(net', Acks)
    BY DEF Replied
  <2>2. ConsensusSize * 0 = 0
    BY Sizes
  <2> QED BY <1>14, <1>15, <2>1, <2>2
<1>18. Weight' = 0
  <2>1. Weight' = (prepared_messages' + Count(net', PreparesOf(groupKey')))
                     + (ConsensusSize - 1) * Count(net', PrepreparesOf(groupKey'))
    BY DEF Weight
  <2>2. (ConsensusSize - 1) * 0 = 0
    BY Sizes
  <2> QED BY <1>7, <1>10, <2>1, <2>2
<1> QED BY <1>2, <1>12, <1>13, <1>16, <1>17, <1>18 DEF c

\* The proposal of the next round follows the close of the last.
LEMMA ClosesInOrder ==
  ASSUME NEW n \in Nodes, NEW out, Closes(n, out), NEW b \in Peers
  PROVE  InOrder(out[b])
<1> SUFFICES ASSUME NEW i \in Nat, NEW j \in Nat, At(out[b], i, PCs), At(out[b], j, Close)
             PROVE  j < i
  BY DEF InOrder
<1>1. j = 1
  BY DEF Closes
<1>2. out[b] \in Seq(NodeMessage)
  BY DEF Closes
<1>3. i # 0
  BY <1>2, AtPlaces
<1>4. i # 1
  BY <1>1 DEF At, PCs, Close, OfType
<1> QED BY <1>1, <1>3, <1>4

\* What is sent when a round is closed: proposals only of the next lead.
LEMMA ClosingKinds ==
  ASSUME TypeOK, TypeOK', NEW n \in Nodes, NEW rest \in Seq(Entry)
  PROVE  LET out == Then(NextRequest(n), Proposal(n, rest)) IN
         /\ out \in [Peers -> Seq(AnyMessage)]
         /\ Closes(n, out)
         /\ \A b \in Peers : \A x \in Members(out[b]) : x \in PCs => Lead' = n
<1> DEFINE out == Then(NextRequest(n), Proposal(n, rest))
           k == [type |-> "MsgNextRequest"]
<1>1. Closes(n, out)
  BY ClosingSends DEF TypeOK
<1>2. /\ Proposal(n, rest) \in [Peers -> Seq(AnyMessage)]
      /\ \A b \in Peers : \A x \in Members(Proposal(n, rest)[b]) :
            x.type = "MsgPrimaryConsensus" /\ x \in AnyMessage /\ Lead' = n
  BY ProposalKinds
<1>3. out \in [Peers -> Seq(AnyMessage)]
  <2>1. n \in Peers
    BY DEF Peers
  <2>2. Tame(n, NextRequest(n)) /\ Tame(n, Proposal(n, rest))
    BY TameProposal
  <2>3. Tame(n, out)
    BY <2>1, <2>2, TameSends
  <2> QED BY <2>3 DEF Tame
<1>4. ASSUME NEW b \in Peers, NEW x \in Members(out[b]), x \in PCs PROVE Lead' = n
  <2>1. NextRequest(n) = To(Nodes \ {n}, k)
    BY DEF NextRequest
  <2>2. k.type # "MsgPrimaryConsensus"
    OBVIOUS
  <2> HIDE DEF k
  <2>3. Members(NextRequest(n)[b]) \subseteq {k}
    <3>1. Members(To(Nodes \ {n}, k)[b]) = IF b \in Nodes \ {n} THEN {k} ELSE {}
      BY ToMembers
    <3> QED BY <2>1, <3>1
  <2>4. NextRequest(n)[b] \in Seq(AnyMessage)
    <3>1. n \in Peers
      BY DEF Peers
    <3>2. Tame(n, NextRequest(n))
      BY TameProposal
    <3> QED BY <3>2 DEF Tame
  <2>5. out[b] = NextRequest(n)[b] \o Proposal(n, rest)[b]
    BY DEF Then
  <2>6. Proposal(n, rest)[b] \in Seq(AnyMessage)
    BY <1>2
  <2>7. x \in Members(NextRequest(n)[b]) \/ x \in Members(Proposal(n, rest)[b])
    <3> DEFINE s == NextRequest(n)[b]
               t == Proposal(n, rest)[b]
    <3>1. PICK i \in DOMAIN (s \o t) : x = (s \o t)[i]
      BY <1>4, <2>5 DEF Members
    <3>2. s \in Seq(AnyMessage) /\ t \in Seq(AnyMessage)
      BY <2>4, <2>6
    <3> HIDE DEF s, t
    <3>3. (i \in DOMAIN s /\ x = s[i]) \/ (i - Len(s) \in DOMAIN t /\ x = t[i - Len(s)])
      BY <3>1, <3>2
    <3>4. x \in Members(s) \/ x \in Members(t)
      BY <3>3 DEF Members
    <3> QED BY <3>4 DEF s, t
  <2>8. x.type = "MsgPrimaryConsensus"
    BY <1>4 DEF PCs, OfType
  <2>9. x \notin Members(NextRequest(n)[b])
    BY <2>2, <2>3, <2>8
  <2> QED BY <1>2, <2>7, <2>9
<1> QED BY <1>1, <1>3, <1>4

\* When all is calm, a node with a request in its queue has one left.
LEMMA LeftBehind ==
  ASSUME Ground, ~aborted, Calm(net), NEW n \in Nodes, requestQueue[n] # <<>>
  PROVE  \A j \in Nodes : Left(requestQueue, net, j) >= 1
<1>1. requestQueue[n] \in Seq(Entry) /\ Counted
  BY DEF Ground, Balanced, TypeOK
<1>2. /\ Len(requestQueue[n]) \in Nat /\ Len(requestQueue[n]) >= 1
      /\ Cardinality(Coming(net, n, "MsgGroup")) \in Nat
  BY <1>1, FS_CardinalityType DEF Counted
<1>3. Cardinality(Coming(net, n, "MsgNextRequest")) = 0
  BY DEF Calm, Told
<1>4. Left(requestQueue, net, n) >= 1
  BY <1>2, <1>3 DEF Left
<1>5. \A j \in Nodes : Left(requestQueue, net, j) = Left(requestQueue, net, n)
  BY DEF Ground, Balanced
<1> QED BY <1>4, <1>5

\* One request less is left after a step, or none less.
LEMMA LeftAfter ==
  ASSUME Ground, ~aborted', NEW n \in Nodes, NEW q \in Peers, Node(n, q),
         \A j \in Nodes : Left(requestQueue, net, j) >= 1
  PROVE  NoneOwed'
<1>1. Shifts(0) \/ Shifts(-1)
  BY NodeShifts DEF Ground, Balanced
<1>2. ASSUME NEW j \in Nodes PROVE Left(requestQueue', net', j) >= 0
  <2>1. Left(requestQueue, net, j) \in Int /\ Left(requestQueue, net, j) >= 1
    BY LeftTypes DEF LeftNumbers
  <2>2. \/ Left(requestQueue', net', j) = Left(requestQueue, net, j) + 0
        \/ Left(requestQueue', net', j) = Left(requestQueue, net, j) + (-1)
    BY <1>1 DEF Shifts
  <2> QED BY <2>1, <2>2
<1> QED BY <1>2 DEF NoneOwed

\* The same after a step.
LEMMA ChannelsTypedNext == TypeOK' => OnlyMessages'
BY ChannelsTyped, PTL

\* A round closed, with nothing of it on its way.
LEMMA AfterClose ==
  ASSUME Ground, Ground', Live, Rewarded, ~aborted, ~aborted', Calm(net),
         NEW n \in Nodes, NEW q \in Peers, Node(n, q), net[q][n] # <<>>,
         NEW m, m = Head(net[q][n]), m.type # "MsgNextRequest",
         NEW rest \in Seq(Entry), Handle(n, q, Then(NextRequest(n), Proposal(n, rest))),
         requestQueue[n] # <<>>, rest # <<>> => busy'[n],
         groupKey' = groupKey + 1, prepared_messages' = 0, replies'[client][TRUE] = 0, trust' = trust,
         Count(net, PCs) = 0, m.type # "MsgPrimaryConsensus",
         Count(net, PVs) = (IF m.type = "MsgPrimaryVerified" THEN 1 ELSE 0),
         Count(net, Results) = 0, m.type \notin {"MsgSend", "MsgReply"},
         Count(net, Acks) = (IF m.type = "MsgAck" THEN 1 ELSE 0),
         \A j \in Nodes : \/ Answers(verified_message'[j]) = 0
                          \/ Answers(verified_message'[j]) >= PrimarySize - 1
  PROVE  Live' /\ Rewarded'
<1> DEFINE out == Then(NextRequest(n), Proposal(n, rest))
           c == Asking1(n, rest)
<1>1. TypeOK /\ TypeOK' /\ Tidy /\ Tidy' /\ n \in Peers /\ Numbers /\ Numbers' /\ Counted
  BY InNumbers, InNumbersNext DEF Ground, Peers, Balanced
<1>2. /\ Weight' = 0 /\ Replied' = 0
      /\ Count(net', PVs) = 0 /\ Count(net', PCs) = c
      /\ Asking' = c /\ c \in Nat
  BY ClosingCounts
<1>3. /\ out \in [Peers -> Seq(AnyMessage)] /\ Closes(n, out)
      /\ \A b \in Peers : \A x \in Members(out[b]) : x \in PCs => Lead' = n
  BY <1>1, ClosingKinds
<1>4. /\ c = 0 \/ c = PrimarySize - 1
      /\ c # 0 => rest # <<>> /\ Lead' = n
  BY DEF Asking1
<1>5. Handle(n, q, out)
  OBVIOUS
<1> HIDE DEF out, c
<1>6. Told(net') = [j \in Nodes |-> IF j = n THEN Told(net)[j] ELSE Told(net)[j] + 1]
  <2>1. ASSUME NEW closes \in {0, 1}, closes = 1
        PROVE  Told(net') = [j \in Nodes |-> IF j = n THEN Told(net)[j] ELSE Told(net)[j] + 1]
    <3>1. Tells(n, out, closes)
      BY <1>3, <2>1 DEF Tells
    <3>2. out \in [Peers -> Seq(NodeMessage)]
      BY <1>3 DEF Closes
    <3>3. Head(net[q][n]).type # "MsgNextRequest" /\ net[q][n] # <<>>
      OBVIOUS
    <3> QED BY <1>1, <1>5, <2>1, <3>1, <3>2, <3>3, NewTold
  <2> QED BY <2>1
<1>7. /\ Told(net')[n] = 0
      /\ \A j \in Nodes : Told(net')[j] <= 1
  <2>1. \A j \in Nodes : Told(net)[j] = 0
    BY DEF Calm
  <2>2. \A j \in Nodes : Told(net')[j] = IF j = n THEN 0 ELSE 1
    BY <1>6, <2>1
  <2> QED BY <2>2
<1>8. Phase'
  <2>1. trust.Sat <= groupKey /\ trust.Sat \in Nat /\ groupKey \in Nat
    BY <1>1 DEF Rewarded, Numbers
  <2>2. trust'.Sat < groupKey'
    BY <2>1
  <2> QED BY <1>2, <2>2 DEF Phase, PhaseOf
<1>9. Lead' \in Nodes
  BY <1>1 DEF Numbers
<1>10. Asks'
  <2>1. SUFFICES ASSUME c > 0
                 PROVE  AsksOf(c, busy'[Lead'], Told(net')[Lead'], Answers(verified_message'[Lead']))
    BY <1>2 DEF Asks, AsksOf
  <2>2. c = PrimarySize - 1 /\ rest # <<>> /\ Lead' = n
    BY <1>2, <1>4, <2>1
  <2>3. busy'[Lead'] /\ Told(net')[Lead'] = 0
    BY <1>7, <2>2
  <2>4. Answers(verified_message'[Lead']) = 0 \/ Answers(verified_message'[Lead']) >= PrimarySize - 1
    BY <1>9
  <2>5. PrimarySize - 1 \in Nat
    BY Sizes
  <2> HIDE <1>2
  <2> QED BY <2>2, <2>3, <2>4, <2>5 DEF AsksOf
<1>11. Tallies'
  BY DEF Tallies, TallyOf
<1>12. \A a, b \in Peers : \A x \in Members(net[a][b]) : x \notin PCs
  <2>1. IsFiniteSet(Spots(net, All, PCs))
    BY <1>1, Counts DEF Tidy
  <2>2. ASSUME NEW a \in Peers, NEW b \in Peers PROVE net[a][b] \in Seq(AnyMessage)
    BY <1>1, ChannelsTyped DEF OnlyMessages
  <2> QED BY <2>1, <2>2, NoneCounted
<1>13. \A a, b \in Peers : \A x \in Members(net'[a][b]) : x \notin PVs
  <2>1. IsFiniteSet(Spots(net', All, PVs))
    BY <1>1, Counts DEF Tidy
  <2>2. ASSUME NEW a \in Peers, NEW b \in Peers PROVE net'[a][b] \in Seq(AnyMessage)
    BY <1>1, ChannelsTypedNext DEF OnlyMessages
  <2> QED BY <1>2, <2>1, <2>2, NoneCounted
<1>14. Routes'
  <2>1. SUFFICES ASSUME NEW a \in Peers, NEW b \in Peers, NEW x \in Members(net'[a][b])
                 PROVE  /\ x \in PCs => a = Lead'
                        /\ x \notin PVs
    BY DEF Routes, Routed
  <2>2. net \in Channels(NodeMessage, ClientMessage) /\ out \in [Peers -> Seq(NodeMessage \cup ClientMessage)]
    BY <1>1, <1>3 DEF TypeOK, AnyMessage
  <2>3. x \in Members(net[a][b]) \/ (a = n /\ x \in Members(out[b]))
    BY <1>1, <1>5, <2>2, HandleMembers
  <2> QED BY <1>3, <1>12, <1>13, <2>3
<1>15. Ordered'
  <2>1. \A b \in Peers : InOrder(out[b])
    BY <1>3, ClosesInOrder
  <2>2. \A b \in Peers : \A i \in Nat : ~At(net[n][b], i, PCs)
    BY <1>1, <1>12 DEF At, Members
  <2>3. Ordered
    BY DEF Live
  <2> QED BY <1>1, <1>3, <1>5, <2>1, <2>2, <2>3, KeepsOrder
<1>16. ToldOnce'
  BY <1>7 DEF ToldOnce
<1>17. NoneOwed'
  BY LeftBehind, LeftAfter
<1>18. Rewarded'
  <2>1. trust.Sat <= groupKey /\ trust.Sat \in Nat /\ groupKey \in Nat
    BY <1>1 DEF Rewarded, Numbers
  <2>2. trust'.Sat <= groupKey'
    BY <2>1
  <2> QED BY <2>2 DEF Rewarded
<1> QED BY <1>8, <1>10, <1>11, <1>14, <1>15, <1>16, <1>17, <1>18 DEF Live

\* In a round of which everything is known to all, nothing is open.
LEMMA NothingOpen ==
  ASSUME Ground, Live, Asking = 0
  PROVE  /\ Count(net, PCs) = 0 /\ Count(net, PVs) = 0
         /\ \A j \in Nodes : \/ Answers(verified_message[j]) = 0
                             \/ Answers(verified_message[j]) >= PrimarySize - 1
<1>1. Count(net, PCs) \in Nat /\ Count(net, PVs) \in Nat
  BY InNumbers DEF Numbers
<1>2. Count(net, PCs) + Count(net, PVs) = 0
  BY DEF Asking
<1>3. Count(net, PCs) = 0 /\ Count(net, PVs) = 0
  BY <1>1, <1>2
<1>4. ASSUME NEW j \in Nodes
      PROVE  \/ Answers(verified_message[j]) = 0
             \/ Answers(verified_message[j]) >= PrimarySize - 1
  <2>1. TallyOf(Answers(verified_message[j]), j = Lead /\ Asking > 0)
    BY DEF Live, Tallies
  <2> QED BY <2>1 DEF TallyOf
<1> QED BY <1>3, <1>4

\* A message on its way is counted.
LEMMA OnItsWay ==
  ASSUME Ground, NEW n \in Nodes, NEW q \in Peers, net[q][n] # <<>>,
         NEW W, W \subseteq Rest, Head(net[q][n]) \in W
  PROVE  Count(net, W) \in Nat /\ Count(net, W) >= 1
<1>1. IsFiniteSet(Spots(net, All, W)) /\ Count(net, W) \in Nat
  BY PartOfRest DEF Ground, Tidy
<1>2. n \in Peers /\ Head(net[q][n]) \in Members(net[q][n])
  BY NodeHead
<1>3. net[q][n] \in Seq(AnyMessage)
  BY <1>2, ChannelsTyped DEF OnlyMessages, Ground
<1>4. Count(net, W) # 0
  BY <1>1, <1>2, <1>3, NoneCounted
<1> QED BY <1>1, <1>4

\* Arithmetic of a sum that a certificate's weight bounds.
LEMMA SumBounds ==
  ASSUME NEW x \in Nat, NEW y \in Nat, NEW z \in Nat, NEW e \in Nat, NEW k \in Nat, k >= 1,
         z >= 1 => k <= e, z >= 2 => k * 2 <= e,
         NEW s, s = (x + y) + e
  PROVE  /\ s = 0 => x = 0 /\ y = 0 /\ z = 0
         /\ s <= k /\ z >= 1 => x = 0 /\ y = 0 /\ z = 1
OBVIOUS

\* What is being replied is for the requests of one round.
LEMMA RepliesOpen ==
  ASSUME Ground
  PROVE  /\ Replied = 0 =>
               Count(net, Results) = 0 /\ replies[client][TRUE] = 0 /\ Count(net, Acks) = 0
         /\ Replied <= ConsensusSize /\ Count(net, Acks) >= 1 =>
               Count(net, Results) = 0 /\ replies[client][TRUE] = 0 /\ Count(net, Acks) = 1
<1> DEFINE r == Count(net, Results)
           t == replies[client][TRUE]
           a == Count(net, Acks)
<1>1. r \in Nat /\ t \in Nat /\ a \in Nat
  BY InNumbers DEF Numbers
<1>2. Replied = (r + t) + ConsensusSize * a
  BY DEF Replied
<1>3. ConsensusSize \in Nat /\ ConsensusSize >= 1
  BY Sizes
<1> HIDE DEF r, t, a
<1> DEFINE d == ConsensusSize * a
<1>4. /\ d \in Nat
      /\ a >= 1 => ConsensusSize * 1 <= d
      /\ a >= 2 => ConsensusSize * 2 <= d
  BY <1>1, <1>3, Multiply
<1>5. a >= 1 => ConsensusSize <= d
  BY <1>3, <1>4
<1>6. Replied = (r + t) + d
  BY <1>2
<1> HIDE DEF d
<1>7. /\ Replied = 0 => r = 0 /\ t = 0 /\ a = 0
      /\ Replied <= ConsensusSize /\ a >= 1 => r = 0 /\ t = 0 /\ a = 1
  BY <1>1, <1>3, <1>4, <1>5, <1>6, SumBounds
<1> QED BY <1>7 DEF r, t, a

\* What closing a round assigns.
LEMMA Closed ==
  ASSUME Ground, NEW n \in Nodes, NEW q \in Peers, CloseRound(n, q), requestQueue[n] # <<>>
  PROVE  LET rest == Tail(requestQueue[n]) IN
         /\ rest \in Seq(Entry)
         /\ Handle(n, q, Then(NextRequest(n), Proposal(n, rest)))
         /\ rest # <<>> => busy'[n]
         /\ groupKey' = groupKey + 1 /\ replies' = replies
<1> DEFINE rest == Tail(requestQueue[n])
<1>1. /\ Process(n, rest, Empty)
      /\ Handle(n, q, Then(NextRequest(n), Proposal(n, rest)))
      /\ groupKey' = groupKey + 1 /\ replies' = replies
  BY DEF CloseRound, changeGroupKey, clientVars
<1>2. rest \in Seq(Entry)
  BY DEF Ground, TypeOK
<1> HIDE DEF rest
<1>3. rest # <<>> => busy'[n]
  BY <1>1 DEF Process, Ground, TypeOK
<1> QED BY <1>1, <1>2, <1>3 DEF rest

\* An acknowledgement is for the round all nodes are in.
LEMMA AckKnown ==
  ASSUME Ground, Live, NEW n \in Nodes, NEW q \in Peers, ack_handler(n, q)
  PROVE  /\ Engaged
         /\ Count(net, Results) = 0 /\ replies[client][TRUE] = 0 /\ Count(net, Acks) = 1
<1>1. net[q][n] # <<>> /\ Head(net[q][n]).type = "MsgAck"
  BY DEF ack_handler, Arrives
<1>2. Head(net[q][n]) \in Acks /\ Acks \subseteq Rest
  <2>1. Head(net[q][n]) \in AnyMessage
    BY <1>1, NodeHead
  <2> QED BY <1>1, <2>1, Kinds DEF Acks, OfType, Rest, AnyMessage
<1>3. Count(net, Acks) \in Nat /\ Count(net, Acks) >= 1
  BY <1>1, <1>2, OnItsWay
<1>4. Replied \in Nat /\ Replied # 0
  <2>1. Replied \in Nat
    BY InNumbers DEF Numbers
  <2>2. Replied = 0 => Count(net, Acks) = 0
    BY RepliesOpen
  <2> QED BY <1>3, <2>1, <2>2
<1>5. Engaged /\ Replied <= ConsensusSize
  <2>1. PhaseOf(Engaged, Weight, Replied, trust.Sat, groupKey)
    BY DEF Live, Phase
  <2> QED BY <1>4, <2>1 DEF PhaseOf
<1>6. Count(net, Results) = 0 /\ replies[client][TRUE] = 0 /\ Count(net, Acks) = 1
  BY <1>3, <1>5, RepliesOpen
<1> QED BY <1>5, <1>6

\* An acknowledgement closes the round it acknowledges.
LEMMA AckKeeps ==
  ASSUME Ground, Ground', Live, Rewarded, ~aborted, ~aborted',
         NEW n \in Nodes, NEW q \in Peers, ack_handler(n, q)
  PROVE  Live' /\ Rewarded'
<1> DEFINE m == Head(net[q][n])
           rest == Tail(requestQueue[n])
<1>1. /\ net[q][n] # <<>> /\ m.type = "MsgAck" /\ CloseRound(n, q) /\ Node(n, q)
      /\ prepared_messages' = 0 /\ UNCHANGED <<verified_message, trust>>
  BY DEF ack_handler, Arrives, clearPreparedMessages, Node
<1>2. requestQueue[n] # <<>>
  BY <1>1 DEF CloseRound
<1>3. /\ rest \in Seq(Entry)
      /\ Handle(n, q, Then(NextRequest(n), Proposal(n, rest)))
      /\ rest # <<>> => busy'[n]
      /\ groupKey' = groupKey + 1 /\ replies' = replies
  BY <1>1, <1>2, Closed
<1>4. /\ Engaged
      /\ Count(net, Results) = 0 /\ replies[client][TRUE] = 0 /\ Count(net, Acks) = 1
  BY AckKnown
<1>5. /\ Calm(net) /\ Count(net, PCs) = 0 /\ Count(net, PVs) = 0
      /\ \A j \in Nodes : \/ Answers(verified_message[j]) = 0
                          \/ Answers(verified_message[j]) >= PrimarySize - 1
  BY <1>4, NothingOpen DEF Engaged
<1>6. /\ m = Head(net[q][n]) /\ replies'[client][TRUE] = 0 /\ trust' = trust
      /\ m.type = "MsgAck" /\ net[q][n] # <<>> /\ prepared_messages' = 0 /\ Node(n, q)
      /\ \A j \in Nodes : \/ Answers(verified_message'[j]) = 0
                          \/ Answers(verified_message'[j]) >= PrimarySize - 1
  BY <1>1, <1>3, <1>4, <1>5
<1> HIDE DEF m, rest
<1> QED BY <1>2, <1>3, <1>4, <1>5, <1>6, AfterClose

\* A counted prepare belongs to the round: all nodes are in it, and its
\* weight is at least what was counted with it.
LEMMA CountedPrepare ==
  ASSUME Ground, Live, NEW n \in Nodes, NEW q \in Peers, net[q][n] # <<>>,
         NEW m, m = Head(net[q][n]), m.type = "MsgPrepare", m.groupSign.key = groupKey
  PROVE  /\ Engaged /\ prepared_messages + 1 <= Weight
         /\ Count(net, PreparesOf(groupKey)) >= 1
         /\ \/ Weight <= MaxPrepared /\ Replied = 0 /\ trust.Sat < groupKey
            \/ Weight + PrepareQuorum <= MaxPrepared
<1>1. Numbers /\ m \in AnyMessage
  BY InNumbers, NodeHead
<1>2. Count(net, PreparesOf(groupKey)) >= 1
  <2>1. Head(net[q][n]) \in PreparesOf(groupKey)
    BY <1>1, Kinds
  <2>2. PreparesOf(groupKey) \subseteq Rest
    BY DEF PreparesOf, OfType, Rest, AnyMessage
  <2> QED BY <2>1, <2>2, OnItsWay
<1>3. prepared_messages + 1 <= Weight
  <2> DEFINE d == (ConsensusSize - 1) * Count(net, PrepreparesOf(groupKey))
             x == Count(net, PreparesOf(groupKey))
  <2>1. d \in Nat /\ x \in Nat /\ prepared_messages \in Nat
    BY <1>1, Sizes, Multiply DEF Numbers
  <2>2. Weight = (prepared_messages + x) + d
    BY DEF Weight
  <2>3. x >= 1
    BY <1>2
  <2> HIDE DEF d, x
  <2> QED BY <2>1, <2>2, <2>3
<1>4. Weight # 0
  BY <1>1, <1>3 DEF Numbers
<1>5. PhaseOf(Engaged, Weight, Replied, trust.Sat, groupKey)
  BY DEF Live, Phase
<1> QED BY <1>2, <1>3, <1>4, <1>5 DEF PhaseOf

\* A round dropped is the one all nodes are in; nothing of it was answered.
LEMMA DropKnown ==
  ASSUME OneQuorum, Ground, Live, NEW n \in Nodes, NEW q \in Peers, net[q][n] # <<>>,
         NEW m, m = Head(net[q][n]), m.type = "MsgPrepare",
         ~QuorumReached(Prepared(n, q, m)), Prepared(n, q, m) = MaxPrepared
  PROVE  Engaged /\ Replied = 0
<1>1. /\ Numbers /\ prepared_messages < PrepareQuorum
      /\ (MaxPrepared \in 1..(PrepareQuorum - 1) => prepared_messages < MaxPrepared)
  BY InNumbers DEF Ground, PreparedBelowQuorum
<1>2. MaxPrepared < PrepareQuorum
  BY Sizes DEF QuorumReached
<1>3. MaxPrepared >= 1
  <2> DEFINE a == ConsensusSize - PrimarySize
             b == ConsensusSize - 1
  <2>1. a \in Nat /\ a >= 1 /\ b \in Nat /\ b >= 1
    BY SizeAssumption DEF OneQuorum
  <2>2. MaxPrepared = a * b
    BY DEF MaxPrepared
  <2> HIDE DEF a, b
  <2>3. a * 1 <= a * b
    BY <2>1, Multiply
  <2> QED BY <2>1, <2>2, <2>3
<1>4. Prepared(n, q, m) # prepared_messages
  BY <1>1, <1>2, <1>3, Sizes DEF Numbers
<1>5. m.groupSign.key = groupKey
  BY <1>4, PrepareTaken
<1>6. /\ Engaged
      /\ \/ Weight <= MaxPrepared /\ Replied = 0 /\ trust.Sat < groupKey
         \/ Weight + PrepareQuorum <= MaxPrepared
  BY <1>5, CountedPrepare
<1>7. ~(Weight + PrepareQuorum <= MaxPrepared)
  BY <1>1, <1>2, Sizes DEF Numbers
<1> QED BY <1>6, <1>7

\* With as many verified prepares as a round can have and no quorum, the
\* round is dropped: there is nothing left of it.
LEMMA DropKeeps ==
  ASSUME OneQuorum, Ground, Ground', Live, Rewarded, ~aborted, ~aborted',
         NEW n \in Nodes, NEW q \in Peers, prepare_handler(n, q), CloseRound(n, q),
         ~QuorumReached(Prepared(n, q, Head(net[q][n]))),
         Prepared(n, q, Head(net[q][n])) = MaxPrepared,
         prepared_messages' = 0, trust' = trust, verified_message' = verified_message
  PROVE  Live' /\ Rewarded'
<1> DEFINE m == Head(net[q][n])
           rest == Tail(requestQueue[n])
<1>1. net[q][n] # <<>> /\ m.type = "MsgPrepare" /\ Node(n, q)
  BY DEF prepare_handler, Arrives, Node
<1>2. requestQueue[n] # <<>>
  BY DEF CloseRound
<1>3. /\ rest \in Seq(Entry)
      /\ Handle(n, q, Then(NextRequest(n), Proposal(n, rest)))
      /\ rest # <<>> => busy'[n]
      /\ groupKey' = groupKey + 1 /\ replies' = replies
  BY <1>2, Closed
<1>4. m = Head(net[q][n])
  OBVIOUS
<1>5. Engaged /\ Replied = 0
  BY <1>1, DropKnown
<1>6. Count(net, Results) = 0 /\ replies[client][TRUE] = 0 /\ Count(net, Acks) = 0
  BY <1>5, RepliesOpen
<1>7. /\ Calm(net) /\ Count(net, PCs) = 0 /\ Count(net, PVs) = 0
      /\ \A j \in Nodes : \/ Answers(verified_message[j]) = 0
                          \/ Answers(verified_message[j]) >= PrimarySize - 1
  BY <1>5, NothingOpen DEF Engaged
<1>8. /\ replies'[client][TRUE] = 0
      /\ \A j \in Nodes : \/ Answers(verified_message'[j]) = 0
                          \/ Answers(verified_message'[j]) >= PrimarySize - 1
  BY <1>3, <1>6, <1>7
<1> HIDE DEF m, rest
<1> QED BY <1>1, <1>2, <1>3, <1>4, <1>6, <1>7, <1>8, AfterClose

\* A sum of natural numbers is zero only if they are.
LEMMA ZeroSum == \A y, z, e \in Nat : (y + z) + e = 0 => y = 0
OBVIOUS

\* A rejected request is closed when the last answer has come.
LEMMA RejectKeeps ==
  ASSUME Ground, Ground', Live, Rewarded, ~aborted, ~aborted',
         NEW n \in Nodes, NEW q \in Peers, primary_verified_handler(n, q), CloseRound(n, q),
         NEW answers,
         answers = [verified_message[n] EXCEPT ![Head(net[q][n]).verified] = @ + 1],
         AllAnswered(answers),
         verified_message' = [verified_message EXCEPT ![n] = answers]
  PROVE  Live' /\ Rewarded'
<1> DEFINE m == Head(net[q][n])
           rest == Tail(requestQueue[n])
           v == Answers(verified_message[n])
<1>1. /\ net[q][n] # <<>> /\ m.type = "MsgPrimaryVerified" /\ Node(n, q)
      /\ prepared_messages' = prepared_messages /\ trust' = trust
  BY DEF primary_verified_handler, Arrives, Node
<1>2. requestQueue[n] # <<>>
  BY DEF CloseRound
<1>3. /\ rest \in Seq(Entry)
      /\ Handle(n, q, Then(NextRequest(n), Proposal(n, rest)))
      /\ rest # <<>> => busy'[n]
      /\ groupKey' = groupKey + 1 /\ replies' = replies
  BY <1>2, Closed
<1>4. m = Head(net[q][n])
  OBVIOUS
<1>5. /\ n = Lead /\ Calm(net) /\ busy[Lead]
      /\ Asking > 0 /\ Asking <= PrimarySize - 1
      /\ v >= PrimarySize - 1 \/ Asking + v = PrimarySize - 1
      /\ Weight = 0 /\ Replied = 0 /\ m.verified \in BOOLEAN
      /\ Len(primaryGroup) = PrimarySize /\ m \in AnyMessage /\ m \in PVs
  BY <1>1, AnswerArrives
<1>6. Numbers /\ TypeOK
  BY InNumbers DEF Ground
<1>7. v + 1 = PrimarySize - 1 /\ v \in Nat /\ Answers(answers) = PrimarySize - 1
  <2>1. verified_message[n] \in [BOOLEAN -> Nat]
    BY <1>6 DEF TypeOK
  <2>2. Answers(answers) = v + 1 /\ v \in Nat
    BY <1>5, <2>1, OneMore
  <2> QED BY <1>5, <2>2 DEF AllAnswered
<1>8. Asking = 1
  <2>1. PrimarySize - 1 \in Nat /\ Asking \in Nat
    BY <1>6, Sizes DEF Numbers
  <2>2. \A x, y, a \in Nat : y + 1 = x /\ a > 0 /\ (y >= x \/ a + y = x) => a = 1
    OBVIOUS
  <2> QED BY <1>5, <1>7, <2>1, <2>2
<1>9. \A j \in Nodes : \/ Answers(verified_message'[j]) = 0
                       \/ Answers(verified_message'[j]) >= PrimarySize - 1
  <2>1. SUFFICES ASSUME NEW j \in Nodes
                 PROVE  \/ Answers(verified_message'[j]) = 0
                        \/ Answers(verified_message'[j]) >= PrimarySize - 1
    OBVIOUS
  <2>2. CASE j = n
    <3>1. verified_message'[j] = answers
      BY <1>6, <2>2 DEF TypeOK
    <3> QED BY <1>7, <3>1, Sizes
  <2>3. CASE j # n
    <3>1. TallyOf(Answers(verified_message[j]), j = Lead /\ Asking > 0)
      BY DEF Live, Tallies
    <3>2. verified_message'[j] = verified_message[j]
      BY <2>3
    <3> QED BY <1>5, <2>3, <3>1, <3>2 DEF TallyOf
  <2> QED BY <2>2, <2>3
<1> HIDE DEF m, rest, v
<1>10. Count(net, PCs) = 0 /\ Count(net, PVs) = 1
  <2>1. Count(net, PVs) \in Nat /\ Count(net, PVs) >= 1
    <3>1. PVs \subseteq Rest
      BY DEF PVs, OfType, Rest, AnyMessage
    <3>2. Head(net[q][n]) \in PVs
      BY <1>4, <1>5
    <3> QED BY <1>1, <3>1, <3>2, OnItsWay
  <2>2. Count(net, PCs) \in Nat /\ Count(net, PCs) + Count(net, PVs) = 1
    BY <1>6, <1>8 DEF Numbers, Asking
  <2> QED BY <2>1, <2>2
<1>11. Count(net, Results) = 0 /\ replies[client][TRUE] = 0 /\ Count(net, Acks) = 0
  BY <1>5, RepliesOpen
<1>12. prepared_messages = 0
  <2> DEFINE d == (ConsensusSize - 1) * Count(net, PrepreparesOf(groupKey))
             x == Count(net, PreparesOf(groupKey))
  <2>1. d \in Nat /\ x \in Nat /\ prepared_messages \in Nat
    BY <1>6, Sizes, Multiply DEF Numbers
  <2>2. (prepared_messages + x) + d = 0
    BY <1>5 DEF Weight
  <2> HIDE DEF d, x
  <2> QED BY <2>1, <2>2, ZeroSum
<1>13. prepared_messages' = 0 /\ replies'[client][TRUE] = 0
  BY <1>1, <1>3, <1>11, <1>12
<1>14. /\ m.type # "MsgNextRequest" /\ m.type # "MsgPrimaryConsensus"
       /\ m.type \notin {"MsgSend", "MsgReply"}
       /\ Count(net, PVs) = (IF m.type = "MsgPrimaryVerified" THEN 1 ELSE 0)
       /\ Count(net, Acks) = (IF m.type = "MsgAck" THEN 1 ELSE 0)
  BY <1>1, <1>10, <1>11
<1> QED BY <1>1, <1>2, <1>3, <1>4, <1>5, <1>9, <1>10, <1>11, <1>13, <1>14, AfterClose

\* What a quorum sends: a result to every other member of the group, and one
\* to the client.
LEMMA ResultsSent ==
  ASSUME Ground, NEW n \in Members(consensusGroup), NEW order \in Nat, NEW k
  PROVE  LET send == [type |-> "MsgSend", sendReply |-> TRUE, order |-> order]
             out == Then(To(Members(consensusGroup) \ {n}, send), Reply(n, order, TRUE))
         IN  /\ out \in [Peers -> Seq(NodeMessage)] /\ Plain(out)
             /\ \E r \in Nat : r <= ConsensusSize /\ Sends(n, out, k, 0, 0, 0, 0, r, 0)
<1> DEFINE send == [type |-> "MsgSend", sendReply |-> TRUE, order |-> order]
           reply == [type |-> "MsgReply", result |-> TRUE, order |-> order]
           S == Members(consensusGroup) \ {n}
           C == {client_id[n]}
           f == To(S, send)
           g == To(C, reply)
           a == Cardinality(S \cap Peers)
           b == Cardinality(C \cap Peers)
<1>1. /\ send \in NodeMessage /\ send \in AnyMessage /\ send.type = "MsgSend"
      /\ reply \in NodeMessage /\ reply \in AnyMessage /\ reply.type = "MsgReply"
  BY DEF NodeMessage, AnyMessage
<1> HIDE DEF send, reply
<1>2. n \in Nodes /\ n \in Peers /\ GroupSets
  BY GroupsAsSets DEF Ground, GroupSets, Peers
<1>3. IsFiniteSet(S) /\ a \in Nat /\ a = ConsensusSize - 1
  <2>1. IsFiniteSet(Members(consensusGroup)) /\ Cardinality(Members(consensusGroup)) = ConsensusSize
        /\ Members(consensusGroup) \subseteq Nodes
    BY <1>2 DEF GroupSets
  <2>2. IsFiniteSet(S) /\ Cardinality(S) = ConsensusSize - 1
    BY <2>1, FS_RemoveElement
  <2>3. S \cap Peers = S
    BY <2>1 DEF Peers
  <2> QED BY <2>2, <2>3, Sizes
<1>4. IsFiniteSet(C) /\ b \in Nat /\ b <= 1
  <2>1. IsFiniteSet(C) /\ Cardinality(C) = 1
    BY FS_Singleton
  <2>2. C \cap Peers \subseteq C
    OBVIOUS
  <2> HIDE DEF C
  <2>3. b \in Nat /\ b <= Cardinality(C)
    BY <2>1, <2>2, FS_Subset, FS_CardinalityType
  <2> QED BY <2>1, <2>3
<1>5. Reply(n, order, TRUE) = g
  BY DEF Reply, reply
<1> HIDE DEF S, C
<1>6. /\ f \in [Peers -> Seq(NodeMessage)] /\ g \in [Peers -> Seq(NodeMessage)]
      /\ f \in [Peers -> Seq(AnyMessage)] /\ g \in [Peers -> Seq(AnyMessage)]
      /\ Plain(f) /\ Plain(g)
  BY <1>1, ToSent, PlainSends
<1>7. /\ Sends(n, f, k, 0, 0, 0, 0, a, 0)
      /\ Sends(n, g, k, 0, 0, 0, 0, b, 0)
  BY <1>1, <1>2, <1>3, <1>4, SendsTo
<1> HIDE DEF f, g, a, b
<1>8. Sends(n, Then(f, g), k, 0 + 0, 0 + 0, 0 + 0, 0 + 0, a + b, 0 + 0)
  BY <1>2, <1>6, <1>7, SendsThen
<1>9. Sends(n, Then(f, g), k, 0, 0, 0, 0, a + b, 0)
  BY <1>8
<1>10. a + b \in Nat /\ a + b <= ConsensusSize
  BY <1>3, <1>4, Sizes
<1>11. Plain(Then(f, g))
  BY <1>6, PlainSends
<1>12. Then(f, g) \in [Peers -> Seq(NodeMessage)]
  BY <1>6 DEF Then
<1>13. /\ Then(f, g) \in [Peers -> Seq(NodeMessage)] /\ Plain(Then(f, g))
       /\ \E r \in Nat : r <= ConsensusSize /\ Sends(n, Then(f, g), k, 0, 0, 0, 0, r, 0)
  BY <1>9, <1>10, <1>11, <1>12
<1>14. f = To(Members(consensusGroup) \ {n}, [type |-> "MsgSend", sendReply |-> TRUE, order |-> order])
  BY DEF f, S, send
<1> QED BY <1>5, <1>13, <1>14

\* The prepare that completes a quorum.
LEMMA QuorumWeighs ==
  ASSUME OneQuorum, Ground, Live, NEW n \in Nodes, NEW q \in Peers, net[q][n] # <<>>,
         NEW m, m = Head(net[q][n]), m.type = "MsgPrepare",
         QuorumReached(Prepared(n, q, m))
  PROVE  /\ Prepared(n, q, m) = prepared_messages + 1
         /\ m.groupSign.key = groupKey /\ n \in Members(consensusGroup)
         /\ VerifySignature(m.order, client_request[n], m.peerSign, q)
         /\ Engaged /\ prepared_messages + 1 = PrepareQuorum /\ PrepareQuorum <= Weight
         /\ Weight <= MaxPrepared /\ Replied = 0 /\ trust.Sat < groupKey
<1>1. /\ prepared_messages \in Nat /\ prepared_messages < PrepareQuorum
      /\ Prepared(n, q, m) >= PrepareQuorum
      /\ PrepareQuorum \in Nat /\ MaxPrepared \in Nat /\ MaxPrepared < 2 * PrepareQuorum
      /\ Weight \in Nat
  BY InNumbers, Sizes DEF Ground, PreparedBelowQuorum, QuorumReached, OneQuorum, Numbers
<1>2. Prepared(n, q, m) # prepared_messages
  BY <1>1
<1>3. /\ Prepared(n, q, m) = prepared_messages + 1
      /\ m.groupSign.key = groupKey /\ n \in Members(consensusGroup)
      /\ VerifySignature(m.order, client_request[n], m.peerSign, q)
  BY <1>2, PrepareTaken
<1>4. /\ Engaged /\ prepared_messages + 1 <= Weight
      /\ \/ Weight <= MaxPrepared /\ Replied = 0 /\ trust.Sat < groupKey
         \/ Weight + PrepareQuorum <= MaxPrepared
  BY <1>3, CountedPrepare
<1>5. prepared_messages + 1 = PrepareQuorum /\ PrepareQuorum <= Weight
  BY <1>1, <1>3, <1>4
<1>6. ~(Weight + PrepareQuorum <= MaxPrepared)
  BY <1>1, <1>5
<1> QED BY <1>3, <1>4, <1>5, <1>6

\* Reading a prepare of this round takes one off the prepares and nothing off
\* the other kinds, whatever results are sent for it.
LEMMA ResultCounts ==
  ASSUME Ground, NEW n \in Nodes, NEW q \in Peers, net[q][n] # <<>>,
         NEW m, m = Head(net[q][n]), m.type = "MsgPrepare", m.groupSign.key = groupKey,
         NEW out \in [Peers -> Seq(NodeMessage)], Handle(n, q, out),
         NEW r \in Nat, Sends(n, out, groupKey, 0, 0, 0, 0, r, 0)
  PROVE  /\ Count(net', PCs) = Count(net, PCs) + 0 - 0
         /\ Count(net', PVs) = Count(net, PVs) + 0 - 0
         /\ Count(net', PreparesOf(groupKey)) = Count(net, PreparesOf(groupKey)) + 0 - 1
         /\ Count(net', PrepreparesOf(groupKey)) = Count(net, PrepreparesOf(groupKey)) + 0 - 0
         /\ Count(net', Results) = Count(net, Results) + r - 0
         /\ Count(net', Acks) = Count(net, Acks) + 0 - 0
<1>1. m \in AnyMessage /\ n \in Peers
  BY NodeHead
<1>2. TypeOK /\ Tidy /\ out \in [Peers -> Seq(AnyMessage)]
  <2>1. \A b \in Peers : out[b] \in Seq(AnyMessage)
    BY DEF AnyMessage
  <2> QED BY <2>1 DEF Ground
<1>3. Passed(m, groupKey, 0, 0, 0, 0, r, 0)
  BY <1>1, <1>2, NewCounts
<1>4. /\ In(m, PCs) = 0 /\ In(m, PVs) = 0 /\ In(m, PreparesOf(groupKey)) = 1
      /\ In(m, PrepreparesOf(groupKey)) = 0 /\ In(m, Results) = 0 /\ In(m, Acks) = 0
  BY <1>1, Kinds DEF In
<1> QED BY <1>3, <1>4 DEF Passed

\* A quorum is rewarded and answered once.
LEMMA QuorumKeeps ==
  ASSUME OneQuorum, Ground, Ground', Live, Rewarded,
         NEW n \in Nodes, NEW q \in Peers, prepare_handler(n, q),
         NEW m, m = Head(net[q][n]), QuorumReached(Prepared(n, q, m)),
         prepared_messages' = 0,
         trust' = updateTrust(VerifySignature(m.order, client_request[n], m.peerSign, q)),
         Handle(n, q, Then(To(Members(consensusGroup) \ {n},
                              [type |-> "MsgSend", sendReply |-> TRUE, order |-> m.order]),
                           Reply(n, m.order, TRUE))),
         UNCHANGED <<nodeVars, groupKey, groupVars>>
  PROVE  Live' /\ Rewarded'
<1> DEFINE out == Then(To(Members(consensusGroup) \ {n},
                          [type |-> "MsgSend", sendReply |-> TRUE, order |-> m.order]),
                       Reply(n, m.order, TRUE))
           P == Count(net, PreparesOf(groupKey))
           PP == Count(net, PrepreparesOf(groupKey))
           u == prepared_messages
           d == (ConsensusSize - 1) * PP
<1>1. /\ net[q][n] # <<>> /\ m.type = "MsgPrepare" /\ Node(n, q)
      /\ UNCHANGED <<verified_message, randomValue, groupVars, groupKey, replies, busy>>
  BY DEF prepare_handler, Arrives, clientVars, nodeVars, Node
<1>2. m \in AnyMessage /\ m \in NodeMessage /\ n \in Peers
  BY <1>1, NodeHead
<1>3. m.order \in Nat
  BY <1>1, <1>2, NodeMessageFields
<1>4. Numbers /\ Numbers' /\ TypeOK /\ Tidy /\ Routes /\ Ordered
  BY InNumbers, InNumbersNext DEF Ground, Live
<1>5. /\ m.groupSign.key = groupKey /\ n \in Members(consensusGroup)
      /\ VerifySignature(m.order, client_request[n], m.peerSign, q)
      /\ Engaged /\ u + 1 = PrepareQuorum /\ PrepareQuorum <= Weight
      /\ Weight <= MaxPrepared /\ Replied = 0 /\ trust.Sat < groupKey
  BY <1>1, QuorumWeighs
<1>6. /\ out \in [Peers -> Seq(NodeMessage)] /\ Plain(out)
      /\ \E r \in Nat : r <= ConsensusSize /\ Sends(n, out, groupKey, 0, 0, 0, 0, r, 0)
  BY <1>3, <1>5, ResultsSent
<1>7. PICK r \in Nat : r <= ConsensusSize /\ Sends(n, out, groupKey, 0, 0, 0, 0, r, 0)
  BY <1>6
<1>8. Handle(n, q, out)
  OBVIOUS
<1> HIDE DEF out
<1>9. /\ Count(net', PCs) = Count(net, PCs)
      /\ Count(net', PVs) = Count(net, PVs)
      /\ Count(net', PreparesOf(groupKey)) = P - 1
      /\ Count(net', PrepreparesOf(groupKey)) = PP
      /\ Count(net', Results) = Count(net, Results) + r
      /\ Count(net', Acks) = Count(net, Acks)
  <2>2. /\ Count(net', PCs) = Count(net, PCs) + 0 - 0
        /\ Count(net', PVs) = Count(net, PVs) + 0 - 0
        /\ Count(net', PreparesOf(groupKey)) = P + 0 - 1
        /\ Count(net', PrepreparesOf(groupKey)) = PP + 0 - 0
        /\ Count(net', Results) = Count(net, Results) + r - 0
        /\ Count(net', Acks) = Count(net, Acks) + 0 - 0
    <3>1. out \in [Peers -> Seq(NodeMessage)] /\ m = Head(net[q][n]) /\ net[q][n] # <<>>
      BY <1>1, <1>6
    <3>2. m.type = "MsgPrepare" /\ m.groupSign.key = groupKey
      BY <1>1, <1>5
    <3> QED BY <1>7, <1>8, <3>1, <3>2, ResultCounts
  <2>3. \A x \in Nat : x + 0 - 0 = x /\ x + 0 - 1 = x - 1
    OBVIOUS
  <2>4. \A x, y \in Nat : x + y - 0 = x + y
    OBVIOUS
  <2>5. /\ Count(net, PCs) \in Nat /\ Count(net, PVs) \in Nat
        /\ P \in Nat /\ PP \in Nat
        /\ Count(net, Results) \in Nat /\ Count(net, Acks) \in Nat
    BY <1>4 DEF Numbers
  <2> HIDE DEF P, PP
  <2> QED BY <1>7, <2>2, <2>3, <2>4, <2>5
<1>10. Asking' = Asking
  BY <1>9 DEF Asking
<1>11. Weight' + PrepareQuorum = Weight
  <2>1. Weight = (u + P) + d
    BY DEF Weight
  <2>2. Weight' = (0 + (P - 1)) + d
    <3>1. Weight' = (prepared_messages' + Count(net', PreparesOf(groupKey)))
                       + (ConsensusSize - 1) * Count(net', PrepreparesOf(groupKey))
      BY <1>1 DEF Weight
    <3> QED BY <1>9, <3>1
  <2>3. P \in Nat /\ PP \in Nat /\ u \in Nat
    BY <1>4 DEF Numbers
  <2>4. d \in Nat
    BY <2>3, Sizes, Multiply
  <2>5. u + 1 = PrepareQuorum
    BY <1>5
  <2> HIDE DEF u, P, PP, d
  <2> HIDE <1>5
  <2> QED BY <2>1, <2>2, <2>3, <2>4, <2>5, Sizes
<1>12. Replied' <= ConsensusSize
  <2>1. Count(net, Results) = 0 /\ replies[client][TRUE] = 0 /\ Count(net, Acks) = 0
    BY <1>5, RepliesOpen
  <2>2. Replied' = ((0 + r) + 0) + ConsensusSize * 0
    BY <1>1, <1>7, <1>9, <2>1 DEF Replied
  <2>3. ConsensusSize * 0 = 0
    BY Sizes
  <2> QED BY <1>7, <2>2, <2>3
<1>13. Told(net') = Told(net) /\ Calm(net')
  <2>1. Head(net[q][n]).type # "MsgNextRequest" /\ net[q][n] # <<>>
    BY <1>1
  <2>2. Quiet(out) /\ out \in [Peers -> Seq(NodeMessage)]
    BY <1>6, PlainIsQuiet
  <2>3. Calm(net)
    BY <1>5 DEF Engaged
  <2> QED BY <1>8, <2>1, <2>2, <2>3, PlainTold
<1>14. Lead' = Lead
  BY <1>1 DEF Lead, groupVars
<1>15. trust'.Sat = trust.Sat + 1 /\ trust.Sat \in Nat
  BY <1>4, <1>5 DEF updateTrust, TypeOK
<1>16. trust'.Sat <= groupKey' /\ groupKey' = groupKey
  <2>1. trust.Sat < groupKey /\ groupKey' = groupKey
    BY <1>1, <1>5
  <2>2. groupKey \in Nat
    BY <1>4 DEF Numbers
  <2>3. \A x, y \in Nat : x < y => x + 1 <= y
    OBVIOUS
  <2> QED BY <1>15, <2>1, <2>2, <2>3
<1>17. Phase'
  <2>1. Engaged'
    <3>1. busy[Lead] /\ Asking = 0
      BY <1>5 DEF Engaged
    <3> QED BY <1>1, <1>10, <1>13, <1>14, <3>1 DEF Engaged
  <2>2. Weight' + PrepareQuorum <= MaxPrepared
    BY <1>5, <1>11
  <2> QED BY <1>12, <1>16, <2>1, <2>2 DEF Phase, PhaseOf
<1>18. Asking = 0
  BY <1>5 DEF Engaged
<1>19. Asks'
  BY <1>10, <1>18 DEF Asks, AsksOf
<1>20. Tallies'
  BY <1>1, <1>10, <1>14 DEF Live, Tallies
<1>21. Routes' /\ Ordered'
  BY <1>1, <1>2, <1>4, <1>6, <1>8, <1>13, <1>14, PlainKeeps
<1>22. ToldOnce'
  BY <1>13 DEF Live, ToldOnce
<1>23. NoneOwed'
  <2>1. \A j \in Nodes : Left(requestQueue', net', j) >= Left(requestQueue, net, j)
    BY <1>1, LeftKept
  <2>2. \A j \in Nodes : Left(requestQueue, net, j) \in Int /\ Left(requestQueue', net', j) \in Int
    BY LeftTypes, LeftTypesNext DEF LeftNumbers
  <2> QED BY <2>1, <2>2 DEF Live, NoneOwed
<1>24. Rewarded'
  <2>1. ~(MaxPrepared < PrepareQuorum)
    BY <1>4, <1>5, Sizes DEF Numbers
  <2> QED BY <1>16, <2>1 DEF Rewarded
<1> QED BY <1>17, <1>19, <1>20, <1>21, <1>22, <1>23, <1>24 DEF Live

\* What the lead makes of its answers, with t for and f against of l.
LEMMA Verdict ==
  ASSUME NEW t \in Nat, NEW f \in Nat, NEW l \in Nat, l >= 1, t + f = l
  PROVE  \/ t >= f /\ t # 0
         \/ f = l \/ f > t
OBVIOUS

\* An answer arrives at the lead.
LEMMA VerifiedKeeps ==
  ASSUME Ground, Ground', Live, Rewarded, ~aborted, ~aborted',
         NEW n \in Nodes, NEW q \in Peers, primary_verified_handler(n, q)
  PROVE  Live' /\ Rewarded'
<1> DEFINE m == Head(net[q][n])
           answers == [verified_message[n] EXCEPT ![m.verified] = @ + 1]
           judged == AllAnswered(answers)
           verifyTrue == IF judged THEN answers[TRUE] ELSE 0
           verifyFalse == IF judged THEN answers[FALSE] ELSE 0
           accepted == verifyTrue >= verifyFalse /\ verifyTrue # 0
           rejected == ~accepted /\ \/ verifyFalse = Len(primaryGroup) - 1
                                    \/ verifyFalse > verifyTrue
           preprepare == [type |-> "MsgPreprepare", order |-> orderNumber,
                          signature |-> Sign(groupKey, orderNumber, client_request[n])]
           S == Members(consensusGroup) \ Members(primaryGroup)
<1>1. /\ net[q][n] # <<>> /\ m.type = "MsgPrimaryVerified" /\ Node(n, q)
      /\ UNCHANGED <<randomValue, prepared_messages, trust, replies>>
  BY DEF primary_verified_handler, Arrives, Node, clientVars
<1>2. \/ /\ accepted
         /\ verified_message' = [verified_message EXCEPT ![n] = NoAnswer]
         /\ Handle(n, q, To(S, preprepare))
         /\ UNCHANGED <<nodeVars, groupKey, groupVars, aborted>>
      \/ /\ accepted => n \notin Members(primaryGroup)
         /\ ~rejected
         /\ verified_message' = [verified_message EXCEPT ![n] = answers]
         /\ Handle(n, q, Nothing)
         /\ UNCHANGED <<nodeVars, groupKey, groupVars, aborted>>
      \/ /\ rejected
         /\ verified_message' = [verified_message EXCEPT ![n] = answers]
         /\ CloseRound(n, q)
  BY DEF primary_verified_handler
<1>3. m = Head(net[q][n]) /\ answers = [verified_message[n] EXCEPT ![m.verified] = @ + 1]
  OBVIOUS
<1>4. /\ n = Lead /\ Asking > 0 /\ Asking <= PrimarySize - 1
      /\ m.verified \in BOOLEAN
      /\ Len(primaryGroup) = PrimarySize /\ n \in Members(primaryGroup)
  BY <1>1, AnswerArrives
<1>5. TypeOK /\ Numbers
  BY InNumbers DEF Ground
<1>6. PrimarySize - 1 \in Nat /\ PrimarySize - 1 >= 1
  BY <1>4, <1>5, Sizes DEF Numbers
<1>7. answers[TRUE] \in Nat /\ answers[FALSE] \in Nat /\ Answers(answers) = answers[TRUE] + answers[FALSE]
  <2>1. verified_message[n] \in [BOOLEAN -> Nat]
    BY <1>5 DEF TypeOK
  <2>2. answers[TRUE] \in Nat /\ answers[FALSE] \in Nat
    BY <1>4, <2>1, OneMore
  <2> QED BY <2>2, Zenon DEF Answers
<1>8. judged \in BOOLEAN /\ (judged <=> answers[TRUE] + answers[FALSE] = PrimarySize - 1)
  BY <1>4, <1>7 DEF AllAnswered
<1> HIDE DEF answers, judged
<1>9. /\ accepted => judged
      /\ rejected => judged
      /\ ~accepted /\ ~rejected => ~judged
  <2>1. CASE judged
    <3>1. verifyTrue = answers[TRUE] /\ verifyFalse = answers[FALSE]
      BY <2>1
    <3> HIDE DEF verifyTrue, verifyFalse
    <3>2. answers[TRUE] + answers[FALSE] = PrimarySize - 1
      BY <1>8, <2>1
    <3>3. \/ verifyTrue >= verifyFalse /\ verifyTrue # 0
          \/ verifyFalse = PrimarySize - 1 \/ verifyFalse > verifyTrue
      BY <1>6, <1>7, <3>1, <3>2, Verdict
    <3> QED BY <1>4, <2>1, <3>3
  <2>2. CASE ~judged
    <3>1. verifyTrue = 0 /\ verifyFalse = 0
      BY <2>2
    <3> HIDE DEF verifyTrue, verifyFalse
    <3>2. ~(verifyFalse = PrimarySize - 1 \/ verifyFalse > verifyTrue) /\ ~(verifyTrue # 0)
      BY <1>6, <3>1
    <3> QED BY <1>4, <2>2, <3>2
  <2> QED BY <2>1, <2>2
<1> HIDE DEF accepted, rejected, m, S
<1>10. CASE /\ accepted
            /\ verified_message' = [verified_message EXCEPT ![n] = NoAnswer]
            /\ Handle(n, q, To(S, preprepare))
            /\ UNCHANGED <<nodeVars, groupKey, groupVars, aborted>>
  <2>1. preprepare \in NodeMessage
    <3>1. /\ orderNumber \in Nat /\ client_request[n] \in Texts /\ groupKey \in Nat
      BY <1>5 DEF TypeOK
    <3> QED BY <3>1 DEF NodeMessage, GroupSignature, Sign
  <2>2. preprepare.type = "MsgPreprepare" /\ preprepare.signature.key = groupKey
    BY DEF Sign
  <2> HIDE DEF preprepare
  <2>3. AllAnswered(answers)
    BY <1>9, <1>10 DEF judged
  <2>4. Handle(n, q, To(Members(consensusGroup) \ Members(primaryGroup), preprepare))
    BY <1>10 DEF S
  <2>5. UNCHANGED <<busy, groupVars, randomValue, groupKey, trust, prepared_messages, replies>>
    BY <1>1, <1>10 DEF nodeVars
  <2>6. verified_message' = [verified_message EXCEPT ![n] = NoAnswer]
    BY <1>10
  <2> QED BY <1>1, <1>3, <2>1, <2>2, <2>3, <2>4, <2>5, <2>6, AcceptKeeps
<1>11. CASE /\ accepted => n \notin Members(primaryGroup)
            /\ ~rejected
            /\ verified_message' = [verified_message EXCEPT ![n] = answers]
            /\ Handle(n, q, Nothing)
            /\ UNCHANGED <<nodeVars, groupKey, groupVars, aborted>>
  <2>1. ~AllAnswered(answers)
    BY <1>4, <1>9, <1>11 DEF judged
  <2>2. UNCHANGED <<busy, groupVars, randomValue, groupKey, trust, prepared_messages, replies>>
    BY <1>1, <1>11 DEF nodeVars
  <2> QED BY <1>1, <1>3, <1>11, <2>1, <2>2, WaitKeeps
<1>12. CASE /\ rejected
            /\ verified_message' = [verified_message EXCEPT ![n] = answers]
            /\ CloseRound(n, q)
  <2>1. AllAnswered(answers)
    BY <1>9, <1>12 DEF judged
  <2>2. answers = [verified_message[n] EXCEPT ![Head(net[q][n]).verified] = @ + 1]
    BY <1>3 DEF m
  <2> QED BY <1>12, <2>1, <2>2, RejectKeeps
<1> QED BY <1>2, <1>10, <1>11, <1>12 DEF S

\* Any message that arrives at a node, if the process survives it.
LEMMA NodeLives ==
  ASSUME OneQuorum, Ground, Ground', Live, Rewarded, ~aborted, ~aborted',
         NEW n \in Nodes, NEW q \in Peers, Node(n, q), Calm(net) \/ Closing(q, n)
  PROVE  Live' /\ Rewarded'
<1>1. CASE group_request_handler(n, q)
  BY <1>1, GroupStarts
<1>2. CASE primary_consensus_handler(n, q)
  BY <1>2, AnswerKeeps
<1>3. CASE primary_verified_handler(n, q)
  BY <1>3, VerifiedKeeps
<1>4. CASE preprepare_handler(n, q)
  BY <1>4, PreprepareKeeps
<1>5. CASE prepare_handler(n, q)
  <2> DEFINE m == Head(net[q][n])
             prepared == Prepared(n, q, m)
  <2>1. \/ /\ QuorumReached(prepared)
           /\ prepared_messages' = 0
           /\ trust' = updateTrust(VerifySignature(m.order, client_request[n], m.peerSign, q))
           /\ Handle(n, q, Then(To(Members(consensusGroup) \ {n},
                                   [type |-> "MsgSend", sendReply |-> TRUE, order |-> m.order]),
                                Reply(n, m.order, TRUE)))
           /\ UNCHANGED <<nodeVars, groupKey, groupVars>>
        \/ /\ prepared_messages' = prepared
           /\ Handle(n, q, Nothing)
           /\ UNCHANGED <<nodeVars, groupKey, groupVars, trust>>
        \/ /\ ~QuorumReached(prepared)
           /\ prepared = MaxPrepared
           /\ prepared_messages' = 0
           /\ trust' = trust
           /\ CloseRound(n, q)
    BY <1>5 DEF prepare_handler, clearPreparedMessages
  <2>2. verified_message' = verified_message /\ m = Head(net[q][n])
    BY <1>5 DEF prepare_handler
  <2> HIDE DEF m
  <2>3. CASE /\ QuorumReached(prepared)
             /\ prepared_messages' = 0
             /\ trust' = updateTrust(VerifySignature(m.order, client_request[n], m.peerSign, q))
             /\ Handle(n, q, Then(To(Members(consensusGroup) \ {n},
                                     [type |-> "MsgSend", sendReply |-> TRUE, order |-> m.order]),
                                  Reply(n, m.order, TRUE)))
             /\ UNCHANGED <<nodeVars, groupKey, groupVars>>
    BY <1>5, <2>2, <2>3, QuorumKeeps
  <2>4. CASE /\ prepared_messages' = prepared
             /\ Handle(n, q, Nothing)
             /\ UNCHANGED <<nodeVars, groupKey, groupVars, trust>>
    BY <1>5, <2>2, <2>4, PrepareKeeps
  <2>5. CASE /\ ~QuorumReached(prepared)
             /\ prepared = MaxPrepared
             /\ prepared_messages' = 0
             /\ trust' = trust
             /\ CloseRound(n, q)
    BY <1>5, <2>2, <2>5, DropKeeps
  <2> QED BY <2>1, <2>3, <2>4, <2>5
<1>6. CASE send_reply_handler(n, q)
  BY <1>6, SendKeeps
<1>7. CASE ack_handler(n, q)
  BY <1>7, AckKeeps
<1>8. CASE process_next_request(n, q)
  <2>1. requestQueue[n] # <<>>
    BY <1>8 DEF process_next_request
  <2> QED BY <1>8, <2>1, NextKeeps
<1> QED BY <1>1, <1>2, <1>3, <1>4, <1>5, <1>6, <1>7, <1>8 DEF Node

----------------------------------------------------------------------------
(* The process aborts.                                                     *)

\* A node with an empty queue and a request left has it on its way.
LEMMA LeftOnItsWay ==
  ASSUME Ground, NEW n \in Nodes, requestQueue[n] = <<>>,
         Left(requestQueue, net, n) >= 1 - Told(net)[n]
  PROVE  InFlight(n, "MsgGroup") # {}
<1> DEFINE g == Cardinality(Coming(net, n, "MsgGroup"))
           c == Cardinality(Coming(net, n, "MsgNextRequest"))
<1>1. Counted /\ TypeOK /\ n \in Peers
  BY DEF Ground, Balanced, Peers
<1>2. g \in Nat /\ c \in Nat
  BY <1>1, FS_CardinalityType DEF Counted
<1>3. Told(net)[n] = c
  BY DEF Told
<1>4. Left(requestQueue, net, n) = 0 + g - c
  BY DEF Left
<1>5. g = Cardinality(InFlight(n, "MsgGroup")) /\ IsFiniteSet(InFlight(n, "MsgGroup"))
  BY <1>1, ComingInFlight DEF Counted, TypeOK
<1>6. Left(requestQueue, net, n) >= 1 - c
  BY <1>3
<1> HIDE DEF g, c
<1>7. g >= 1
  BY <1>2, <1>4, <1>6
<1> QED BY <1>5, <1>7, FS_EmptySet

\* What an aborting step finds, and leaves.
Dies(n) ==
    /\ requestQueue[n] = <<>> /\ UNCHANGED <<requestQueue, net, trust>>
    /\ Left(requestQueue, net, n) >= 1 - Told(net)[n]
    /\ \/ groupKey' = groupKey /\ prepared_messages' = prepared_messages
       \/ groupKey' = groupKey + 1 /\ prepared_messages' = 0

\* A close that aborts does so on an empty queue, before the request arrives.
LEMMA CloseDies ==
  ASSUME Ground, ~aborted, aborted', Calm(net), busy[Lead], NEW n \in Nodes, NEW q \in Peers,
         CloseRound(n, q), trust' = trust, prepared_messages' = 0
  PROVE  Dies(n)
<1>1. requestQueue[n] = <<>> /\ groupKey' = groupKey + 1 /\ UNCHANGED <<requestQueue, net>>
  BY DEF CloseRound, changeGroupKey, nodeVars
<1>2. Lead \in Nodes /\ Told(net)[n] = 0
  BY InNumbers DEF Numbers, Calm
<1>3. requestQueue[Lead] # <<>>
  BY <1>2 DEF Ground, WorksOnFront
<1>4. Left(requestQueue, net, n) >= 1
  BY <1>2, <1>3, LeftBehind
<1> QED BY <1>1, <1>2, <1>4 DEF Dies

\* Whatever step of a node aborts, it is that.
LEMMA NodeDies ==
  ASSUME OneQuorum, Ground, Live, ~aborted, aborted', NEW n \in Nodes, NEW q \in Peers, Node(n, q)
  PROVE  Dies(n)
<1> DEFINE m == Head(net[q][n])
<1>1. \/ primary_verified_handler(n, q) \/ prepare_handler(n, q) \/ ack_handler(n, q)
      \/ process_next_request(n, q)
  BY DEF Node, group_request_handler, primary_consensus_handler, preprepare_handler,
         send_reply_handler
<1>2. CASE primary_verified_handler(n, q)
  <2>1. net[q][n] # <<>> /\ m.type = "MsgPrimaryVerified"
        /\ CloseRound(n, q) /\ UNCHANGED <<trust, prepared_messages>>
    BY <1>2 DEF primary_verified_handler, Arrives
  <2>2. Calm(net) /\ busy[Lead] /\ Weight = 0
    BY <2>1, AnswerArrives
  <2>3. prepared_messages = 0
    <3> DEFINE d == (ConsensusSize - 1) * Count(net, PrepreparesOf(groupKey))
               x == Count(net, PreparesOf(groupKey))
    <3>0. Count(net, PrepreparesOf(groupKey)) \in Nat /\ x \in Nat /\ prepared_messages \in Nat
      BY InNumbers DEF Numbers
    <3>1. d \in Nat
      BY <3>0, Sizes, Multiply
    <3>2. (prepared_messages + x) + d = 0
      BY <2>2 DEF Weight
    <3> HIDE DEF d, x
    <3> QED BY <3>0, <3>1, <3>2, ZeroSum
  <2> QED BY <2>1, <2>2, <2>3, CloseDies
<1>3. CASE prepare_handler(n, q)
  <2>1. /\ net[q][n] # <<>> /\ m.type = "MsgPrepare"
        /\ ~QuorumReached(Prepared(n, q, m)) /\ Prepared(n, q, m) = MaxPrepared
        /\ CloseRound(n, q) /\ trust' = trust /\ prepared_messages' = 0
    BY <1>3 DEF prepare_handler, Arrives, clearPreparedMessages
  <2>2. Engaged
    BY <2>1, DropKnown
  <2> QED BY <2>1, <2>2, CloseDies DEF Engaged
<1>4. CASE ack_handler(n, q)
  <2>1. CloseRound(n, q) /\ trust' = trust /\ prepared_messages' = 0
    BY <1>4 DEF ack_handler, clearPreparedMessages
  <2>2. Engaged
    BY <1>4, AckKnown
  <2> QED BY <2>1, <2>2, CloseDies DEF Engaged
<1>5. CASE process_next_request(n, q)
  <2>1. /\ requestQueue[n] = <<>> /\ UNCHANGED <<requestQueue, net, trust, groupKey, prepared_messages>>
        /\ net[q][n] # <<>> /\ m.type = "MsgNextRequest"
    BY <1>5 DEF process_next_request, nodeVars, Arrives
  <2>2. Told(net)[n] \in Nat /\ Told(net)[n] # 0
    <3>1. TypeOK /\ Counted
      BY DEF Ground, Balanced
    <3>2. \E p \in Peers : Closing(p, n)
      <4>1. net[q][n] \in Seq(AnyMessage)
        BY <3>1, ChannelsTyped DEF OnlyMessages, Peers
      <4>2. 1 \in DOMAIN net[q][n] /\ net[q][n][1].type = "MsgNextRequest"
        BY <2>1, <4>1
      <4> QED BY <4>2 DEF Closing
    <3> QED BY <3>1, <3>2, ClosingTold
  <2>3. Left(requestQueue, net, n) \in Int /\ Left(requestQueue, net, n) >= 0
    BY LeftTypes DEF LeftNumbers, Live, NoneOwed
  <2>4. Left(requestQueue, net, n) >= 1 - Told(net)[n]
    BY <2>2, <2>3
  <2> QED BY <2>1, <2>4 DEF Dies
<1> QED BY <1>1, <1>2, <1>3, <1>4, <1>5

\* The prepares that count are those of one round, and as long as they can make
\* a quorum no result of another round is on its way.
Useful == prepared_messages + Count(net, PreparesOf(groupKey))

OneRound == Useful <= MaxPrepared /\ (Useful >= PrepareQuorum => Count(net, Results) = 0)

\* The invariant of a phase bounds the prepares of the round: a round that is
\* answered has too few of them left for a quorum, and before it is answered
\* there are no results.
LEMMA LiveOneRound == ASSUME OneQuorum PROVE Ground /\ Live => OneRound
<1> SUFFICES ASSUME Ground, Live PROVE OneRound
  OBVIOUS
<1> DEFINE d == (ConsensusSize - 1) * Count(net, PrepreparesOf(groupKey))
           x == Count(net, PreparesOf(groupKey))
           r == Count(net, Results)
           c == replies[client][TRUE]
           e == ConsensusSize * Count(net, Acks)
<1>1. d \in Nat /\ x \in Nat /\ prepared_messages \in Nat
  BY InNumbers, Sizes, Multiply DEF Numbers
<1>2. Weight = (prepared_messages + x) + d
  BY DEF Weight
<1>3. /\ Weight \in Nat /\ MaxPrepared \in Nat /\ PrepareQuorum \in Nat /\ PrepareQuorum >= 1
      /\ Replied \in Nat /\ MaxPrepared < 2 * PrepareQuorum
  BY InNumbers, Sizes DEF Numbers, OneQuorum
<1>4. Weight <= MaxPrepared /\ (Weight >= PrepareQuorum => Replied = 0)
  <2>1. PhaseOf(Engaged, Weight, Replied, trust.Sat, groupKey)
    BY DEF Live, Phase
  <2> HIDE DEF MaxPrepared
  <2> QED BY <1>3, <2>1 DEF PhaseOf
<1>5. r \in Nat /\ c \in Nat /\ e \in Nat
  <2>1. Count(net, Acks) \in Nat /\ r \in Nat /\ c \in Nat
    BY InNumbers DEF Numbers
  <2>2. e \in Nat
    BY <2>1, Sizes, Multiply
  <2> QED BY <2>1, <2>2
<1>6. Replied = (r + c) + e
  BY DEF Replied
<1>7. Replied = 0 => r = 0
  <2> HIDE DEF r, c, e
  <2> QED BY <1>5, <1>6
<1> HIDE DEF d, r
<1>8. prepared_messages + x <= Weight
  <2> HIDE DEF x
  <2> QED BY <1>1, <1>2
<1>9. Useful = prepared_messages + x /\ Useful \in Nat
  <2>1. Useful = prepared_messages + x
    BY DEF Useful
  <2> HIDE DEF x
  <2> QED BY <1>1, <2>1
<1>10. Useful <= MaxPrepared /\ (Useful >= PrepareQuorum => r = 0)
  <2> HIDE DEF x, MaxPrepared
  <2> QED BY <1>3, <1>4, <1>7, <1>8, <1>9
<1> QED BY <1>10 DEF OneRound, r

\* The same after a step.
LEMMA LiveOneRoundNext == ASSUME OneQuorum PROVE Ground' /\ Live' => OneRound'
BY LiveOneRound, PTL

\* A process that dies has been overtaken by a close.
LEMMA DiesOvertaken ==
  ASSUME OneQuorum, Ground, Live, Rewarded, NEW n \in Nodes, Dies(n)
  PROVE  AbortNeedsOvertaking' /\ Rewarded' /\ OneRound'
<1>1. AbortNeedsOvertaking'
  <2>1. InFlight(n, "MsgGroup") # {}
    BY LeftOnItsWay DEF Dies
  <2>2. InFlight(n, "MsgGroup")' = InFlight(n, "MsgGroup")
    BY DEF InFlight, Dies
  <2>3. requestQueue'[n] = <<>>
    BY DEF Dies
  <2> QED BY <2>1, <2>2, <2>3 DEF AbortNeedsOvertaking
<1>2. trust.Sat \in Nat /\ groupKey \in Nat
  BY InNumbers DEF Numbers
<1>3. Rewarded'
  <2>1. trust' = trust /\ (groupKey' = groupKey \/ groupKey' = groupKey + 1)
    BY DEF Dies
  <2> QED BY <1>2, <2>1 DEF Rewarded
<1>4. OneRound'
  <2>1. CASE groupKey' = groupKey /\ prepared_messages' = prepared_messages
    <3>1. OneRound /\ net' = net
      BY LiveOneRound DEF Dies
    <3> QED BY <2>1, <3>1 DEF OneRound, Useful
  <2>2. CASE groupKey' = groupKey + 1 /\ prepared_messages' = 0
    <3>1. Count(net', PreparesOf(groupKey')) = 0
      BY <2>2, NextKey DEF Dies
    <3>2. Useful' = 0
      BY <2>2, <3>1 DEF Useful
    <3> QED BY <3>2, Sizes DEF OneRound
  <2> QED BY <2>1, <2>2 DEF Dies
<1> QED BY <1>1, <1>3, <1>4

----------------------------------------------------------------------------
(* The invariant of a network in lock step.                                *)

LockInv == Rewarded /\ AbortNeedsOvertaking /\ OneRound /\ (~aborted => Live)

\* At first nothing is on its way and nothing is owed.
LEMMA NothingAtFirst ==
  ASSUME Init
  PROVE  /\ \A W : Count(net, W) = 0
         /\ Calm(net)
         /\ \A n \in Nodes : Left(requestQueue, net, n) = 0
<1>1. \A p, q \in Peers : net[p][q] = <<>>
  BY DEF Init
<1>2. IsFiniteSet({}) /\ Cardinality({}) = 0
  BY FS_EmptySet
<1>3. ASSUME NEW R, NEW W PROVE Spots(net, R, W) = {}
  BY <1>1 DEF Spots, At
<1>4. ASSUME NEW k \in Nodes, NEW type PROVE Cardinality(Coming(net, k, type)) = 0
  BY <1>2, <1>3 DEF Coming
<1>5. \A k \in Nodes : Len(requestQueue[k]) = 0
  BY DEF Init
<1>6. ASSUME NEW W PROVE Count(net, W) = 0
  BY <1>2, <1>3 DEF Count
<1>7. Calm(net)
  BY <1>4 DEF Calm, Told
<1>8. ASSUME NEW k \in Nodes PROVE Left(requestQueue, net, k) = 0
  BY <1>4, <1>5 DEF Left
<1> QED BY <1>6, <1>7, <1>8

\* The invariant holds at first,
LEMMA LockInit == ASSUME OneQuorum, Init, Ground PROVE LockInv
<1>1. /\ \A W : Count(net, W) = 0
      /\ Calm(net)
      /\ \A n \in Nodes : Left(requestQueue, net, n) = 0
  BY NothingAtFirst
<1>2. /\ prepared_messages = 0 /\ groupKey = 1 /\ trust.Sat = 0 /\ ~aborted
      /\ replies[client][TRUE] = 0
      /\ \A n \in Nodes : verified_message[n] = NoAnswer
  BY ClientAssumption DEF Init, NoAnswer
<1>3. Asking = 0
  BY <1>1 DEF Asking
<1>4. (ConsensusSize - 1) * 0 = 0 /\ ConsensusSize * 0 = 0
  BY Sizes
<1>5. Weight = 0 /\ Replied = 0
  BY <1>1, <1>2, <1>4 DEF Weight, Replied
<1>6. Phase
  BY <1>2, <1>5 DEF Phase, PhaseOf
<1>7. Asks
  BY <1>3 DEF Asks, AsksOf
<1>8. Tallies
  <2>1. Answers(NoAnswer) = 0
    BY DEF Answers, NoAnswer
  <2> QED BY <1>2, <2>1 DEF Tallies, TallyOf
<1>9. Routes /\ Ordered
  <2>1. ASSUME NEW p \in Peers, NEW q \in Peers
        PROVE  Members(net[p][q]) = {} /\ InOrder(net[p][q])
    <3>1. net[p][q] = <<>>
      BY DEF Init
    <3> QED BY <3>1 DEF Members, InOrder, At
  <2> QED BY <2>1 DEF Routes, Ordered
<1>10. ToldOnce /\ NoneOwed
  BY <1>1 DEF ToldOnce, Calm, NoneOwed
<1>11. Live
  BY <1>6, <1>7, <1>8, <1>9, <1>10 DEF Live
<1>12. Rewarded /\ AbortNeedsOvertaking /\ OneRound
  <2>1. OneRound
    BY <1>11, LiveOneRound
  <2> QED BY <1>2, <2>1 DEF Rewarded, AbortNeedsOvertaking
<1> QED BY <1>11, <1>12 DEF LockInv

\* While the process lives the rest follows from Live.
LEMMA LiveLocks ==
  ASSUME OneQuorum, Ground', Live', Rewarded', ~aborted' PROVE LockInv'
<1>1. OneRound'
  BY LiveOneRoundNext
<1> QED BY <1>1 DEF LockInv, AbortNeedsOvertaking

\* it survives stuttering
LEMMA LockStutter == ASSUME LockInv, UNCHANGED vars PROVE LockInv'
<1> USE DEF vars, nodeVars, groupVars, clientVars
<1>1. Live => Live'
  BY DEF Live, Phase, Engaged, Weight, Replied, Asking, Asks, Tallies, Routes, Routed, Lead, Ordered,
         ToldOnce, NoneOwed, Left, Calm, Told, Coming, Count
<1>2. Rewarded' /\ OneRound'
  BY DEF LockInv, Rewarded, OneRound, Useful, Count
<1>3. AbortNeedsOvertaking'
  BY DEF LockInv, AbortNeedsOvertaking, InFlight
<1> QED BY <1>1, <1>2, <1>3 DEF LockInv

\* and every step of a network in lock step.
LEMMA LockNext ==
  ASSUME OneQuorum, Ground, Ground', LockInv, [Next /\ ClosesFirst]_vars PROVE LockInv'
<1>1. CASE UNCHANGED vars
  BY <1>1, LockStutter
<1>2. CASE Next /\ ClosesFirst
  <2>1. ~aborted /\ Live /\ Rewarded /\ TypeOK /\ Counted
    BY <1>2 DEF Next, LockInv, Ground, Balanced
  <2>2. ASSUME NEW n \in Nodes, NEW q \in Peers, Node(n, q), Calm(net) \/ Closing(q, n)
        PROVE  LockInv'
    <3>1. CASE ~aborted'
      BY <2>1, <2>2, <3>1, NodeLives, LiveLocks
    <3>2. CASE aborted'
      <4>1. Dies(n)
        BY <2>1, <2>2, <3>2, NodeDies
      <4> QED BY <2>1, <3>2, <4>1, DiesOvertaken DEF LockInv
    <3> QED BY <3>1, <3>2
  <2>3. ASSUME NEW t \in Threads, multicast(t) PROVE LockInv'
    <3>1. ~aborted'
      BY <2>1, <2>3 DEF multicast
    <3> QED BY <2>1, <2>3, <3>1, MulticastKeeps, LiveLocks
  <2>4. ASSUME NEW c \in Clients, NEW q \in Nodes, reply_handler(c, q) PROVE LockInv'
    <3>1. ~aborted'
      BY <2>1, <2>4 DEF reply_handler
    <3> QED BY <2>1, <2>4, <3>1, ReplyKeeps, LiveLocks
  <2>5. Nodes \subseteq Peers
    BY DEF Peers
  <2>6. CASE Calm(net)
    BY <1>2, <2>2, <2>3, <2>4, <2>6 DEF Next
  <2>7. CASE \E n \in Nodes, q \in Nodes : Closing(q, n) /\ Node(n, q)
    BY <2>2, <2>5, <2>7
  <2> QED BY <1>2, <2>1, <2>6, <2>7, CalmOrClosing
<1> QED BY <1>1, <1>2

\* Lock step restricts the steps of the specification, so what holds of it
\* on any network holds here.
LEMMA LockIsSpec == LockStepSpec => Spec
<1>1. [Next /\ ClosesFirst]_vars => [Next]_vars
  OBVIOUS
<1> QED BY <1>1, PTL DEF LockStepSpec, Spec

\* The invariant of a network in lock step.
LEMMA LockHolds == ASSUME OneQuorum PROVE LockStepSpec => [](Ground /\ LockInv)
<1>1. Init /\ Ground => LockInv
  BY LockInit
<1>2. Ground /\ Ground' /\ LockInv /\ [Next /\ ClosesFirst]_vars => LockInv'
  BY LockNext
<1> QED BY <1>1, <1>2, LockIsSpec, SpecGround, PTL DEF LockStepSpec

\* With one client, sizes that leave room for one quorum of prepares, and a
\* network in lock step, no more rounds are closed than requests were sent,
\* whatever the number of nodes, the requests and the order of everything
\* else: the duplicate deliveries and the shared count of prepares never make
\* the nodes close a round twice.
THEOREM NoneOverclosed == ASSUME OneQuorum PROVE LockStepSpec => []NeverOverclosed
<1>1. Ground /\ LockInv => NeverOverclosed
  <2> SUFFICES ASSUME Ground, LockInv, ~aborted, NEW n \in Nodes PROVE Open(n) >= 0
    BY DEF NeverOverclosed
  <2>1. /\ net \in Channels(NodeMessage, ClientMessage) /\ n \in Peers
        /\ IsFiniteSet(Coming(net, n, "MsgGroup")) /\ IsFiniteSet(Coming(net, n, "MsgNextRequest"))
    BY DEF Ground, TypeOK, Peers, Balanced, Counted
  <2>2. Cardinality(InFlight(n, "MsgGroup")) = Cardinality(Coming(net, n, "MsgGroup"))
    BY <2>1, ComingInFlight
  <2>3. Cardinality(InFlight(n, "MsgNextRequest")) = Cardinality(Coming(net, n, "MsgNextRequest"))
    BY <2>1, ComingInFlight
  <2>4. Left(requestQueue, net, n) >= 0
    BY DEF LockInv, Live, NoneOwed
  <2> QED BY <2>2, <2>3, <2>4 DEF Open, Left
<1> QED BY <1>1, LockHolds, PTL

\* Under the same conditions pop_front on an empty list, which kills the
\* process, has only one cause: the close reaches a node before the request.
THEOREM AbortIsOvertaking == ASSUME OneQuorum PROVE LockStepSpec => []AbortNeedsOvertaking
<1>1. Ground /\ LockInv => AbortNeedsOvertaking
  BY DEF LockInv
<1> QED BY <1>1, LockHolds, PTL

\* The prepares that still can be counted are all on the channels.
LEMMA CountableCounted ==
  ASSUME Ground
  PROVE  Cardinality(Countable) \in Nat /\ Cardinality(Countable) <= Count(net, PreparesOf(groupKey))
<1> DEFINE Fits(m) == m.type = "MsgPrepare" /\ m.groupSign.key = groupKey
           S == Spots(net, All, PreparesOf(groupKey))
<1>1. ASSUME NEW p \in Nodes, NEW q \in Nodes, NEW i \in DOMAIN net[p][q], Fits(net[p][q][i])
      PROVE  <<p, q, i>> \in S
  <2>1. p \in Peers /\ q \in Peers /\ net \in Channels(NodeMessage, ClientMessage)
    BY DEF Peers, Ground, TypeOK
  <2>2. net[p][q] \in Seq(AnyMessage)
    BY <2>1 DEF Channels, AnyMessage
  <2>3. net[p][q][i] \in AnyMessage /\ i \in Nat
    BY <2>2
  <2>4. net[p][q][i] \in PreparesOf(groupKey)
    BY <1>1, <2>3, Kinds
  <2> QED BY <2>1, <2>3, <2>4 DEF Spots, All, At
<1>2. Countable \subseteq S
  <2> HIDE DEF S
  <2>1. SUFFICES ASSUME NEW x \in Countable PROVE x \in S
    OBVIOUS
  <2>2. PICK p \in Nodes, q \in Nodes :
           x \in {<<p, q, i>> : i \in {j \in DOMAIN net[p][q] : Fits(net[p][q][j])}}
    BY <2>1 DEF Countable
  <2>3. PICK i \in DOMAIN net[p][q] : x = <<p, q, i>> /\ Fits(net[p][q][i])
    BY <2>2
  <2> QED BY <1>1, <2>3
<1>3. IsFiniteSet(S) /\ Cardinality(S) = Count(net, PreparesOf(groupKey))
  BY Counts DEF Ground, Tidy, Count
<1> HIDE DEF S
<1>4. IsFiniteSet(Countable) /\ Cardinality(Countable) <= Cardinality(S)
  BY <1>2, <1>3, FS_Subset
<1> QED BY <1>3, <1>4, FS_CardinalityType

\* At any time the prepares counted and the ones on the wire that still can be
\* are no more than the members of the consensus group send in one round: what
\* prepare_handler counts is never of two rounds.
THEOREM PreparesFitOneRound == ASSUME OneQuorum PROVE LockStepSpec => []PreparesOfOneRound
<1>1. Ground /\ LockInv => PreparesOfOneRound
  <2> SUFFICES ASSUME Ground, LockInv PROVE prepared_messages + Cardinality(Countable) <= MaxPrepared
    BY DEF PreparesOfOneRound
  <2>1. /\ prepared_messages \in Nat /\ Count(net, PreparesOf(groupKey)) \in Nat
        /\ prepared_messages + Count(net, PreparesOf(groupKey)) <= MaxPrepared
    BY InNumbers DEF LockInv, OneRound, Useful, Numbers
  <2> QED BY <2>1, CountableCounted, Sizes
<1> QED BY <1>1, LockHolds, PTL

\* The answer to one round never clears prepares another round needs: while
\* the prepares counted and on the wire can make a quorum, no node has a
\* MsgSend still to read, for send_reply_handler clears them all.
THEOREM NoQuorumRobbed == ASSUME OneQuorum PROVE LockStepSpec => []NoLateSend
<1>1. Ground /\ LockInv => NoLateSend
  <2> SUFFICES ASSUME Ground, LockInv, prepared_messages + Cardinality(Countable) >= PrepareQuorum,
                      NEW n \in Nodes
               PROVE  InFlight(n, "MsgSend") = {}
    BY DEF NoLateSend
  <2>1. Count(net, Results) = 0
    <3>1. /\ prepared_messages \in Nat /\ Count(net, PreparesOf(groupKey)) \in Nat
          /\ prepared_messages + Count(net, PreparesOf(groupKey)) >= PrepareQuorum
              => Count(net, Results) = 0
      BY InNumbers DEF LockInv, OneRound, Useful, Numbers
    <3> QED BY <3>1, CountableCounted, Sizes
  <2>2. IsFiniteSet(Spots(net, All, Results))
    BY Counts DEF Ground, Tidy
  <2>3. ASSUME NEW q \in Peers, NEW j \in DOMAIN net[q][n], net[q][n][j].type = "MsgSend" PROVE FALSE
    <3>1. n \in Peers /\ net \in Channels(NodeMessage, ClientMessage)
      BY DEF Peers, Ground, TypeOK
    <3>2. net[q][n] \in Seq(AnyMessage)
      BY <3>1 DEF Channels, AnyMessage
    <3>3. net[q][n][j] \in Members(net[q][n]) /\ net[q][n][j] \in AnyMessage
      BY <3>2 DEF Members
    <3>4. net[q][n][j] \in Results
      BY <2>3, <3>3, Kinds
    <3> QED BY <2>1, <2>2, <3>1, <3>2, <3>3, <3>4, NoneCounted
  <2> QED BY <2>3 DEF InFlight
<1> QED BY <1>1, LockHolds, PTL

\* The prepares of one round make one quorum at most.
LEMMA OnePerQuorum ==
  ASSUME OneQuorum
  PROVE  /\ MaxPrepared < PrepareQuorum => MaxPrepared \div PrepareQuorum = 0
         /\ MaxPrepared >= PrepareQuorum => MaxPrepared \div PrepareQuorum = 1
<1>1. MaxPrepared \in Nat /\ PrepareQuorum \in Nat /\ PrepareQuorum >= 1 /\ MaxPrepared < 2 * PrepareQuorum
  BY Sizes DEF OneQuorum
<1>2. \A m, k \in Nat : k >= 1 /\ m < k => m \div k = 0
  OBVIOUS
<1>3. \A m, k \in Nat : k >= 1 /\ m >= k /\ m < 2 * k => m \div k = 1
  OBVIOUS
<1> HIDE DEF MaxPrepared
<1> QED BY <1>1, <1>2, <1>3

\* Over all rounds so far, prepare_handler has called updateTrust no more often
\* than the prepares of one round make quorums, once, for every round: the trust
\* map does not grow with messages that come late or twice.
THEOREM RewardedPerRound == ASSUME OneQuorum PROVE LockStepSpec => []RewardsPerRound
<1>1. Ground /\ LockInv => RewardsPerRound
  <2> SUFFICES ASSUME Ground, LockInv PROVE trust.Sat <= groupKey * (MaxPrepared \div PrepareQuorum)
    BY DEF RewardsPerRound
  <2>1. /\ trust.Sat \in Nat /\ groupKey \in Nat /\ trust.Sat <= groupKey
        /\ MaxPrepared < PrepareQuorum => trust.Sat = 0
    BY InNumbers DEF Numbers, LockInv, Rewarded
  <2>2. CASE MaxPrepared < PrepareQuorum
    <3>1. MaxPrepared \div PrepareQuorum = 0
      BY <2>2, OnePerQuorum
    <3> QED BY <2>1, <2>2, <3>1
  <2>3. CASE MaxPrepared >= PrepareQuorum
    <3>1. MaxPrepared \div PrepareQuorum = 1
      BY <2>3, OnePerQuorum
    <3> QED BY <2>1, <3>1
  <2> QED BY <2>2, <2>3, Sizes
<1> QED BY <1>1, LockHolds, PTL

----------------------------------------------------------------------------
(* The certificates on the wire.                                           *)

Certifies(m, s) ==
    \/ m.type = "MsgPreprepare" /\ m.signature = s
    \/ m.type = "MsgPrepare" /\ m.groupSign = s

\* Certificates are found on the channels.
Found ==
    \A s : s \in Certificates <=>
              \E p, q \in Peers : \E m \in Members(net[p][q]) : Certifies(m, s)

\* Where the certificates of the wire are found: in preprepares and prepares.
LEMMA FindCertificates == Found
<1>1. ASSUME NEW m PROVE m \in OnWire <=> \E p, q \in Peers : m \in Members(net[p][q])
  <2>1. OnWire = UNION {Members(net[p][q]) : p \in Peers, q \in Peers}
    BY DEF OnWire, Members
  <2>2. ASSUME m \in OnWire PROVE \E p, q \in Peers : m \in Members(net[p][q])
    BY <2>1, <2>2
  <2>3. ASSUME NEW p \in Peers, NEW q \in Peers, m \in Members(net[p][q]) PROVE m \in OnWire
    <3>1. Members(net[p][q]) \in {Members(net[a][b]) : a \in Peers, b \in Peers}
      OBVIOUS
    <3> QED BY <2>1, <2>3, <3>1
  <2> QED BY <2>2, <2>3
<1>2. ASSUME NEW s PROVE s \in Certificates <=> \E m \in OnWire : Certifies(m, s)
  BY DEF Certificates, Certifies
<1> QED BY <1>1, <1>2 DEF Found

\* The same after a step.
LEMMA FindCertificatesNext == Found'
BY FindCertificates, PTL

\* A question of a lead, or an answer to one, is on its way.
Question(m) == m.type \in {"MsgPrimaryConsensus", "MsgPrimaryVerified"}
Questioned == \E p, q \in Peers : \E m \in Members(net[p][q]) : Question(m)

CertInv ==
    /\ \A s \in Certificates : /\ s \in GroupSignature /\ s.text \in Requests
                               /\ s.order <= orderNumber
                               /\ Questioned => s.order < orderNumber
    /\ OneCertificatePerRound

\* What n may send when it takes m: a question with a new order number, an
\* answer to a question, the certificate of the lead, or one it has read.
Fresh(n, m, k) ==
    /\ k.type = "MsgPrimaryConsensus" => orderNumber' = orderNumber + 1
    /\ k.type = "MsgPrimaryVerified" => m.type = "MsgPrimaryConsensus"
    /\ k.type = "MsgPreprepare" =>
          /\ m.type = "MsgPrimaryVerified" /\ UNCHANGED <<orderNumber, groupKey, aborted>>
          /\ k.signature = Sign(groupKey, orderNumber, client_request[n])
    /\ k.type = "MsgPrepare" => m.type = "MsgPreprepare" /\ k.groupSign = m.signature

FreshOut(n, m, out) ==
    /\ out \in [Peers -> Seq(AnyMessage)]
    /\ \A b \in Peers : \A k \in Members(out[b]) : Fresh(n, m, k)

\* How what is sent can be of certificates: nothing is, a message is by itself,
\* and one batch after another if both are.
LEMMA FreshSends ==
  ASSUME NEW n, NEW m
  PROVE  /\ FreshOut(n, m, Nothing)
         /\ \A S : \A k \in AnyMessage : Fresh(n, m, k) => FreshOut(n, m, To(S, k))
         /\ \A f, g : FreshOut(n, m, f) /\ FreshOut(n, m, g) => FreshOut(n, m, Then(f, g))
<1>1. FreshOut(n, m, Nothing)
  <2>1. Nothing \in [Peers -> Seq(AnyMessage)] /\ \A b \in Peers : Members(Nothing[b]) = {}
    BY NothingSent, ToMembers
  <2> QED BY <2>1 DEF FreshOut
<1>2. ASSUME NEW S, NEW k \in AnyMessage, Fresh(n, m, k)
      PROVE  FreshOut(n, m, To(S, k))
  <2>1. To(S, k) \in [Peers -> Seq(AnyMessage)] /\ \A b \in Peers : Members(To(S, k)[b]) \subseteq {k}
    BY ToSent, ToMembers
  <2> QED BY <1>2, <2>1 DEF FreshOut
<1>3. ASSUME NEW f, NEW g, FreshOut(n, m, f), FreshOut(n, m, g) PROVE FreshOut(n, m, Then(f, g))
  <2>1. f \in [Peers -> Seq(AnyMessage)] /\ g \in [Peers -> Seq(AnyMessage)]
    BY <1>3 DEF FreshOut
  <2>2. Then(f, g) \in [Peers -> Seq(AnyMessage)]
    BY <2>1, ThenSent
  <2>3. ASSUME NEW b \in Peers, NEW k \in Members(Then(f, g)[b])
        PROVE  k \in Members(f[b]) \cup Members(g[b])
    <3>1. Then(f, g)[b] = f[b] \o g[b] /\ f[b] \in Seq(AnyMessage) /\ g[b] \in Seq(AnyMessage)
      BY <2>1 DEF Then
    <3> QED BY <2>3, <3>1, SeqMembers
  <2> QED BY <1>3, <2>2, <2>3 DEF FreshOut
<1> QED BY <1>1, <1>2, <1>3

\* The lead's question has a new order number.
LEMMA FreshProposal ==
  ASSUME TypeOK, NEW n \in Nodes, NEW m, NEW rest \in Seq(Entry),
         orderNumber' = IF rest # <<>> /\ primaryGroup'[randomValue'] = n
                        THEN orderNumber + 1 ELSE orderNumber
  PROVE  /\ FreshOut(n, m, Proposal(n, rest))
         /\ FreshOut(n, m, Then(NextRequest(n), Proposal(n, rest)))
<1>1. FreshOut(n, m, NextRequest(n))
  <2> DEFINE k == [type |-> "MsgNextRequest"]
  <2>1. k \in AnyMessage /\ k.type = "MsgNextRequest"
    BY DEF AnyMessage, NodeMessage
  <2>2. NextRequest(n) = To(Nodes \ {n}, k)
    BY DEF NextRequest
  <2> HIDE DEF k
  <2>3. Fresh(n, m, k)
    BY <2>1 DEF Fresh
  <2> QED BY <2>1, <2>2, <2>3, FreshSends
<1>2. FreshOut(n, m, Proposal(n, rest))
  <2>1. CASE rest # <<>> /\ primaryGroup'[randomValue'] = n
    <3> DEFINE k == [type |-> "MsgPrimaryConsensus", order |-> orderNumber + 1,
                     signature |-> Sign(n, orderNumber + 1, Head(rest).message)]
    <3>1. orderNumber + 1 \in Nat /\ Head(rest) \in Entry
      BY <2>1 DEF TypeOK
    <3>2. Sign(n, orderNumber + 1, Head(rest).message) \in PeerSignature
      BY <3>1, PeerSigned DEF Entry, Texts
    <3>3. k \in AnyMessage /\ k.type = "MsgPrimaryConsensus"
      BY <3>1, <3>2 DEF AnyMessage, NodeMessage
    <3>4. Proposal(n, rest) = To(Members(primaryGroup') \ {n}, k)
      BY <2>1 DEF Proposal
    <3> HIDE DEF k
    <3>5. Fresh(n, m, k)
      BY <2>1, <3>3 DEF Fresh
    <3> QED BY <3>3, <3>4, <3>5, FreshSends
  <2>2. CASE ~(rest # <<>> /\ primaryGroup'[randomValue'] = n)
    BY <2>2, FreshSends DEF Proposal
  <2> QED BY <2>1, <2>2
<1> QED BY <1>1, <1>2, FreshSends

\* A node that takes a message leaves everything, or sends something fresh.
Signs(n, q) ==
    \/ UNCHANGED <<net, orderNumber>>
    \/ /\ net[q][n] # <<>> /\ orderNumber' \in {orderNumber, orderNumber + 1}
       /\ \E out : FreshOut(n, Head(net[q][n]), out) /\ Handle(n, q, out)

\* A close brings no certificate onto the wire that was not there,
LEMMA CloseSigns ==
  ASSUME Ground, NEW n \in Nodes, NEW q \in Peers, net[q][n] # <<>>, CloseRound(n, q)
  PROVE  Signs(n, q)
<1>1. CASE UNCHANGED <<net, orderNumber>>
  BY <1>1 DEF Signs
<1>2. CASE /\ requestQueue[n] # <<>> /\ Process(n, Tail(requestQueue[n]), Empty)
           /\ Handle(n, q, Then(NextRequest(n), Proposal(n, Tail(requestQueue[n]))))
  <2> DEFINE rest == Tail(requestQueue[n])
  <2>1. rest \in Seq(Entry) /\ TypeOK
    BY <1>2 DEF Ground, TypeOK
  <2>2. orderNumber' = IF rest # <<>> /\ primaryGroup'[randomValue'] = n
                       THEN orderNumber + 1 ELSE orderNumber
    BY <1>2 DEF Process
  <2>3. FreshOut(n, Head(net[q][n]), Then(NextRequest(n), Proposal(n, rest)))
    BY <2>1, <2>2, FreshProposal
  <2>4. orderNumber' \in {orderNumber, orderNumber + 1}
    BY <2>2
  <2> QED BY <1>2, <2>3, <2>4 DEF Signs
<1> QED BY <1>1, <1>2 DEF CloseRound, nodeVars

\* nor does any other step of a node, but for the lead that signs the front
\* of its line with its key.
LEMMA NodeSigns ==
  ASSUME Ground, NEW n \in Nodes, NEW q \in Peers, Node(n, q)
  PROVE  Signs(n, q)
<1> DEFINE m == Head(net[q][n])
<1>1. net[q][n] # <<>>
  BY DEF Node, group_request_handler, primary_consensus_handler, primary_verified_handler,
     preprepare_handler, prepare_handler, send_reply_handler, ack_handler,
     process_next_request, Arrives
<1>2. /\ m \in AnyMessage
      /\ m.type \notin {"MsgGroup", "MsgAck"} => m \in NodeMessage /\ q \in Nodes
      /\ m.type \in {"MsgGroup", "MsgAck"} => m \in ClientMessage /\ q \in Clients
  BY <1>1, NodeHead
<1>3. /\ TypeOK /\ NodeTypes /\ orderNumber \in Nat /\ groupKey \in Nat
      /\ requestQueue[n] \in Seq(Entry) /\ client_request[n] \in Texts
  BY TypeParts DEF Ground, TypeOK
<1>4. ASSUME NEW out, FreshOut(n, m, out), Handle(n, q, out), UNCHANGED orderNumber
      PROVE  Signs(n, q)
  BY <1>1, <1>4 DEF Signs
<1>5. ASSUME NEW k \in AnyMessage, k.type \in {"MsgSend", "MsgReply"} PROVE Fresh(n, m, k)
  BY <1>5 DEF Fresh
<1>6. CASE group_request_handler(n, q)
  <2> DEFINE queue == Enqueue(requestQueue[n], [client |-> q, message |-> m.message])
  <2>1. /\ m.type = "MsgGroup"
        /\ \/ Handle(n, q, Nothing) /\ UNCHANGED orderNumber
           \/ Process(n, queue, Empty) /\ Handle(n, q, Proposal(n, queue))
    BY <1>6 DEF group_request_handler, Arrives
  <2>2. CASE Handle(n, q, Nothing) /\ UNCHANGED orderNumber
    BY <1>4, <2>2, FreshSends
  <2>3. CASE Process(n, queue, Empty) /\ Handle(n, q, Proposal(n, queue))
    <3>1. m.message \in Requests /\ q \in Clients
      BY <1>2, <2>1, ClientMessageFields
    <3>2. queue \in Seq(Entry)
      BY <1>3, <3>1, EnqueuedTypes
    <3> HIDE DEF queue
    <3>3. orderNumber' = IF queue # <<>> /\ primaryGroup'[randomValue'] = n
                         THEN orderNumber + 1 ELSE orderNumber
      BY <2>3 DEF Process
    <3>4. FreshOut(n, m, Proposal(n, queue)) /\ orderNumber' \in {orderNumber, orderNumber + 1}
      BY <1>3, <3>2, <3>3, FreshProposal
    <3> QED BY <1>1, <2>3, <3>4 DEF Signs
  <2> QED BY <2>1, <2>2, <2>3
<1>7. CASE primary_consensus_handler(n, q)
  <2> DEFINE k == [type |-> "MsgPrimaryVerified",
                   verified |-> VerifySignature(m.order, client_request[n], m.signature, q)]
  <2>1. Handle(n, q, To({q}, k)) /\ m.type = "MsgPrimaryConsensus" /\ UNCHANGED orderNumber
    BY <1>7 DEF primary_consensus_handler, Arrives, nodeVars
  <2>2. k \in AnyMessage /\ k.type = "MsgPrimaryVerified"
    BY DEF AnyMessage, NodeMessage, VerifySignature
  <2> HIDE DEF k
  <2>3. Fresh(n, m, k)
    BY <2>1, <2>2 DEF Fresh
  <2> QED BY <1>4, <2>1, <2>2, <2>3, FreshSends
<1>8. CASE primary_verified_handler(n, q)
  <2> DEFINE k == [type |-> "MsgPreprepare", order |-> orderNumber,
                   signature |-> Sign(groupKey, orderNumber, client_request[n])]
             S == Members(consensusGroup) \ Members(primaryGroup)
  <2>1. /\ m.type = "MsgPrimaryVerified"
        /\ \/ Handle(n, q, To(S, k)) /\ UNCHANGED <<orderNumber, groupKey, aborted>>
           \/ Handle(n, q, Nothing) /\ UNCHANGED orderNumber
           \/ CloseRound(n, q)
    BY <1>8 DEF primary_verified_handler, Arrives, nodeVars
  <2>2. /\ k \in AnyMessage /\ k.type = "MsgPreprepare"
        /\ k.signature = Sign(groupKey, orderNumber, client_request[n])
    BY <1>3, GroupSigned DEF AnyMessage, NodeMessage
  <2> HIDE DEF k, S
  <2>3. CASE Handle(n, q, To(S, k)) /\ UNCHANGED <<orderNumber, groupKey, aborted>>
    <3>1. Fresh(n, m, k)
      BY <2>1, <2>2, <2>3 DEF Fresh
    <3> QED BY <1>4, <2>2, <2>3, <3>1, FreshSends
  <2>4. CASE Handle(n, q, Nothing) /\ UNCHANGED orderNumber
    BY <1>4, <2>4, FreshSends
  <2> QED BY <1>1, <2>1, <2>3, <2>4, CloseSigns
<1>9. CASE preprepare_handler(n, q)
  <2> DEFINE k == [type |-> "MsgPrepare", order |-> m.order, groupSign |-> m.signature,
                   peerSign |-> Sign(n, m.order, client_request[n])]
             S == Members(consensusGroup) \ {n}
  <2>1. /\ m.type = "MsgPreprepare" /\ (Handle(n, q, To(S, k)) \/ Handle(n, q, Nothing))
        /\ UNCHANGED orderNumber
    BY <1>9 DEF preprepare_handler, Arrives, nodeVars
  <2>2. m.order \in Nat /\ m.signature \in GroupSignature
    BY <1>2, <2>1, NodeMessageFields
  <2>3. k \in AnyMessage /\ k.type = "MsgPrepare" /\ k.groupSign = m.signature
    BY <1>3, <2>2, PeerSigned DEF AnyMessage, NodeMessage
  <2> HIDE DEF k, S
  <2>4. Fresh(n, m, k)
    BY <2>1, <2>3 DEF Fresh
  <2> QED BY <1>4, <2>1, <2>3, <2>4, FreshSends
<1>10. CASE prepare_handler(n, q)
  <2> DEFINE k == [type |-> "MsgSend", sendReply |-> TRUE, order |-> m.order]
             r == [type |-> "MsgReply", result |-> TRUE, order |-> m.order]
             S == Members(consensusGroup) \ {n}
             C == {client_id[n]}
  <2>1. /\ m.type = "MsgPrepare"
        /\ \/ Handle(n, q, Then(To(S, k), To(C, r))) /\ UNCHANGED orderNumber
           \/ Handle(n, q, Nothing) /\ UNCHANGED orderNumber
           \/ CloseRound(n, q)
    BY <1>10 DEF prepare_handler, Arrives, nodeVars, Reply
  <2>2. m.order \in Nat
    BY <1>2, <2>1, NodeMessageFields
  <2>3. k \in AnyMessage /\ r \in AnyMessage /\ k.type = "MsgSend" /\ r.type = "MsgReply"
    BY <2>2 DEF AnyMessage, NodeMessage
  <2> HIDE DEF k, r, S, C
  <2>4. FreshOut(n, m, To(S, k)) /\ FreshOut(n, m, To(C, r))
    BY <1>5, <2>3, FreshSends
  <2>5. FreshOut(n, m, Then(To(S, k), To(C, r))) /\ FreshOut(n, m, Nothing)
    BY <2>4, FreshSends
  <2> QED BY <1>1, <1>4, <2>1, <2>5, CloseSigns
<1>11. CASE send_reply_handler(n, q)
  <2> DEFINE r == [type |-> "MsgReply", result |-> m.sendReply, order |-> m.order]
             C == {client_id[n]}
  <2>1. m.type = "MsgSend" /\ Handle(n, q, To(C, r)) /\ UNCHANGED orderNumber
    BY <1>11 DEF send_reply_handler, Arrives, nodeVars, Reply
  <2>2. m.order \in Nat /\ m.sendReply \in BOOLEAN
    BY <1>2, <2>1, NodeMessageFields
  <2>3. r \in AnyMessage /\ r.type = "MsgReply"
    BY <2>2 DEF AnyMessage, NodeMessage
  <2> HIDE DEF r, C
  <2>4. FreshOut(n, m, To(C, r))
    BY <1>5, <2>3, FreshSends
  <2> QED BY <1>4, <2>1, <2>4
<1>12. CASE ack_handler(n, q)
  BY <1>1, <1>12, CloseSigns DEF ack_handler
<1>13. CASE process_next_request(n, q)
  <2>1. CASE UNCHANGED <<net, orderNumber>>
    BY <2>1 DEF Signs
  <2>2. CASE /\ requestQueue[n] # <<>> /\ Process(n, Tail(requestQueue[n]), Space)
             /\ Handle(n, q, Proposal(n, Tail(requestQueue[n])))
    <3> DEFINE rest == Tail(requestQueue[n])
    <3>1. rest \in Seq(Entry)
      BY <1>3, <2>2
    <3>2. orderNumber' = IF rest # <<>> /\ primaryGroup'[randomValue'] = n
                         THEN orderNumber + 1 ELSE orderNumber
      BY <2>2 DEF Process
    <3>3. FreshOut(n, m, Proposal(n, rest)) /\ orderNumber' \in {orderNumber, orderNumber + 1}
      BY <1>3, <3>1, <3>2, FreshProposal
    <3> QED BY <1>1, <2>2, <3>3 DEF Signs
  <2> QED BY <1>13, <2>1, <2>2 DEF process_next_request, nodeVars
<1> QED BY <1>6, <1>7, <1>8, <1>9, <1>10, <1>11, <1>12, <1>13 DEF Node

\* Where nothing is new but s, and no other certificate has its key or its
\* order number, certificates stay apart.
LEMMA CertsKept ==
  ASSUME Ground, Ground', CertInv, orderNumber' \in {orderNumber, orderNumber + 1},
         Questioned' => Questioned \/ orderNumber' = orderNumber + 1,
         \A s \in Certificates' : s \in Certificates
  PROVE  CertInv'
<1>1. orderNumber \in Nat /\ orderNumber' \in Nat
  BY DEF Ground, TypeOK
<1>2. ASSUME NEW s \in Certificates'
      PROVE  /\ s \in GroupSignature /\ s.text \in Requests
             /\ s.order <= orderNumber'
             /\ Questioned' => s.order < orderNumber'
  <2>1. /\ s \in GroupSignature /\ s.text \in Requests
        /\ s.order <= orderNumber
        /\ Questioned => s.order < orderNumber
    BY <1>2 DEF CertInv
  <2>2. s.order \in Nat
    BY <2>1 DEF GroupSignature
  <2> QED BY <1>1, <2>1, <2>2
<1>3. OneCertificatePerRound'
  BY DEF CertInv, OneCertificatePerRound
<1> QED BY <1>2, <1>3 DEF CertInv

\* A message on its way when one round is over certifies another one.
LEMMA NoneOfThisKey ==
  ASSUME OneQuorum, Ground, Weight = 0, NEW s \in Certificates
  PROVE  s.key # groupKey
<1> DEFINE u == prepared_messages
           x == Count(net, PreparesOf(groupKey))
           y == Count(net, PrepreparesOf(groupKey))
           c == ConsensusSize - 1
<1>1. u \in Nat /\ x \in Nat /\ y \in Nat /\ c \in Nat
  BY InNumbers, Sizes DEF Numbers
<1>2. (u + x) + c * y = 0
  BY DEF Weight
<1>3. c >= 1
  BY Sizes DEF OneQuorum
<1>4. x = 0 /\ y = 0
  <2> HIDE DEF u, x, y, c
  <2>1. u + x \in Nat /\ c * y \in Nat
    BY <1>1, Multiply
  <2>2. u + x = 0 /\ c * y = 0
    BY <1>2, <2>1
  <2>3. x = 0
    BY <1>1, <2>2
  <2>4. y = 0
    <3>1. SUFFICES ASSUME y >= 1 PROVE FALSE
      BY <1>1
    <3>2. c * 1 <= c * y
      BY <1>1, <3>1, Multiply
    <3> QED BY <1>1, <1>3, <2>2, <3>2
  <2> QED BY <2>3, <2>4
<1>5. PICK p \in Peers, q \in Peers : \E m \in Members(net[p][q]) : Certifies(m, s)
  BY FindCertificates DEF Found
<1>6. PICK m \in Members(net[p][q]) : Certifies(m, s)
  BY <1>5
<1>7. net[p][q] \in Seq(AnyMessage)
  BY DEF Ground, TypeOK, Channels, AnyMessage
<1>8. m \in AnyMessage
  BY <1>7, LenProperties, ElementOfSeq DEF Members
<1>9. m \notin PreparesOf(groupKey) /\ m \notin PrepreparesOf(groupKey)
  <2>1. /\ IsFiniteSet(Spots(net, All, PreparesOf(groupKey)))
        /\ IsFiniteSet(Spots(net, All, PrepreparesOf(groupKey)))
    BY Counts DEF Ground, Tidy
  <2> QED BY <1>4, <1>7, <2>1, NoneCounted
<1> QED BY <1>6, <1>8, <1>9, Kinds DEF Certifies

\* Nothing is asked when the round has prepares.
LEMMA NoQuestion == Ground /\ Live /\ Weight # 0 => ~Questioned
<1> SUFFICES ASSUME Ground, Live, Weight # 0, NEW p \in Peers, NEW q \in Peers,
                    NEW m \in Members(net[p][q]), Question(m)
             PROVE  FALSE
  BY DEF Questioned
<1>1. Asking = 0
  BY DEF Live, Phase, PhaseOf, Engaged
<1>2. Count(net, PCs) = 0 /\ Count(net, PVs) = 0
  <2>1. Count(net, PCs) \in Nat /\ Count(net, PVs) \in Nat
    BY InNumbers DEF Numbers
  <2> QED BY <1>1, <2>1 DEF Asking
<1>3. net[p][q] \in Seq(AnyMessage)
  BY DEF Ground, TypeOK, Channels, AnyMessage
<1>4. m \in AnyMessage
  BY <1>3, LenProperties, ElementOfSeq DEF Members
<1>5. m \notin PCs /\ m \notin PVs
  <2>1. IsFiniteSet(Spots(net, All, PCs)) /\ IsFiniteSet(Spots(net, All, PVs))
    BY Counts DEF Ground, Tidy
  <2> QED BY <1>2, <1>3, <2>1, NoneCounted
<1> QED BY <1>4, <1>5, Kinds DEF Question

\* A certificate of the current key is on its way, or nobody asks.
KeyOrQuestion == Questioned => \A s \in Certificates : s.key # groupKey

\* Where a certificate with the current key is on the wire, the lead is not
\* asking for one any more.
LEMMA KeyNoQuestion == ASSUME OneQuorum PROVE Ground /\ Live => KeyOrQuestion
BY NoneOfThisKey, NoQuestion DEF KeyOrQuestion

\* The same after a step.
LEMMA KeyNoQuestionNext == ASSUME OneQuorum PROVE Ground' /\ Live' => KeyOrQuestion'
<1>1. Ground /\ Live => KeyOrQuestion
  BY KeyNoQuestion
<1> QED BY <1>1, PTL

\* The lead certifies the front of its queue, under an order number of its own.
LEMMA CertAdded ==
  ASSUME OneQuorum, Ground, Ground', Live, Live', CertInv, NEW n \in Nodes, NEW q \in Peers,
         net[q][n] # <<>>, NEW m, m = Head(net[q][n]), m.type = "MsgPrimaryVerified",
         NEW t, t = Sign(groupKey, orderNumber, client_request[n]),
         \A s \in Certificates' : s \in Certificates \/ s = t,
         t \in Certificates', orderNumber' = orderNumber, groupKey' = groupKey
  PROVE  CertInv'
<1>1. n = Lead /\ busy[n] /\ Weight = 0 /\ m \in Members(net[q][n]) /\ q \in Peers /\ n \in Peers
  <2>1. n = Lead /\ busy[Lead] /\ Weight = 0
    BY AnswerArrives
  <2> QED BY <2>1, NodeHead
<1>2. orderNumber \in Nat /\ groupKey \in Nat /\ client_request[n] \in Texts
  BY DEF Ground, TypeOK
<1>3. t \in GroupSignature /\ t.key = groupKey /\ t.order = orderNumber
  BY <1>2, GroupSigned DEF Sign
<1>4. t.text \in Requests
  <2>1. requestQueue[n] # <<>> /\ client_request[n] = Head(requestQueue[n]).message
    BY <1>1 DEF Ground, WorksOnFront
  <2>2. requestQueue[n] \in Seq(Entry)
    BY DEF Ground, TypeOK
  <2>3. Head(requestQueue[n]) \in Entry
    BY <2>1, <2>2
  <2> QED BY <2>1, <2>3 DEF Entry, Sign
<1>5. ~Questioned'
  BY <1>3, KeyNoQuestionNext DEF KeyOrQuestion
<1>6. Questioned
  BY <1>1 DEF Questioned, Question
<1>7. ASSUME NEW s \in Certificates
      PROVE  /\ s \in GroupSignature /\ s.text \in Requests /\ s.order < orderNumber
             /\ s.key # groupKey /\ s.order \in Nat
  <2>1. s \in GroupSignature /\ s.text \in Requests /\ s.order < orderNumber
    BY <1>6, <1>7 DEF CertInv
  <2>2. s.key # groupKey
    BY <1>1, NoneOfThisKey
  <2> QED BY <2>1, <2>2 DEF GroupSignature
<1>8. ASSUME NEW s \in Certificates'
      PROVE  s \in GroupSignature /\ s.text \in Requests /\ s.order <= orderNumber'
  BY <1>2, <1>3, <1>4, <1>7, <1>8
<1>9. OneCertificatePerRound'
  <2> SUFFICES ASSUME NEW s \in Certificates', NEW r \in Certificates', s.key = r.key \/ s.order = r.order
               PROVE  s = r
    BY DEF OneCertificatePerRound
  <2>1. CASE s \in Certificates /\ r \in Certificates
    BY <2>1 DEF CertInv, OneCertificatePerRound
  <2>2. CASE s = t /\ r \in Certificates
    <3>1. r.order < orderNumber /\ r.order \in Nat /\ r.key # groupKey
      BY <1>7, <2>2
    <3>2. r.order # orderNumber
      BY <1>2, <3>1
    <3> QED BY <1>3, <2>2, <3>1, <3>2
  <2>3. CASE r = t /\ s \in Certificates
    <3>1. s.order < orderNumber /\ s.order \in Nat /\ s.key # groupKey
      BY <1>7, <2>3
    <3>2. s.order # orderNumber
      BY <1>2, <3>1
    <3> QED BY <1>3, <2>3, <3>1, <3>2
  <2>4. CASE s = t /\ r = t
    BY <2>4
  <2> QED BY <2>1, <2>2, <2>3, <2>4
<1> QED BY <1>5, <1>8, <1>9 DEF CertInv

\* A handler that sends what is fresh.
LEMMA FreshCerts ==
  ASSUME OneQuorum, Ground, Ground', Live, LockInv', CertInv, ~aborted,
         NEW n \in Peers, NEW q \in Peers, net[q][n] # <<>>,
         NEW out, FreshOut(n, Head(net[q][n]), out), Handle(n, q, out),
         orderNumber' \in {orderNumber, orderNumber + 1},
         Head(net[q][n]).type = "MsgPrimaryVerified" => n \in Nodes
  PROVE  CertInv'
<1> DEFINE m == Head(net[q][n])
           t == Sign(groupKey, orderNumber, client_request[n])
<1>1. out \in [Peers -> Seq(AnyMessage)] /\ net \in Channels(NodeMessage, ClientMessage)
  BY DEF FreshOut, Ground, TypeOK
<1>2. ASSUME NEW a \in Peers, NEW b \in Peers, NEW k \in Members(net'[a][b])
      PROVE  k \in Members(net[a][b]) \/ Fresh(n, m, k)
  <2>1. k \in Members(net[a][b]) \/ (a = n /\ k \in Members(out[b]))
    BY <1>1, <1>2, HandleMembers DEF AnyMessage
  <2> QED BY <2>1 DEF FreshOut
<1>3. m \in Members(net[q][n])
  <2>1. net[q][n] \in Seq(AnyMessage)
    BY <1>1 DEF Channels, AnyMessage
  <2> QED BY <2>1 DEF Members
<1> HIDE DEF m
<1>4. Questioned' => Questioned \/ orderNumber' = orderNumber + 1
  <2> SUFFICES ASSUME NEW a \in Peers, NEW b \in Peers, NEW k \in Members(net'[a][b]), Question(k),
                      orderNumber' # orderNumber + 1
               PROVE  Questioned
    BY DEF Questioned
  <2>1. CASE k \in Members(net[a][b])
    BY <2>1 DEF Questioned
  <2>2. CASE Fresh(n, m, k)
    BY <1>3, <2>2 DEF Fresh, Question, Questioned
  <2> QED BY <1>2, <2>1, <2>2
<1>5. ASSUME NEW s \in Certificates', s \notin Certificates
      PROVE  /\ s = t /\ m.type = "MsgPrimaryVerified"
             /\ UNCHANGED <<orderNumber, groupKey, aborted>>
  <2>1. PICK a \in Peers, b \in Peers : \E k \in Members(net'[a][b]) : Certifies(k, s)
    BY <1>5, FindCertificatesNext DEF Found
  <2>2. PICK k \in Members(net'[a][b]) : Certifies(k, s)
    BY <2>1
  <2>3. k \notin Members(net[a][b])
    BY <1>5, <2>2, FindCertificates DEF Found
  <2>4. Fresh(n, m, k)
    BY <1>2, <2>3
  <2>5. k.type # "MsgPrepare"
    <3>1. SUFFICES ASSUME k.type = "MsgPrepare" PROVE FALSE
      OBVIOUS
    <3>2. m.type = "MsgPreprepare" /\ s = m.signature
      BY <2>2, <2>4, <3>1 DEF Fresh, Certifies
    <3>3. Certifies(m, s)
      BY <3>2 DEF Certifies
    <3> QED BY <1>3, <1>5, <3>3, FindCertificates DEF Found
  <2> QED BY <2>2, <2>4, <2>5 DEF Fresh, Certifies
<1>6. CASE \A s \in Certificates' : s \in Certificates
  BY <1>4, <1>6, CertsKept
<1>7. CASE ~ \A s \in Certificates' : s \in Certificates
  <2>1. PICK s \in Certificates' : s \notin Certificates
    BY <1>7
  <2>2. /\ s = t /\ m.type = "MsgPrimaryVerified" /\ orderNumber' = orderNumber
        /\ groupKey' = groupKey /\ ~aborted'
    BY <1>5, <2>1
  <2>3. n \in Nodes
    BY <2>2 DEF m
  <2>4. Live'
    BY <2>2 DEF LockInv
  <2>5. \A r \in Certificates' : r \in Certificates \/ r = t
    BY <1>5
  <2> HIDE DEF t
  <2>6. t \in Certificates' /\ m = Head(net[q][n]) /\ t = Sign(groupKey, orderNumber, client_request[n])
    BY <2>1, <2>2 DEF t, m
  <2> QED BY <2>2, <2>3, <2>4, <2>5, <2>6, CertAdded
<1> QED BY <1>6, <1>7

\* No certificates at first.
LEMMA CertInit == ASSUME Init PROVE CertInv
<1>1. \A p, q \in Peers : Members(net[p][q]) = {}
  BY DEF Init, Members
<1>2. Certificates = {}
  BY <1>1, FindCertificates DEF Found
<1> QED BY <1>2 DEF CertInv, OneCertificatePerRound

\* A new certificate has a key and an order number that none on the wire has.
LEMMA CertNext ==
  ASSUME OneQuorum, Ground, Ground', LockInv, LockInv', CertInv, [Next]_vars PROVE CertInv'
<1>1. ASSUME UNCHANGED <<net, orderNumber>> PROVE CertInv'
  <2>1. Certificates' = Certificates /\ Questioned' = Questioned
    BY <1>1 DEF Certificates, OnWire, Questioned
  <2> QED BY <1>1, <2>1 DEF CertInv, OneCertificatePerRound
<1>2. CASE UNCHANGED vars
  BY <1>1, <1>2 DEF vars, nodeVars
<1>3. CASE Next
  <2>1. ~aborted /\ Live
    BY <1>3 DEF Next, LockInv
  <2>2. ASSUME NEW n \in Nodes, NEW q \in Peers, Node(n, q) PROVE CertInv'
    <3>1. Signs(n, q) /\ n \in Peers
      BY <2>2, NodeSigns DEF Peers
    <3>2. CASE UNCHANGED <<net, orderNumber>>
      BY <1>1, <3>2
    <3>3. CASE /\ net[q][n] # <<>> /\ orderNumber' \in {orderNumber, orderNumber + 1}
               /\ \E out : FreshOut(n, Head(net[q][n]), out) /\ Handle(n, q, out)
      <4>1. PICK out : FreshOut(n, Head(net[q][n]), out) /\ Handle(n, q, out)
        BY <3>3
      <4> QED BY <2>1, <3>1, <3>3, <4>1, FreshCerts
    <3> QED BY <3>1, <3>2, <3>3 DEF Signs
  <2>3. ASSUME NEW c \in Clients, NEW q \in Nodes, reply_handler(c, q) PROVE CertInv'
    <3> DEFINE m == Head(net[q][c])
               k == [type |-> "MsgAck"]
    <3>1. /\ net[q][c] # <<>> /\ m.type = "MsgReply" /\ UNCHANGED orderNumber
          /\ Handle(c, q, To({q}, k)) \/ Handle(c, q, Nothing)
      BY <2>3 DEF reply_handler, Arrives, nodeVars
    <3>2. k \in AnyMessage /\ k.type = "MsgAck"
      BY DEF AnyMessage, ClientMessage
    <3> HIDE DEF k
    <3>3. Fresh(c, m, k)
      BY <3>2 DEF Fresh
    <3>4. FreshOut(c, m, To({q}, k)) /\ FreshOut(c, m, Nothing)
      BY <3>2, <3>3, FreshSends
    <3>5. c \in Peers /\ q \in Peers /\ m.type # "MsgPrimaryVerified"
      BY <3>1 DEF Peers
    <3> QED BY <2>1, <3>1, <3>4, <3>5, FreshCerts
  <2>4. ASSUME NEW t \in Threads, multicast(t) PROVE CertInv'
    <3>0. TypeOK /\ Tidy /\ Counted /\ Rest \subseteq Rest /\ UNCHANGED orderNumber
      BY <2>4 DEF Ground, Balanced, multicast, nodeVars
    <3>1. ASSUME NEW a \in Peers, NEW b \in Peers, NEW m \in Members(net'[a][b])
          PROVE  m \in Members(net[a][b]) \/ m.type = "MsgGroup"
      <4>1. CASE net'[a][b] = net[a][b]
        BY <3>1, <4>1
      <4>2. CASE net'[a][b] # net[a][b]
        <5>1. PICK k \in AnyMessage : k.type = "MsgGroup" /\ net'[a][b] = Append(net[a][b], k)
          BY <2>4, <3>0, <4>2, MulticastRest
        <5>2. net[a][b] \in Seq(AnyMessage) /\ <<k>> \in Seq(AnyMessage)
          BY <3>0 DEF TypeOK, Channels, AnyMessage
        <5>3. Append(net[a][b], k) = net[a][b] \o <<k>>
          BY <5>2
        <5>4. m \in Members(net[a][b]) \/ m \in Members(<<k>>)
          BY <3>1, <5>1, <5>2, <5>3, SeqMembers
        <5> QED BY <5>1, <5>4 DEF Members
      <4> QED BY <4>1, <4>2
    <3>2. Questioned' => Questioned
      BY <3>1 DEF Questioned, Question
    <3>3. ASSUME NEW s \in Certificates' PROVE s \in Certificates
      <4>1. PICK a \in Peers, b \in Peers : \E m \in Members(net'[a][b]) : Certifies(m, s)
        BY <3>3, FindCertificatesNext DEF Found
      <4>2. PICK m \in Members(net'[a][b]) : Certifies(m, s)
        BY <4>1
      <4>3. m \in Members(net[a][b])
        BY <3>1, <4>2 DEF Certifies
      <4> QED BY <4>2, <4>3, FindCertificates DEF Found
    <3> QED BY <3>0, <3>2, <3>3, CertsKept
  <2> QED BY <1>3, <2>2, <2>3, <2>4 DEF Next
<1> QED BY <1>2, <1>3

\* The invariant of the certificates.
LEMMA CertHolds == ASSUME OneQuorum PROVE LockStepSpec => []CertInv
<1>1. Init => CertInv
  BY CertInit
<1>2. Ground /\ LockInv /\ Ground' /\ LockInv' /\ CertInv /\ [Next]_vars => CertInv'
  BY CertNext
<1> QED BY <1>1, <1>2, LockHolds, LockIsSpec, PTL DEF Spec

\* In lock step the primary group certifies one request per order number and
\* per key, on any number of nodes and with every ranking.
THEOREM CertifiedOnce == ASSUME OneQuorum PROVE LockStepSpec => []OneCertificatePerRound
<1>1. CertInv => OneCertificatePerRound
  BY DEF CertInv
<1> QED BY <1>1, CertHolds, PTL

\* In lock step no node ever certifies the blank text of an idle node.
THEOREM RequestsCertified == ASSUME OneQuorum PROVE LockStepSpec => []CertifiesRequests
<1>1. CertInv => CertifiesRequests
  BY DEF CertInv, CertifiesRequests
<1> QED BY <1>1, CertHolds, PTL

----------------------------------------------------------------------------
(* The service.                                                            *)

SomeNode == CHOOSE n \in Nodes : TRUE
Registered == \E n \in Nodes : InFlight(n, "MsgAck") # {}

\* The abstract state moves as the service does, seen from the counts.
LEMMA ServiceMoves ==
  ASSUME \/ LineOf(SomeNode)' = LineOf(SomeNode) /\ Registered' = Registered
         \/ /\ \E r \in Entry : LineOf(SomeNode)' = Append(LineOf(SomeNode), r)
            /\ Registered' = Registered
         \/ /\ LineOf(SomeNode) # <<>> /\ ~Registered /\ Registered' = TRUE
            /\ LineOf(SomeNode)' = LineOf(SomeNode)
         \/ /\ Registered /\ Registered' = FALSE
            /\ LineOf(SomeNode)' = Tail(LineOf(SomeNode))
         \/ /\ LineOf(SomeNode) # <<>> /\ ~Registered /\ Registered' = Registered
            /\ LineOf(SomeNode)' = Tail(LineOf(SomeNode))
  PROVE  [Service!Next]_Service!vars
BY DEF SomeNode, Registered, Service!Next, Service!vars, Service!Submit, Service!Register,
       Service!Retire, Service!Drop

\* A request is registered while an acknowledgement is on its way.
RegisteredIff == Registered <=> Count(net, Acks) # 0

\* A request is registered just while acknowledgements are on their way.
LEMMA RegisteredCount == Ground => RegisteredIff
<1> SUFFICES ASSUME Ground PROVE RegisteredIff
  OBVIOUS
<1>0. TypeOK /\ Tidy /\ net \in Channels(NodeMessage, ClientMessage)
  BY DEF Ground, TypeOK
<1>1. /\ IsFiniteSet(Spots(net, All, Acks))
      /\ Count(net, Acks) = 0 <=> Spots(net, All, Acks) = {}
  <2>1. IsFiniteSet(Spots(net, All, Acks))
    BY <1>0, Counts DEF Tidy
  <2> QED BY <2>1, FS_EmptySet DEF Count
<1>2. ASSUME Registered PROVE Spots(net, All, Acks) # {}
  <2>1. PICK n \in Nodes : InFlight(n, "MsgAck") # {}
    BY <1>2 DEF Registered
  <2>2. PICK q \in Peers : \E i \in DOMAIN net[q][n] : net[q][n][i].type = "MsgAck"
    BY <2>1 DEF InFlight
  <2>3. PICK i \in DOMAIN net[q][n] : net[q][n][i].type = "MsgAck"
    BY <2>2
  <2>4. n \in Peers /\ net[q][n] \in Seq(AnyMessage)
    BY <1>0, ChannelsTyped DEF OnlyMessages, Peers
  <2>5. i \in Nat /\ net[q][n][i] \in AnyMessage
    BY <2>3, <2>4
  <2>6. At(net[q][n], i, Acks)
    BY <2>3, <2>5, Kinds DEF At
  <2>7. <<q, n, i>> \in Spots(net, All, Acks)
    BY <2>4, <2>5, <2>6 DEF Spots, All
  <2> QED BY <2>7
<1>3. ASSUME Spots(net, All, Acks) # {} PROVE Registered
  <2>1. PICK p \in Peers, b \in Peers, i \in Nat : At(net[p][b], i, Acks)
    BY <1>3 DEF Spots
  <2>2. i \in DOMAIN net[p][b] /\ net[p][b][i].type = "MsgAck"
    BY <2>1 DEF At, Acks, OfType
  <2>3. b \in Nodes
    <3>1. CASE p \in Nodes
      <4>1. net[p][b] \in Seq(NodeMessage)
        BY <1>0, <3>1 DEF Channels
      <4>2. net[p][b][i] \in NodeMessage
        BY <2>2, <4>1
      <4> QED BY <2>2, <4>2, NodeMessageFields
    <3>2. CASE p \in Clients
      <4>1. p # b
        BY <1>0, <2>2 DEF Tidy
      <4> QED BY <3>2, <4>1, ClientAssumption DEF Peers
    <3> QED BY <3>1, <3>2 DEF Peers
  <2>4. <<p, i>> \in InFlight(b, "MsgAck")
    BY <2>2 DEF InFlight
  <2> QED BY <2>3, <2>4 DEF Registered
<1> QED BY <1>1, <1>2, <1>3 DEF RegisteredIff

\* The same after a step.
LEMMA RegisteredCountNext == Ground' => RegisteredIff'
BY RegisteredCount, PTL

\* What the steps of the queues do to the line.
SameLines == \A n \in Nodes : QP!LineOf(n) = LineOf(n)

\* The line the service shows is the line of a node's queues.
LEMMA LinesAreSame == SameLines
BY DEF SameLines, LineOf, QP!LineOf, QP!Before, Queues!LineOf, Queues!Before

\* The same after a step.
LEMMA LinesAreSameNext == SameLines'
BY LinesAreSame, PTL

\* How a step of the queues moves the line: a request joins it or leaves it.
LEMMA LineMoves ==
  ASSUME QP!TypeOK, QP!TypeOK', NEW n \in Nodes
  PROVE  /\ \A m \in Nodes : Queues!group_request_handler(m) \/ Queues!process_next_request(m)
               => LineOf(n)' = LineOf(n)
         /\ \A m \in Nodes : Queues!CloseRound(m)
               => LineOf(n)' = IF LineOf(n) = <<>> THEN <<>> ELSE Tail(LineOf(n))
         /\ \A r \in Entry : Queues!multicast(r)
               => LineOf(n)' = Append(LineOf(n), r) \/ LineOf(n)' = LineOf(n)
<1>1. QP!LineOf(n) = LineOf(n) /\ QP!LineOf(n)' = LineOf(n)'
  BY LinesAreSame, LinesAreSameNext DEF SameLines
<1>2. ASSUME NEW m \in Nodes, Queues!group_request_handler(m) \/ Queues!process_next_request(m)
      PROVE  LineOf(n)' = LineOf(n)
  <2>1. QP!group_request_handler(m) \/ QP!process_next_request(m)
    BY <1>2 DEF Queues!group_request_handler, Queues!process_next_request,
       QP!group_request_handler, QP!process_next_request
  <2> QED BY <1>1, <2>1, QP!LineStays
<1>3. ASSUME NEW m \in Nodes, Queues!CloseRound(m)
      PROVE  LineOf(n)' = IF LineOf(n) = <<>> THEN <<>> ELSE Tail(LineOf(n))
  <2>1. QP!CloseRound(m)
    BY <1>3 DEF Queues!CloseRound, QP!CloseRound
  <2> QED BY <1>1, <2>1, QP!LineShortens
<1>4. ASSUME NEW r \in Entry, Queues!multicast(r)
      PROVE  LineOf(n)' = Append(LineOf(n), r) \/ LineOf(n)' = LineOf(n)
  <2>1. QP!multicast(r)
    BY <1>4 DEF Queues!multicast, QP!multicast
  <2> QED BY <1>1, <2>1, QP!LineJoins
<1> QED BY <1>2, <1>3, <1>4

\* With no closes on their way, an open request is in the line.
LEMMA OpenLine ==
  ASSUME Ground, QP!TypeOK, QP!LinesAgree, Calm(net), NEW n \in Nodes, requestQueue[n] # <<>>
  PROVE  LineOf(SomeNode) # <<>>
<1>1. SomeNode \in Nodes
  BY DEF SomeNode
<1>2. LineOf(SomeNode) = LineOf(n)
  BY <1>1, LinesAreSame DEF SameLines, QP!LinesAgree
<1>3. Mapped /\ Told(net)[n] = 0
  BY MappedNow DEF Ground, Balanced, Calm
<1>4. [k \in Nodes |-> Cardinality(InFlight(k, "MsgNextRequest"))][n] = 0
  BY <1>3 DEF Mapped
<1>5. /\ requestQueue[n] \in Seq(Entry)
      /\ [k \in Nodes |-> Arriving(k)][n] \in Seq(Entry)
  BY DEF QP!TypeOK
<1>6. /\ Len(requestQueue[n]) >= 1
      /\ Len(requestQueue[n]) \in Nat /\ Len([k \in Nodes |-> Arriving(k)][n]) \in Nat
  BY <1>5
<1>7. QP!Lines
  BY QP!LinesByIndex
<1>8. QP!Left(n) >= 1
  <2>1. Len(QP!Before(n)) = Len(requestQueue[n]) + Len([k \in Nodes |-> Arriving(k)][n])
    BY QP!BeforeIsSeq
  <2> QED BY <1>4, <1>6, <2>1 DEF QP!Left
<1>9. Len(QP!LineOf(n)) >= 1
  <2>1. Len(QP!LineOf(n)) = IF QP!Left(n) > 0 THEN QP!Left(n) ELSE 0
    BY <1>7 DEF QP!Lines
  <2>2. QP!Left(n) \in Int
    BY QP!LeftIsInt
  <2> QED BY <1>8, <2>1, <2>2
<1>10. QP!LineOf(n) # <<>>
  BY <1>9
<1> QED BY <1>2, <1>10, LinesAreSame DEF SameLines

\* Somebody replied: all nodes are in the round of the lead.
LEMMA AnsweredKnown ==
  ASSUME Ground, Live, Replied # 0
  PROVE  Engaged /\ Replied <= ConsensusSize
<1>1. PhaseOf(Engaged, Weight, Replied, trust.Sat, groupKey)
  BY DEF Live, Phase
<1> QED BY <1>1 DEF PhaseOf

\* Nodes send no acknowledgements.
LEMMA NodeAcks ==
  ASSUME Ground, NEW n \in Nodes, NEW q \in Peers, net[q][n] # <<>>,
         NEW out \in [Peers -> Seq(NodeMessage)], Handle(n, q, out)
  PROVE  Count(net', Acks) = Count(net, Acks) - (IF Head(net[q][n]).type = "MsgAck" THEN 1 ELSE 0)
<1>0. /\ TypeOK /\ n \in Peers /\ q # n
      /\ IsFiniteSet(Spots(net, All, Acks)) /\ Count(net, Acks) \in Nat
  BY Counts DEF Ground, Tidy, Peers
<1>1. Gives(n, out, Acks, 0)
  <2>1. ASSUME NEW x \in Sent(n, out, All, Acks) PROVE FALSE
    <3>1. x[1] \in Peers /\ At(out[x[1]], x[2], Acks)
      BY DEF Sent
    <3>2. out[x[1]] \in Seq(NodeMessage)
      BY <3>1
    <3>3. out[x[1]][x[2]] \in NodeMessage /\ out[x[1]][x[2]].type = "MsgAck"
      BY <3>1, <3>2 DEF At, Acks, OfType
    <3> QED BY <3>3, NodeMessageFields
  <2>2. Sent(n, out, All, Acks) = {}
    BY <2>1
  <2> QED BY <2>2, FS_EmptySet DEF Gives
<1>2. out \in [Peers -> Seq(AnyMessage)]
  <2>1. \A p \in Peers : out[p] \in Seq(AnyMessage)
    BY DEF AnyMessage
  <2> QED BY <2>1
<1>3. Count(net', Acks) = Count(net, Acks) + 0 - (IF Head(net[q][n]) \in Acks THEN 1 ELSE 0)
  BY <1>0, <1>1, <1>2, Flow
<1>4. Head(net[q][n]) \in Acks <=> Head(net[q][n]).type = "MsgAck"
  BY NodeHead, Kinds
<1> QED BY <1>0, <1>3, <1>4

\* A round is closed under no registered request but by its acknowledgement,
\* and under an open one.
LEMMA ClosingKnown ==
  ASSUME OneQuorum, Ground, Live, NEW n \in Nodes, NEW q \in Peers, Node(n, q), CloseRound(n, q)
  PROVE  /\ net[q][n] # <<>> /\ Head(net[q][n]).type \notin {"MsgGroup", "MsgNextRequest"}
         /\ Calm(net) /\ Count(net, Acks) = IF Head(net[q][n]).type = "MsgAck" THEN 1 ELSE 0
<1> DEFINE m == Head(net[q][n])
<1>1. groupKey' # groupKey
  BY DEF CloseRound, changeGroupKey, Ground, TypeOK
<1>2. \/ primary_verified_handler(n, q) \/ prepare_handler(n, q) \/ ack_handler(n, q)
  BY <1>1 DEF Node, group_request_handler, primary_consensus_handler, preprepare_handler,
         send_reply_handler, process_next_request
<1>3. CASE primary_verified_handler(n, q)
  <2>1. net[q][n] # <<>> /\ m.type = "MsgPrimaryVerified"
    BY <1>3 DEF primary_verified_handler, Arrives
  <2>2. Calm(net) /\ Replied = 0
    BY <2>1, AnswerArrives
  <2> QED BY <2>1, <2>2, RepliesOpen
<1>4. CASE prepare_handler(n, q)
  <2>1. /\ net[q][n] # <<>> /\ m.type = "MsgPrepare"
        /\ ~QuorumReached(Prepared(n, q, m)) /\ Prepared(n, q, m) = MaxPrepared
    BY <1>1, <1>4 DEF prepare_handler, Arrives
  <2>2. Engaged /\ Replied = 0
    BY <2>1, DropKnown
  <2> QED BY <2>1, <2>2, RepliesOpen DEF Engaged
<1>5. CASE ack_handler(n, q)
  <2>1. net[q][n] # <<>> /\ m.type = "MsgAck"
    BY <1>5 DEF ack_handler, Arrives
  <2> QED BY <1>5, <2>1, AckKnown DEF Engaged
<1> QED BY <1>2, <1>3, <1>4, <1>5

Mapping == QP!TypeOK /\ QP!LinesAgree

\* A node that closes a round retires the registered request, or drops one
\* that is not; nothing else it does is seen.
LEMMA ServiceNode ==
  ASSUME OneQuorum, Ground, Ground', Live, ~aborted, Mapping, Mapping',
         NEW n \in Nodes, NEW q \in Peers, Node(n, q)
  PROVE  [Service!Next]_Service!vars
<1> DEFINE m == Head(net[q][n])
<1>0. /\ SomeNode \in Nodes /\ QP!TypeOK /\ QP!TypeOK' /\ QP!LinesAgree
      /\ RegisteredIff /\ RegisteredIff' /\ Count(net, Acks) \in Nat
      /\ TypeOK /\ TypeOK' /\ Counted /\ Counted'
  BY RegisteredCount, RegisteredCountNext, InNumbers
     DEF SomeNode, Mapping, Numbers, Ground, Balanced
<1>1. QueueMove(n, q) /\ QueueStep(n, q)
  BY <1>0, NodeQueueMove, NodeQueueStep
<1>2. CASE UNCHANGED <<requestQueue, net>>
  <2>1. LineOf(SomeNode)' = LineOf(SomeNode) /\ Registered' = Registered
    BY <1>2 DEF LineOf, Queues!LineOf, Queues!Before, Arriving, InFlight, Registered
  <2> QED BY <2>1, ServiceMoves
<1>3. CASE CloseRound(n, q) /\ ~UNCHANGED <<requestQueue, net>>
  <2>1. requestQueue[n] # <<>> /\ ~aborted'
    BY <1>3 DEF CloseRound, nodeVars
  <2>2. /\ net[q][n] # <<>> /\ m.type \notin {"MsgGroup", "MsgNextRequest"}
        /\ Calm(net) /\ Count(net, Acks) = IF m.type = "MsgAck" THEN 1 ELSE 0
    BY <1>3, ClosingKnown
  <2>3. requestQueue'[n] = Tail(requestQueue[n])
    BY <1>0, <1>3, <2>1 DEF CloseRound, Process, TypeOK
  <2>4. requestQueue'[n] # requestQueue[n]
    <3>1. requestQueue[n] \in Seq(Entry)
      BY <1>0 DEF TypeOK
    <3>2. Len(Tail(requestQueue[n])) # Len(requestQueue[n])
      BY <2>1, <3>1
    <3> QED BY <2>3, <3>2
  <2>5. Queues!CloseRound(n)
    BY <1>1, <2>2, <2>4 DEF QueueMove, Queues!vars
  <2>6. LineOf(SomeNode) # <<>>
    BY <1>0, <2>1, <2>2, OpenLine
  <2>7. LineOf(SomeNode)' = Tail(LineOf(SomeNode))
    BY <1>0, <2>5, <2>6, LineMoves
  <2>8. PICK out \in [Peers -> Seq(NodeMessage)] : Handle(n, q, out)
    BY <1>1, <1>3 DEF QueueStep
  <2>9. Count(net', Acks) = 0
    BY <2>2, <2>8, NodeAcks
  <2>10. ~Registered'
    BY <1>0, <2>9 DEF RegisteredIff
  <2>11. CASE m.type = "MsgAck"
    <3>1. Registered
      BY <1>0, <2>2, <2>11 DEF RegisteredIff
    <3>2. Registered' = FALSE
      BY <2>10 DEF Registered
    <3> QED BY <2>7, <3>1, <3>2, ServiceMoves
  <2>12. CASE m.type # "MsgAck"
    <3>1. ~Registered
      BY <1>0, <2>2, <2>12 DEF RegisteredIff
    <3>2. Registered' = Registered
      BY <2>10, <3>1 DEF Registered
    <3> QED BY <2>6, <2>7, <3>1, <3>2, ServiceMoves
  <2> QED BY <2>11, <2>12
<1>4. CASE ~CloseRound(n, q) /\ ~UNCHANGED <<requestQueue, net>>
  <2>1. \/ Queues!group_request_handler(n) \/ Queues!process_next_request(n)
        \/ UNCHANGED Queues!vars
    BY <1>1, <1>4 DEF QueueMove
  <2>2. LineOf(SomeNode)' = LineOf(SomeNode)
    <3>1. CASE UNCHANGED Queues!vars
      <4> DEFINE a == [k \in Nodes |-> Arriving(k)]
                 c == [k \in Nodes |-> Cardinality(InFlight(k, "MsgNextRequest"))]
      <4>1. requestQueue' = requestQueue /\ a' = a /\ c' = c
        BY <3>1 DEF Queues!vars
      <4>2. /\ Arriving(SomeNode)' = Arriving(SomeNode)
            /\ Cardinality(InFlight(SomeNode, "MsgNextRequest"))'
                  = Cardinality(InFlight(SomeNode, "MsgNextRequest"))
        <5>1. /\ a'[SomeNode] = Arriving(SomeNode)' /\ a[SomeNode] = Arriving(SomeNode)
              /\ c'[SomeNode] = Cardinality(InFlight(SomeNode, "MsgNextRequest"))'
              /\ c[SomeNode] = Cardinality(InFlight(SomeNode, "MsgNextRequest"))
          BY <1>0 DEF SomeNode
        <5> HIDE DEF a, c
        <5> QED BY <4>1, <5>1
      <4> QED BY <1>0, <4>1, <4>2 DEF LineOf, Queues!LineOf, Queues!Before
    <3> QED BY <1>0, <2>1, <3>1, LineMoves
  <2>3. net[q][n] # <<>> /\ \E out \in [Peers -> Seq(NodeMessage)] : Handle(n, q, out)
    BY <1>1, <1>4 DEF QueueStep
  <2>4. m.type # "MsgAck"
    BY <1>4 DEF Node, group_request_handler, primary_consensus_handler, primary_verified_handler,
       preprepare_handler, prepare_handler, send_reply_handler, ack_handler,
       process_next_request, Arrives
  <2>5. Count(net', Acks) = Count(net, Acks)
    BY <1>0, <2>3, <2>4, NodeAcks
  <2>6. Registered' <=> Registered
    BY <1>0, <2>5 DEF RegisteredIff
  <2>7. Registered' = Registered
    BY <2>6 DEF Registered
  <2> QED BY <2>2, <2>7, ServiceMoves
<1> QED BY <1>2, <1>3, <1>4

\* A multicast joins the line; while one is registered it stays registered.
LEMMA ServiceSubmits ==
  ASSUME Ground, Ground', Mapping, Mapping', NEW t \in Threads, multicast(t)
  PROVE  [Service!Next]_Service!vars
<1>0. /\ SomeNode \in Nodes /\ QP!TypeOK /\ QP!TypeOK' /\ RegisteredIff /\ RegisteredIff'
      /\ TypeOK /\ TypeOK' /\ Counted /\ Counted' /\ Tidy
  BY RegisteredCount, RegisteredCountNext, InNumbers
     DEF SomeNode, Mapping, Numbers, Ground, Balanced
<1>1. PICK r \in Entry : Queues!multicast(r)
  BY <1>0, MulticastQueues
<1>2. LineOf(SomeNode)' = Append(LineOf(SomeNode), r) \/ LineOf(SomeNode)' = LineOf(SomeNode)
  BY <1>0, <1>1, LineMoves
<1>3. Count(net', Acks) = Count(net, Acks)
  <2>1. Acks \subseteq Rest
    BY DEF Acks, OfType, Rest, AnyMessage
  <2> QED BY <1>0, <2>1, MulticastRest
<1>4. Registered' <=> Registered
  BY <1>0, <1>3 DEF RegisteredIff
<1>5. Registered' = Registered
  BY <1>4 DEF Registered
<1> QED BY <1>2, <1>5, ServiceMoves

\* The reply that completes the tally registers the front of the line: before
\* it no acknowledgement was on its way.
LEMMA ServiceRegisters ==
  ASSUME OneQuorum, Ground, Ground', Live, Mapping, Mapping',
         NEW c \in Clients, NEW q \in Nodes, reply_handler(c, q)
  PROVE  [Service!Next]_Service!vars
<1>0. /\ SomeNode \in Nodes /\ QP!TypeOK /\ QP!TypeOK' /\ QP!LinesAgree
      /\ RegisteredIff /\ RegisteredIff' /\ Numbers
      /\ TypeOK /\ TypeOK' /\ Counted /\ Counted' /\ Routes
  BY RegisteredCount, RegisteredCountNext, InNumbers
     DEF SomeNode, Mapping, Ground, Balanced, Live
<1>1. LineOf(SomeNode)' = LineOf(SomeNode)
  <2>1. UNCHANGED Queues!vars
    BY <1>0, ReplyQueues
  <2>2. requestQueue' = requestQueue /\ Asked(net') = Asked(net) /\ Told(net') = Told(net)
    BY <1>0, <2>1, MappedNow, MappedNext DEF Queues!vars, Mapped
  <2>3. /\ Arriving(SomeNode)' = Asked(net')[SomeNode] /\ Arriving(SomeNode) = Asked(net)[SomeNode]
        /\ Cardinality(InFlight(SomeNode, "MsgNextRequest"))' = Told(net')[SomeNode]
        /\ Cardinality(InFlight(SomeNode, "MsgNextRequest")) = Told(net)[SomeNode]
    <3>1. Mapped /\ Mapped'
      BY <1>0, MappedNow, MappedNext
    <3>2. /\ [k \in Nodes |-> Arriving(k)'][SomeNode] = Asked(net')[SomeNode]
          /\ [k \in Nodes |-> Arriving(k)][SomeNode] = Asked(net)[SomeNode]
          /\ [k \in Nodes |-> Cardinality(InFlight(k, "MsgNextRequest"))'][SomeNode] = Told(net')[SomeNode]
          /\ [k \in Nodes |-> Cardinality(InFlight(k, "MsgNextRequest"))][SomeNode] = Told(net)[SomeNode]
      BY <3>1 DEF Mapped
    <3> QED BY <1>0, <3>2
  <2> QED BY <1>0, <2>2, <2>3 DEF LineOf, Queues!LineOf, Queues!Before
<1>2. /\ ReplyCounted(c) /\ c = client /\ Head(net[q][c]) \in NodeMessage
      /\ Head(net[q][c]).type = "MsgReply" /\ net[q][c] # <<>>
  BY <1>0, ReplyCounts
<1>3. Count(net, Results) >= 1
  <2>1. c \in Peers /\ q \in Peers /\ net[q][c] \in Seq(AnyMessage)
    BY <1>0, ChannelsTyped DEF Peers, OnlyMessages
  <2>2. Head(net[q][c]) \in Members(net[q][c]) /\ Head(net[q][c]) \in AnyMessage
    BY <1>2, <2>1 DEF Members
  <2>3. Head(net[q][c]) \in Results
    BY <1>2, <2>2, Kinds
  <2>4. IsFiniteSet(Spots(net, All, Results))
    BY Counts DEF Ground, Tidy
  <2>5. Count(net, Results) # 0
    BY <2>1, <2>2, <2>3, <2>4, NoneCounted
  <2> QED BY <1>0, <2>5 DEF Numbers
<1>4. Engaged /\ Count(net, Acks) = 0
  <2>0. Count(net, Acks) \in Nat /\ Count(net, Results) \in Nat
    BY <1>0 DEF Numbers
  <2>1. Replied # 0
    <3>1. Replied = 0 => Count(net, Results) = 0
      BY RepliesOpen
    <3> QED BY <1>3, <2>0, <3>1
  <2>2. Engaged /\ Replied <= ConsensusSize
    BY <2>1, AnsweredKnown
  <2>3. ~(Count(net, Acks) >= 1)
    <3>1. Replied <= ConsensusSize /\ Count(net, Acks) >= 1 => Count(net, Results) = 0
      BY RepliesOpen
    <3> QED BY <1>3, <2>0, <2>2, <3>1
  <2> QED BY <2>0, <2>2, <2>3
<1>5. LineOf(SomeNode) # <<>>
  <2>1. Calm(net) /\ Lead \in Nodes /\ requestQueue[Lead] # <<>>
    BY <1>0, <1>4 DEF Engaged, Numbers, Ground, WorksOnFront
  <2> QED BY <1>0, <2>1, OpenLine
<1>6. ~Registered
  BY <1>0, <1>4 DEF RegisteredIff
<1>7. CASE Count(net', Acks) = Count(net, Acks) + 1
  <2>1. Registered'
    BY <1>0, <1>4, <1>7 DEF RegisteredIff
  <2>2. Registered' = TRUE
    BY <2>1 DEF Registered
  <2> QED BY <1>1, <1>5, <1>6, <2>2, ServiceMoves
<1>8. CASE Count(net', Acks) = Count(net, Acks)
  <2>1. Registered' <=> Registered
    BY <1>0, <1>8 DEF RegisteredIff
  <2>2. Registered' = Registered
    BY <2>1 DEF Registered
  <2> QED BY <1>1, <2>2, ServiceMoves
<1> QED BY <1>2, <1>7, <1>8 DEF ReplyCounted

\* In lock step the nodes implement the service: an acknowledgement is only
\* ever on its way for the front of the line, once, and it is that request
\* it retires; no round is closed under it by anybody else.
THEOREM ServiceImplemented == ASSUME OneQuorum PROVE LockStepSpec => ImplementsService
<1>1. Init /\ Queues!Init /\ Ground => Service!Init
  <2> SUFFICES ASSUME Init, Queues!Init, Ground PROVE Service!Init
    OBVIOUS
  <2>1. SomeNode \in Nodes
    BY InNumbers DEF SomeNode, Numbers
  <2>2. LineOf(SomeNode) = <<>>
    <3>1. [k \in Nodes |-> Arriving(k)][SomeNode] = <<>> /\ requestQueue[SomeNode] = <<>>
          /\ [k \in Nodes |-> Cardinality(InFlight(k, "MsgNextRequest"))][SomeNode] = 0
      BY <2>1 DEF Queues!Init
    <3> QED BY <2>1, <3>1 DEF LineOf, Queues!LineOf, Queues!Before
  <2>3. ~Registered
    BY NothingAtFirst, RegisteredCount DEF RegisteredIff
  <2>4. Registered = FALSE
    BY <2>3 DEF Registered
  <2> QED BY <2>2, <2>4 DEF Service!Init, Registered, SomeNode
<1>2. Ground /\ Ground' /\ LockInv /\ Mapping /\ Mapping' /\ [Next /\ ClosesFirst]_vars
        => [Service!Next]_Service!vars
  <2> SUFFICES ASSUME Ground, Ground', LockInv, Mapping, Mapping', [Next /\ ClosesFirst]_vars
               PROVE  [Service!Next]_Service!vars
    OBVIOUS
  <2>1. CASE UNCHANGED vars
    <3>1. requestQueue' = requestQueue /\ net' = net
      BY <2>1 DEF vars, nodeVars
    <3>2. LineOf(SomeNode)' = LineOf(SomeNode) /\ Registered' = Registered
      BY <3>1 DEF LineOf, Queues!LineOf, Queues!Before, Arriving, InFlight, Registered
    <3> QED BY <3>2, ServiceMoves
  <2>2. CASE Next
    <3>1. ~aborted /\ Live
      BY <2>2 DEF Next, LockInv
    <3>2. ASSUME NEW n \in Nodes, NEW q \in Peers, Node(n, q) PROVE [Service!Next]_Service!vars
      BY <3>1, <3>2, ServiceNode
    <3>3. ASSUME NEW t \in Threads, multicast(t) PROVE [Service!Next]_Service!vars
      BY <3>3, ServiceSubmits
    <3>4. ASSUME NEW c \in Clients, NEW q \in Nodes, reply_handler(c, q)
          PROVE  [Service!Next]_Service!vars
      BY <3>1, <3>4, ServiceRegisters
    <3> QED BY <2>2, <3>2, <3>3, <3>4 DEF Next
  <2> QED BY <2>1, <2>2
<1>3. LockStepSpec => [](Ground /\ LockInv)
  BY LockHolds
<1>4. Spec => []Mapping
  <2>1. QP!Spec => []QP!TypeOK
    BY QP!TypeCorrect
  <2>2. QP!Spec => []QP!LinesAgree
    BY QP!OneLine
  <2>3. Queues!Init => QP!Init
    BY DEF Queues!Init, QP!Init
  <2>4. [Queues!Next]_Queues!vars => [QP!Next]_QP!vars
    BY DEF Queues!Next, Queues!vars, Queues!multicast, Queues!group_request_handler,
       Queues!CloseRound, Queues!process_next_request, QP!Next, QP!vars, QP!multicast,
       QP!group_request_handler, QP!CloseRound, QP!process_next_request
  <2> QED BY <2>1, <2>2, <2>3, <2>4, QueuesImplemented, PTL
          DEF ImplementsQueues, Queues!Spec, QP!Spec, Mapping
<1>5. Spec => Queues!Init
  BY QueuesImplemented, PTL DEF ImplementsQueues, Queues!Spec
<1> QED BY <1>1, <1>2, <1>3, <1>4, <1>5, LockIsSpec, PTL
        DEF LockStepSpec, ImplementsService, Service!Spec

----------------------------------------------------------------------------
(* The first round, on any network.                                        *)

\* Until a round was closed nobody acknowledges or closes, and a question on
\* its way is about the request its sender works on.
Early(m, p) ==
    /\ m.type \notin {"MsgNextRequest", "MsgAck"}
    /\ m.type = "MsgPrimaryConsensus" =>
          busy[p] /\ m.signature = Sign(p, m.order, client_request[p])

AllEarly == \A p, q \in Peers : \A m \in Members(net[p][q]) : Early(m, p)

\* What holds of every network until a round was closed.
FirstInv == groupKey >= 1 /\ (groupKey = 1 => LockInv /\ ~aborted /\ AllEarly)

\* With the sizes of Starved there is one quorum per round.
LEMMA StarvedSizes == Starved => OneQuorum /\ PrepareQuorum <= MaxPrepared
<1> SUFFICES ASSUME Starved PROVE OneQuorum /\ PrepareQuorum <= MaxPrepared
  OBVIOUS
<1>1. /\ ConsensusSize \in Nat /\ PrimarySize \in Nat /\ PrimarySize <= ConsensusSize
      /\ ReplyQuorum \in Nat /\ PrepareQuorum \in Nat /\ PrepareQuorum >= 1 /\ MaxPrepared \in Nat
  BY Sizes, SizeAssumption
<1>2. MaxPrepared >= 1
  BY <1>1 DEF Starved
<1>3. PrimarySize # ConsensusSize
  <2> SUFFICES ASSUME PrimarySize = ConsensusSize PROVE FALSE
    OBVIOUS
  <2>1. ConsensusSize - PrimarySize = 0 /\ ConsensusSize - 1 \in Int
    BY <1>1
  <2>2. MaxPrepared = 0 * (ConsensusSize - 1)
    BY <2>1 DEF MaxPrepared
  <2>3. \A x \in Int : 0 * x = 0
    OBVIOUS
  <2> QED BY <1>2, <2>1, <2>2, <2>3
<1> QED BY <1>1, <1>3 DEF Starved, OneQuorum

\* What n, given the oldest message from q, sends in the first round.
EarlyAnswer(n, q, m) ==
    /\ m.type \notin {"MsgNextRequest", "MsgAck"}
    /\ m.type = "MsgPrimaryConsensus" =>
          busy'[n] /\ m.signature = Sign(n, m.order, client_request'[n])
    /\ m.type = "MsgPrimaryVerified" =>
          q \in Nodes /\ (client_request[n] = client_request[q] => m.verified)

EarlyOut(n, q, out) ==
    /\ out \in [Peers -> Seq(AnyMessage)]
    /\ \A b \in Peers : \A m \in Members(out[b]) : EarlyAnswer(n, q, m)

\* What is sent in the first round is put together from such messages.
LEMMA EarlySends ==
  ASSUME NEW n, NEW q
  PROVE  /\ EarlyOut(n, q, Nothing)
         /\ \A S : \A k \in AnyMessage : EarlyAnswer(n, q, k) => EarlyOut(n, q, To(S, k))
         /\ \A f, g : EarlyOut(n, q, f) /\ EarlyOut(n, q, g) => EarlyOut(n, q, Then(f, g))
<1>1. EarlyOut(n, q, Nothing)
  <2>1. Nothing \in [Peers -> Seq(AnyMessage)] /\ \A b \in Peers : Members(Nothing[b]) = {}
    BY NothingSent, ToMembers
  <2> QED BY <2>1 DEF EarlyOut
<1>2. ASSUME NEW S, NEW k \in AnyMessage, EarlyAnswer(n, q, k) PROVE EarlyOut(n, q, To(S, k))
  <2>1. To(S, k) \in [Peers -> Seq(AnyMessage)] /\ \A b \in Peers : Members(To(S, k)[b]) \subseteq {k}
    BY ToSent, ToMembers
  <2> QED BY <1>2, <2>1 DEF EarlyOut
<1>3. ASSUME NEW f, NEW g, EarlyOut(n, q, f), EarlyOut(n, q, g) PROVE EarlyOut(n, q, Then(f, g))
  <2>1. f \in [Peers -> Seq(AnyMessage)] /\ g \in [Peers -> Seq(AnyMessage)]
    BY <1>3 DEF EarlyOut
  <2>2. Then(f, g) \in [Peers -> Seq(AnyMessage)]
    BY <2>1, ThenSent
  <2>3. ASSUME NEW b \in Peers, NEW m \in Members(Then(f, g)[b]) PROVE EarlyAnswer(n, q, m)
    <3>1. Then(f, g)[b] = f[b] \o g[b] /\ f[b] \in Seq(AnyMessage) /\ g[b] \in Seq(AnyMessage)
      BY <2>1 DEF Then
    <3>2. m \in Members(f[b]) \cup Members(g[b])
      BY <3>1, SeqMembers
    <3> QED BY <1>3, <3>2 DEF EarlyOut
  <2> QED BY <2>2, <2>3 DEF EarlyOut
<1> QED BY <1>1, <1>2, <1>3

\* A step of a node that closes no round.
EarlyStep(n, q) ==
    /\ UNCHANGED <<groupVars, randomValue, replies, aborted>>
    /\ \A k \in Nodes : busy[k] => busy'[k] /\ client_request'[k] = client_request[k]
    /\ \E out : EarlyOut(n, q, out) /\ Handle(n, q, out)
    /\ \/ verified_message' = verified_message
       \/ verified_message' = [verified_message EXCEPT ![n] = NoAnswer]
       \/ /\ Head(net[q][n]).type = "MsgPrimaryVerified"
          /\ verified_message' =
                [verified_message EXCEPT ![n][Head(net[q][n]).verified] = @ + 1]

\* A node step that leaves the key alone closes no round, and sends only such messages.
LEMMA NodeEarly ==
  ASSUME Ground, AllEarly, groupKey' = groupKey, NEW n \in Nodes, NEW q \in Peers, Node(n, q)
  PROVE  net[q][n] # <<>> /\ EarlyStep(n, q)
<1> DEFINE m == Head(net[q][n])
<1>1. net[q][n] # <<>>
  BY DEF Node, group_request_handler, primary_consensus_handler, primary_verified_handler,
     preprepare_handler, prepare_handler, send_reply_handler, ack_handler,
     process_next_request, Arrives
<1>2. /\ m \in AnyMessage /\ m \in Members(net[q][n]) /\ n \in Peers
      /\ m.type \notin {"MsgGroup", "MsgAck"} => m \in NodeMessage /\ q \in Nodes
      /\ m.type \in {"MsgGroup", "MsgAck"} => m \in ClientMessage /\ q \in Clients
  BY <1>1, NodeHead
<1>3. /\ TypeOK /\ NodeTypes /\ orderNumber \in Nat /\ groupKey \in Nat
      /\ requestQueue[n] \in Seq(Entry) /\ client_request[n] \in Texts
      /\ busy \in [Nodes -> BOOLEAN] /\ client_request \in [Nodes -> Texts]
      /\ verified_message \in [Nodes -> [BOOLEAN -> Nat]]
  BY TypeParts DEF Ground, TypeOK
<1>4. Early(m, q)
  BY <1>2 DEF AllEarly
<1>5. ~CloseRound(n, q)
  <2>1. CloseRound(n, q) => groupKey' = groupKey + 1
    BY DEF CloseRound, changeGroupKey
  <2> QED BY <1>3, <2>1
<1>6. ASSUME NEW k \in AnyMessage, k.type \in {"MsgSend", "MsgReply", "MsgPrepare", "MsgPreprepare"}
      PROVE  EarlyAnswer(n, q, k)
  BY <1>6 DEF EarlyAnswer
<1>7. CASE group_request_handler(n, q)
  <2> DEFINE queue == Enqueue(requestQueue[n], [client |-> q, message |-> m.message])
             k == [type |-> "MsgPrimaryConsensus", order |-> orderNumber + 1,
                   signature |-> Sign(n, orderNumber + 1, Head(queue).message)]
             S == Members(primaryGroup') \ {n}
  <2>1. /\ m.type = "MsgGroup"
        /\ UNCHANGED <<verified_message, groupVars, randomValue, replies, aborted>>
        /\ \/ busy[n] /\ Handle(n, q, Nothing) /\ UNCHANGED <<busy, client_request>>
           \/ ~busy[n] /\ Process(n, queue, Empty) /\ Handle(n, q, Proposal(n, queue))
    BY <1>7 DEF group_request_handler, Arrives, clientVars
  <2>2. m.message \in Requests /\ q \in Clients
    BY <1>2, <2>1, ClientMessageFields
  <2>3. queue \in Seq(Entry)
    BY <1>3, <2>2, EnqueuedTypes
  <2>4. CASE busy[n] /\ Handle(n, q, Nothing) /\ UNCHANGED <<busy, client_request>>
    BY <1>1, <2>1, <2>4, EarlySends DEF EarlyStep
  <2>5. CASE ~busy[n] /\ Process(n, queue, Empty) /\ Handle(n, q, Proposal(n, queue))
    <3> HIDE DEF queue
    <3>1. /\ busy' = [busy EXCEPT ![n] = queue # <<>>]
          /\ client_request' =
                [client_request EXCEPT ![n] = IF queue = <<>> THEN Empty ELSE Head(queue).message]
      BY <2>5 DEF Process
    <3>2. \A j \in Nodes : busy[j] => busy'[j] /\ client_request'[j] = client_request[j]
      BY <1>3, <2>5, <3>1
    <3>3. EarlyOut(n, q, Proposal(n, queue))
      <4>1. CASE queue # <<>> /\ primaryGroup'[randomValue'] = n
        <5>1. Proposal(n, queue) = To(S, k)
          BY <4>1 DEF Proposal
        <5>2. Head(queue) \in Entry
          BY <2>3, <4>1
        <5>3. Sign(n, orderNumber + 1, Head(queue).message) \in PeerSignature
          BY <1>3, <5>2, PeerSigned DEF Entry, Texts
        <5>4. k \in AnyMessage
          BY <1>3, <5>3 DEF AnyMessage, NodeMessage
        <5>5. busy'[n] /\ client_request'[n] = Head(queue).message
          BY <1>3, <3>1, <4>1
        <5>6. EarlyAnswer(n, q, k)
          BY <5>5 DEF EarlyAnswer
        <5> HIDE DEF k, S
        <5> QED BY <5>1, <5>4, <5>6, EarlySends
      <4>2. CASE ~(queue # <<>> /\ primaryGroup'[randomValue'] = n)
        BY <4>2, EarlySends DEF Proposal
      <4> QED BY <4>1, <4>2
    <3> QED BY <1>1, <2>1, <2>5, <3>2, <3>3 DEF EarlyStep
  <2> QED BY <2>1, <2>4, <2>5
<1>8. CASE primary_consensus_handler(n, q)
  <2> DEFINE k == [type |-> "MsgPrimaryVerified",
                   verified |-> VerifySignature(m.order, client_request[n], m.signature, q)]
  <2>1. /\ Handle(n, q, To({q}, k)) /\ m.type = "MsgPrimaryConsensus"
        /\ UNCHANGED <<verified_message, groupVars, randomValue, replies, aborted, busy, client_request>>
    BY <1>8 DEF primary_consensus_handler, Arrives, nodeVars, clientVars
  <2>2. k \in AnyMessage /\ k.type = "MsgPrimaryVerified"
    BY DEF AnyMessage, NodeMessage, VerifySignature
  <2>3. q \in Nodes /\ (client_request[n] = client_request[q] => k.verified)
    BY <1>2, <1>4, <2>1 DEF Early, VerifySignature
  <2> HIDE DEF k
  <2>4. EarlyAnswer(n, q, k)
    BY <2>2, <2>3 DEF EarlyAnswer
  <2> QED BY <1>1, <2>1, <2>2, <2>4, EarlySends DEF EarlyStep
<1>9. CASE primary_verified_handler(n, q)
  <2> DEFINE k == [type |-> "MsgPreprepare", order |-> orderNumber,
                   signature |-> Sign(groupKey, orderNumber, client_request[n])]
             S == Members(consensusGroup) \ Members(primaryGroup)
  <2>1. /\ m.type = "MsgPrimaryVerified"
        /\ UNCHANGED <<randomValue, replies>>
        /\ UNCHANGED <<nodeVars, groupVars, aborted>> \/ CloseRound(n, q)
        /\ \/ /\ Handle(n, q, To(S, k))
              /\ verified_message' = [verified_message EXCEPT ![n] = NoAnswer]
           \/ /\ Handle(n, q, Nothing)
              /\ verified_message' =
                    [verified_message EXCEPT ![n] = [verified_message[n] EXCEPT ![m.verified] = @ + 1]]
           \/ CloseRound(n, q)
    BY <1>9 DEF primary_verified_handler, Arrives, clientVars
  <2>2. /\ k \in AnyMessage /\ k.type = "MsgPreprepare"
    BY <1>3, GroupSigned DEF AnyMessage, NodeMessage
  <2> HIDE DEF k, S
  <2>3. EarlyOut(n, q, To(S, k)) /\ EarlyOut(n, q, Nothing)
    BY <1>6, <2>2, EarlySends
  <2>4. UNCHANGED <<busy, client_request, groupVars, aborted>>
    BY <1>5, <2>1 DEF nodeVars
  <2>5. [verified_message EXCEPT ![n] = [verified_message[n] EXCEPT ![m.verified] = @ + 1]]
          = [verified_message EXCEPT ![n][m.verified] = @ + 1]
    OBVIOUS
  <2> QED BY <1>1, <1>5, <2>1, <2>3, <2>4, <2>5 DEF EarlyStep
<1>10. CASE preprepare_handler(n, q)
  <2> DEFINE k == [type |-> "MsgPrepare", order |-> m.order, groupSign |-> m.signature,
                   peerSign |-> Sign(n, m.order, client_request[n])]
             S == Members(consensusGroup) \ {n}
  <2>1. /\ m.type = "MsgPreprepare" /\ (Handle(n, q, To(S, k)) \/ Handle(n, q, Nothing))
        /\ UNCHANGED <<verified_message, groupVars, randomValue, replies, aborted, busy, client_request>>
    BY <1>10 DEF preprepare_handler, Arrives, nodeVars, clientVars
  <2>2. m.order \in Nat /\ m.signature \in GroupSignature
    BY <1>2, <2>1, NodeMessageFields
  <2>3. k \in AnyMessage /\ k.type = "MsgPrepare"
    BY <1>3, <2>2, PeerSigned DEF AnyMessage, NodeMessage
  <2> HIDE DEF k, S
  <2>4. EarlyOut(n, q, To(S, k)) /\ EarlyOut(n, q, Nothing)
    BY <1>6, <2>3, EarlySends
  <2> QED BY <1>1, <2>1, <2>4 DEF EarlyStep
<1>11. CASE prepare_handler(n, q)
  <2> DEFINE k == [type |-> "MsgSend", sendReply |-> TRUE, order |-> m.order]
             r == [type |-> "MsgReply", result |-> TRUE, order |-> m.order]
             S == Members(consensusGroup) \ {n}
             C == {client_id[n]}
  <2>1. /\ m.type = "MsgPrepare"
        /\ UNCHANGED <<verified_message, randomValue, replies>>
        /\ UNCHANGED <<nodeVars, groupVars, aborted>> \/ CloseRound(n, q)
        /\ \/ Handle(n, q, Then(To(S, k), To(C, r)))
           \/ Handle(n, q, Nothing)
           \/ CloseRound(n, q)
    BY <1>11 DEF prepare_handler, Arrives, clientVars, Reply
  <2>2. m.order \in Nat
    BY <1>2, <2>1, NodeMessageFields
  <2>3. k \in AnyMessage /\ r \in AnyMessage /\ k.type = "MsgSend" /\ r.type = "MsgReply"
    BY <2>2 DEF AnyMessage, NodeMessage
  <2> HIDE DEF k, r, S, C
  <2>4. EarlyOut(n, q, To(S, k)) /\ EarlyOut(n, q, To(C, r)) /\ EarlyOut(n, q, Nothing)
    BY <1>6, <2>3, EarlySends
  <2>5. EarlyOut(n, q, Then(To(S, k), To(C, r)))
    BY <2>4, EarlySends
  <2>6. UNCHANGED <<busy, client_request, groupVars, aborted>>
    BY <1>5, <2>1 DEF nodeVars
  <2> QED BY <1>1, <1>5, <2>1, <2>4, <2>5, <2>6 DEF EarlyStep
<1>12. CASE send_reply_handler(n, q)
  <2> DEFINE r == [type |-> "MsgReply", result |-> m.sendReply, order |-> m.order]
             C == {client_id[n]}
  <2>1. /\ m.type = "MsgSend" /\ Handle(n, q, To(C, r))
        /\ UNCHANGED <<verified_message, groupVars, randomValue, replies, aborted, busy, client_request>>
    BY <1>12 DEF send_reply_handler, Arrives, nodeVars, clientVars, Reply
  <2>2. m.order \in Nat /\ m.sendReply \in BOOLEAN
    BY <1>2, <2>1, NodeMessageFields
  <2>3. r \in AnyMessage /\ r.type = "MsgReply"
    BY <2>2 DEF AnyMessage, NodeMessage
  <2> HIDE DEF r, C
  <2>4. EarlyOut(n, q, To(C, r))
    BY <1>6, <2>3, EarlySends
  <2> QED BY <1>1, <2>1, <2>4 DEF EarlyStep
<1>13. CASE ack_handler(n, q)
  BY <1>5, <1>13 DEF ack_handler
<1>14. CASE process_next_request(n, q)
  BY <1>4, <1>14 DEF process_next_request, Arrives, Early
<1> QED BY <1>7, <1>8, <1>9, <1>10, <1>11, <1>12, <1>13, <1>14 DEF Node

\* Where all nodes hold the request and nobody has denied it.
Frozen ==
    /\ groupKey = 1
    /\ \A n \in Nodes : busy[n]
    /\ \A m, n \in Nodes : client_request[m] = client_request[n]
    /\ verified_message[Lead][FALSE] = 0
    /\ \A p, q \in Peers : \A m \in Members(net[p][q]) : m.type = "MsgPrimaryVerified" => m.verified

\* A step closes one round at most.
LEMMA KeyGrows ==
  ASSUME [Next]_vars PROVE groupKey' = groupKey \/ groupKey' = groupKey + 1
<1>1. ASSUME NEW n \in Nodes, NEW q \in Peers, Node(n, q)
      PROVE  groupKey' = groupKey \/ groupKey' = groupKey + 1
  BY <1>1 DEF Node, group_request_handler, primary_consensus_handler, primary_verified_handler,
     preprepare_handler, prepare_handler, send_reply_handler, ack_handler,
     process_next_request, CloseRound, changeGroupKey
<1>2. ASSUME NEW t \in Threads, multicast(t) PROVE groupKey' = groupKey
  BY <1>2 DEF multicast
<1>3. ASSUME NEW c \in Clients, NEW q \in Nodes, reply_handler(c, q) PROVE groupKey' = groupKey
  BY <1>3 DEF reply_handler
<1> QED BY <1>1, <1>2, <1>3 DEF Next, vars

\* What the client multicasts are requests.
LEMMA MulticastMembers ==
  ASSUME TypeOK, Tidy, NEW t \in Threads, multicast(t), NEW a \in Peers, NEW b \in Peers,
         NEW m \in Members(net'[a][b])
  PROVE  m \in Members(net[a][b]) \/ m.type = "MsgGroup"
<1>1. CASE net'[a][b] = net[a][b]
  BY <1>1
<1>2. ASSUME NEW k \in AnyMessage, k.type = "MsgGroup", net'[a][b] = Append(net[a][b], k)
      PROVE  m \in Members(net[a][b]) \/ m.type = "MsgGroup"
  <2>1. net[a][b] \in Seq(AnyMessage) /\ <<k>> \in Seq(AnyMessage)
    BY ChannelsTyped DEF OnlyMessages
  <2>2. Append(net[a][b], k) = net[a][b] \o <<k>>
    BY <2>1
  <2>3. m \in Members(net[a][b]) \cup Members(<<k>>)
    BY <1>2, <2>1, <2>2, SeqMembers
  <2>4. Members(<<k>>) = {k}
    BY DEF Members
  <2> QED BY <1>2, <2>3, <2>4
<1> QED BY <1>1, <1>2, MulticastRest

\* While the client waits for more replies than a round has, counting one
\* sends nothing of interest.
LEMMA ReplyMembers ==
  ASSUME Starved, Ground, Ground', Live, AllEarly, NEW c \in Clients, NEW q \in Nodes,
         reply_handler(c, q), NEW a \in Peers, NEW b \in Peers, NEW m \in Members(net'[a][b])
  PROVE  \/ m \in Members(net[a][b])
         \/ m.type \notin {"MsgNextRequest", "MsgAck", "MsgPrimaryConsensus", "MsgPrimaryVerified"}
<1>1. /\ net[q][c] # <<>> /\ c = client /\ UNCHANGED groupKey
      /\ \E out \in [Peers -> Seq(AnyMessage)] : Plain(out) /\ Handle(c, q, out)
      /\ ReplyCounted(c)
  BY ReplyCounts DEF Live
<1>2. c \in Peers /\ q \in Peers /\ net \in Channels(NodeMessage, ClientMessage)
  BY DEF Peers, Ground, TypeOK
<1>3. Numbers /\ Numbers'
  BY InNumbers, InNumbersNext
<1>4. Count(net', Acks) = 0
  <2>1. Count(net, Acks) = 0
    <3>1. ASSUME NEW p \in Peers, NEW r \in Peers, NEW k \in Members(net[p][r]) PROVE k \notin Acks
      BY DEF AllEarly, Early, Acks, OfType
    <3> QED BY <3>1, CountNone
  <2>2. ~(replies[client][TRUE] + 1 >= ReplyQuorum)
    <3>1. Count(net, Results) \in Nat /\ Count(net', Results) \in Nat /\ replies[client][TRUE] \in Nat
      BY <1>3 DEF Numbers
    <3>2. Count(net', Results) = Count(net, Results) - 1
      BY <1>1 DEF ReplyCounted
    <3>3. ConsensusSize \in Nat /\ ReplyQuorum \in Nat /\ ConsensusSize < ReplyQuorum
      BY Sizes DEF Starved
    <3>4. Replied = Count(net, Results) + replies[client][TRUE]
      <4>1. ConsensusSize * 0 = 0
        BY <3>3
      <4>2. Replied = (Count(net, Results) + replies[client][TRUE]) + 0
        BY <2>1, <4>1 DEF Replied
      <4>3. \A x, y \in Nat : (x + y) + 0 = x + y
        OBVIOUS
      <4> QED BY <3>1, <4>2, <4>3, Zenon
    <3>5. Replied <= ConsensusSize
      <4>1. Replied \in Nat /\ (Replied = 0 \/ Replied <= ConsensusSize)
        BY <1>3 DEF Live, Phase, PhaseOf, Numbers
      <4> QED BY <3>3, <4>1
    <3> DEFINE x == Count(net, Results)
               y == replies[client][TRUE]
               z == Count(net', Results)
    <3>6. x \in Nat /\ z \in Nat /\ y \in Nat /\ z = x - 1 /\ x + y <= ConsensusSize
      BY <3>1, <3>2, <3>4, <3>5
    <3> HIDE DEF x, y, z
    <3>7. ~(y + 1 >= ReplyQuorum)
      BY <3>3, <3>6
    <3> QED BY <3>7 DEF y
  <2>3. Count(net', Acks) = Count(net, Acks)
    BY <1>1, <2>2 DEF ReplyCounted
  <2> QED BY <2>1, <2>3
<1>5. m \notin Acks
  <2>1. IsFiniteSet(Spots(net', All, Acks))
    <3>1. IsFiniteSet(Spots(net', All, Rest))
      BY DEF Ground, Tidy
    <3> QED BY <3>1, Counts
  <2>2. net'[a][b] \in Seq(AnyMessage)
    <3>1. OnlyMessages'
      BY ChannelsTypedNext DEF Ground
    <3> QED BY <3>1 DEF OnlyMessages
  <2> QED BY <1>4, <2>1, <2>2, NoneCounted
<1>6. PICK out \in [Peers -> Seq(AnyMessage)] : Plain(out) /\ Handle(c, q, out)
  BY <1>1
<1>7. m \in Members(net[a][b]) \/ (a = c /\ m \in Members(out[b]))
  BY <1>1, <1>2, <1>6, HandleMembers DEF AnyMessage
<1>8. ASSUME m \in Members(out[b]) PROVE m \in AnyMessage
  <2>1. out[b] \in Seq(AnyMessage)
    BY <1>6
  <2> QED BY <1>8, <2>1 DEF Members
<1> QED BY <1>5, <1>6, <1>7, <1>8 DEF Plain, Acks, OfType, AnyMessage

\* What was early stays so while every node sticks to its request.
LEMMA StaysEarly ==
  ASSUME Ground, AllEarly,
         \A k \in Nodes : busy[k] => busy'[k] /\ client_request'[k] = client_request[k],
         NEW a \in Peers, NEW b \in Peers, NEW m \in Members(net[a][b])
  PROVE  Early(m, a)'
<1>1. Early(m, a)
  BY DEF AllEarly
<1>2. CASE a \in Nodes
  BY <1>1, <1>2 DEF Early
<1>3. CASE a \in Clients
  <2>1. net[a][b] \in Seq(ClientMessage)
    BY <1>3 DEF Ground, TypeOK, Channels
  <2>2. m \in ClientMessage
    BY <2>1 DEF Members
  <2>3. m.type # "MsgPrimaryConsensus"
    BY <2>2, ClientMessageFields
  <2> QED BY <1>1, <2>3 DEF Early
<1> QED BY <1>2, <1>3 DEF Peers

\* The first round stays early until it is closed.
LEMMA FirstNext ==
  ASSUME Starved, Ground, Ground', FirstInv, [Next]_vars PROVE FirstInv'
<1>1. groupKey \in Nat /\ groupKey >= 1 /\ (groupKey' = groupKey \/ groupKey' = groupKey + 1)
  BY KeyGrows DEF Ground, TypeOK, FirstInv
<1>2. groupKey' >= 1
  BY <1>1
<1>3. ASSUME groupKey' = 1 PROVE LockInv' /\ ~aborted' /\ AllEarly'
  <2>1. groupKey = 1 /\ groupKey' = groupKey
    BY <1>1, <1>3
  <2>2. LockInv /\ Live /\ ~aborted /\ AllEarly /\ TypeOK /\ Tidy /\ net \in Channels(NodeMessage, ClientMessage)
    BY <2>1 DEF FirstInv, LockInv, Ground, TypeOK
  <2>3. ClosesFirst
    <3>1. ASSUME NEW p \in Nodes, NEW n \in Nodes PROVE ~Closing(p, n)
      <4>1. p \in Peers /\ n \in Peers
        BY DEF Peers
      <4>2. \A m \in Members(net[p][n]) : m.type # "MsgNextRequest"
        BY <2>2, <4>1 DEF AllEarly, Early
      <4> QED BY <4>2 DEF Closing, Members
    <3> QED BY <3>1 DEF ClosesFirst
  <2>4. LockInv'
    <3>1. OneQuorum /\ [Next /\ ClosesFirst]_vars
      BY <2>3, StarvedSizes
    <3> QED BY <2>2, <3>1, LockNext
  <2>5. ASSUME NEW n \in Nodes, NEW q \in Peers, Node(n, q) PROVE ~aborted' /\ AllEarly'
    <3>1. net[q][n] # <<>> /\ EarlyStep(n, q)
      BY <2>1, <2>2, <2>5, NodeEarly
    <3>2. PICK out : EarlyOut(n, q, out) /\ Handle(n, q, out)
      BY <3>1 DEF EarlyStep
    <3>3. n \in Peers /\ out \in [Peers -> Seq(AnyMessage)]
      BY <3>2 DEF Peers, EarlyOut
    <3>4. ASSUME NEW a \in Peers, NEW b \in Peers, NEW m \in Members(net'[a][b]) PROVE Early(m, a)'
      <4>1. m \in Members(net[a][b]) \/ (a = n /\ m \in Members(out[b]))
        BY <2>2, <3>1, <3>2, <3>3, HandleMembers DEF AnyMessage
      <4>2. CASE m \in Members(net[a][b])
        <5>1. \A k \in Nodes : busy[k] => busy'[k] /\ client_request'[k] = client_request[k]
          BY <3>1 DEF EarlyStep
        <5> QED BY <2>2, <4>2, <5>1, StaysEarly
      <4>3. CASE a = n /\ m \in Members(out[b])
        <5>1. EarlyAnswer(n, q, m)
          BY <3>2, <4>3 DEF EarlyOut
        <5> QED BY <4>3, <5>1 DEF EarlyAnswer, Early
      <4> QED BY <4>1, <4>2, <4>3
    <3>5. ~aborted'
      BY <2>2, <3>1 DEF EarlyStep
    <3> QED BY <3>4, <3>5 DEF AllEarly
  <2>6. ASSUME NEW t \in Threads, multicast(t) PROVE ~aborted' /\ AllEarly'
    <3>1. UNCHANGED <<busy, client_request, aborted>>
      BY <2>6 DEF multicast, nodeVars
    <3>2. ASSUME NEW a \in Peers, NEW b \in Peers, NEW m \in Members(net'[a][b]) PROVE Early(m, a)'
      <4>1. m \in Members(net[a][b]) \/ m.type = "MsgGroup"
        BY <2>2, <2>6, MulticastMembers
      <4>2. CASE m \in Members(net[a][b])
        BY <2>2, <3>1, <4>2, StaysEarly
      <4> QED BY <4>1, <4>2 DEF Early
    <3> QED BY <2>2, <3>1, <3>2 DEF AllEarly
  <2>7. ASSUME NEW c \in Clients, NEW q \in Nodes, reply_handler(c, q) PROVE ~aborted' /\ AllEarly'
    <3>1. UNCHANGED <<busy, client_request, aborted>>
      BY <2>7 DEF reply_handler, nodeVars
    <3>2. ASSUME NEW a \in Peers, NEW b \in Peers, NEW m \in Members(net'[a][b]) PROVE Early(m, a)'
      <4>1. \/ m \in Members(net[a][b])
            \/ m.type \notin {"MsgNextRequest", "MsgAck", "MsgPrimaryConsensus", "MsgPrimaryVerified"}
        BY <2>2, <2>7, ReplyMembers
      <4>2. CASE m \in Members(net[a][b])
        BY <2>2, <3>1, <4>2, StaysEarly
      <4> QED BY <4>1, <4>2 DEF Early
    <3> QED BY <2>2, <3>1, <3>2 DEF AllEarly
  <2>8. CASE UNCHANGED vars
    BY <2>2, <2>4, <2>8 DEF AllEarly, Early, vars, nodeVars
  <2>9. CASE Next
    BY <2>4, <2>5, <2>6, <2>7, <2>9 DEF Next
  <2> QED BY <2>4, <2>8, <2>9
<1> QED BY <1>2, <1>3 DEF FirstInv

\* Nothing is on the channels at first.
LEMMA FirstInit == ASSUME Starved, Init, Ground PROVE FirstInv
<1>1. ASSUME NEW p \in Peers, NEW q \in Peers PROVE Members(net[p][q]) = {}
  BY DEF Init, Members
<1>2. AllEarly
  BY <1>1 DEF AllEarly
<1>3. groupKey = 1 /\ ~aborted
  BY DEF Init
<1> QED BY <1>2, <1>3, LockInit, StarvedSizes DEF FirstInv

\* One more yes leaves the noes alone.
LEMMA YesCounted ==
  ASSUME NEW t \in [BOOLEAN -> Nat], NEW b, b = TRUE
  PROVE  LET u == [t EXCEPT ![b] = @ + 1] IN u[FALSE] = t[FALSE] /\ u[TRUE] = t[TRUE] + 1
<1>1. TRUE \in BOOLEAN /\ FALSE \in BOOLEAN /\ TRUE # FALSE
  OBVIOUS
<1>2. ASSUME NEW x \in BOOLEAN
      PROVE  [t EXCEPT ![b] = @ + 1][x] = IF x = b THEN t[b] + 1 ELSE t[x]
  BY Zenon
<1> QED BY <1>1, <1>2, Zenon

\* Nobody denies the request of a frozen round, so nobody closes it.
LEMMA FrozenKey ==
  ASSUME Starved, Ground, FirstInv, Frozen, NEW n \in Nodes, NEW q \in Peers, Node(n, q)
  PROVE  groupKey' = groupKey
<1> DEFINE m == Head(net[q][n])
<1>1. /\ Live /\ AllEarly /\ Numbers
  BY InNumbers DEF FirstInv, Frozen, LockInv
<1>2. CASE primary_verified_handler(n, q)
  <2> DEFINE answers == [verified_message[n] EXCEPT ![m.verified] = @ + 1]
             judged == AllAnswered(answers)
             verifyTrue == IF judged THEN answers[TRUE] ELSE 0
             verifyFalse == IF judged THEN answers[FALSE] ELSE 0
             accepted == verifyTrue >= verifyFalse /\ verifyTrue # 0
             rejected == ~accepted /\ \/ verifyFalse = Len(primaryGroup) - 1
                                      \/ verifyFalse > verifyTrue
  <2>1. rejected \/ UNCHANGED groupKey
    BY <1>2 DEF primary_verified_handler
  <2>2. net[q][n] # <<>> /\ m.type = "MsgPrimaryVerified"
    BY <1>2 DEF primary_verified_handler, Arrives
  <2>3. /\ n = Lead /\ Len(primaryGroup) = PrimarySize /\ Asking > 0 /\ Asking <= PrimarySize - 1
        /\ m \in Members(net[q][n]) /\ n \in Peers
    BY <1>1, <2>2, AnswerArrives, NodeHead
  <2>4. m.verified
    BY <2>2, <2>3 DEF Frozen
  <2>5. m.verified = TRUE
    BY <1>1, <2>2, <2>4, AnswerArrives
  <2>6. verified_message[n] \in [BOOLEAN -> Nat] /\ verified_message[n][FALSE] = 0
    BY <2>3 DEF Frozen, Ground, TypeOK
  <2>7. answers[FALSE] = 0 /\ answers[TRUE] \in Nat
    <3>1. answers[FALSE] = verified_message[n][FALSE] /\ answers[TRUE] = verified_message[n][TRUE] + 1
      BY <2>5, <2>6, YesCounted
    <3>2. verified_message[n][TRUE] \in Nat
      BY <2>6, TRUE \in BOOLEAN
    <3> DEFINE yes == verified_message[n][TRUE]
               sum == answers[TRUE]
    <3>3. answers[FALSE] = 0
      BY <2>6, <3>1, Zenon
    <3>4. yes \in Nat /\ sum = yes + 1
      BY <3>1, <3>2
    <3> HIDE DEF answers, yes, sum
    <3>5. sum \in Nat
      BY <3>4
    <3> QED BY <3>3, <3>5 DEF sum
  <2>8. PrimarySize - 1 >= 1
    BY <1>1, <2>3, Sizes DEF Numbers
  <2> HIDE DEF answers, judged
  <2>9. verifyFalse = 0 /\ verifyTrue \in Nat
    BY <2>7
  <2> HIDE DEF verifyFalse, verifyTrue
  <2>10. ~(verifyFalse = Len(primaryGroup) - 1) /\ ~(verifyFalse > verifyTrue)
    BY <2>3, <2>8, <2>9
  <2> QED BY <2>1, <2>10
<1>3. CASE prepare_handler(n, q)
  <2> DEFINE prepared == Prepared(n, q, m)
  <2>1. \/ UNCHANGED groupKey
        \/ ~QuorumReached(prepared) /\ prepared = MaxPrepared
    BY <1>3 DEF prepare_handler
  <2>2. QuorumReached(MaxPrepared)
    BY Sizes DEF QuorumReached, Starved
  <2> HIDE DEF prepared
  <2> QED BY <2>1, <2>2
<1>4. ~ack_handler(n, q)
  <2>1. ack_handler(n, q) => net[q][n] # <<>> /\ m.type = "MsgAck"
    BY DEF ack_handler, Arrives
  <2>2. net[q][n] # <<>> => m \in Members(net[q][n]) /\ n \in Peers
    BY NodeHead
  <2> QED BY <1>1, <2>1, <2>2 DEF AllEarly, Early
<1> QED BY <1>2, <1>3, <1>4
        DEF Node, group_request_handler, primary_consensus_handler, preprepare_handler,
            send_reply_handler, process_next_request

\* Once frozen, the first round is never closed.
LEMMA FrozenNext ==
  ASSUME Starved, Ground, Ground', FirstInv, Frozen, [Next]_vars PROVE Frozen'
<1>1. /\ LockInv /\ Live /\ ~aborted /\ AllEarly /\ groupKey = 1 /\ TypeOK /\ Tidy /\ Numbers
      /\ net \in Channels(NodeMessage, ClientMessage)
      /\ verified_message \in [Nodes -> [BOOLEAN -> Nat]]
  BY InNumbers DEF FirstInv, Frozen, LockInv, Ground, TypeOK
<1>2. ASSUME NEW n \in Nodes, NEW q \in Peers, Node(n, q) PROVE Frozen'
  <2> DEFINE m == Head(net[q][n])
  <2>1. groupKey' = groupKey
    BY <1>2, FrozenKey
  <2>2. net[q][n] # <<>> /\ EarlyStep(n, q)
    BY <1>1, <1>2, <2>1, NodeEarly
  <2>3. m \in Members(net[q][n]) /\ n \in Peers /\ m \in AnyMessage
    BY <2>2, NodeHead
  <2>4. Lead' = Lead
    BY <2>2 DEF EarlyStep, Lead, groupVars
  <2>5. verified_message'[Lead][FALSE] = 0
    <3>1. CASE verified_message' = verified_message
      BY <3>1 DEF Frozen
    <3>2. CASE verified_message' = [verified_message EXCEPT ![n] = NoAnswer]
      <4>1. verified_message'[Lead] = IF Lead = n THEN NoAnswer ELSE verified_message[Lead]
        BY <1>1, <3>2 DEF Numbers
      <4>2. NoAnswer[FALSE] = 0
        BY DEF NoAnswer
      <4> QED BY <4>1, <4>2 DEF Frozen
    <3>3. CASE /\ m.type = "MsgPrimaryVerified"
               /\ verified_message' = [verified_message EXCEPT ![n][m.verified] = @ + 1]
      <4>1. n = Lead /\ m.verified \in BOOLEAN
        BY <1>1, <2>2, <3>3, AnswerArrives
      <4>2. m.verified
        BY <2>3, <3>3 DEF Frozen
      <4>3. m.verified = TRUE
        BY <4>1, <4>2
      <4>4. verified_message[n] \in [BOOLEAN -> Nat] /\ verified_message[n][FALSE] = 0
        BY <1>1, <4>1 DEF Frozen
      <4>5. verified_message'[n] = [verified_message[n] EXCEPT ![m.verified] = @ + 1]
        BY <1>1, <3>3
      <4>6. verified_message'[n][FALSE] = verified_message[n][FALSE]
        BY <4>3, <4>4, <4>5, YesCounted
      <4> QED BY <4>1, <4>4, <4>6
    <3>4. \/ verified_message' = verified_message
          \/ verified_message' = [verified_message EXCEPT ![n] = NoAnswer]
          \/ /\ m.type = "MsgPrimaryVerified"
             /\ verified_message' = [verified_message EXCEPT ![n][m.verified] = @ + 1]
      BY <2>2, Zenon DEF EarlyStep
    <3> HIDE DEF m
    <3> QED BY <3>1, <3>2, <3>3, <3>4, Zenon
  <2>6. PICK out : EarlyOut(n, q, out) /\ Handle(n, q, out)
    BY <2>2 DEF EarlyStep
  <2>7. out \in [Peers -> Seq(AnyMessage)]
    BY <2>6 DEF EarlyOut
  <2>8. ASSUME NEW a \in Peers, NEW b \in Peers, NEW k \in Members(net'[a][b]),
               k.type = "MsgPrimaryVerified"
        PROVE  k.verified
    <3>1. k \in Members(net[a][b]) \/ (a = n /\ k \in Members(out[b]))
      BY <1>1, <2>2, <2>3, <2>6, <2>7, HandleMembers DEF AnyMessage
    <3>2. CASE k \in Members(net[a][b])
      BY <2>8, <3>2 DEF Frozen
    <3>3. CASE k \in Members(out[b])
      <4>1. EarlyAnswer(n, q, k)
        BY <2>6, <3>3 DEF EarlyOut
      <4> QED BY <2>8, <4>1 DEF EarlyAnswer, Frozen
    <3> QED BY <3>1, <3>2, <3>3
  <2>9. \A k \in Nodes : busy'[k] /\ client_request'[k] = client_request[k]
    BY <2>2 DEF EarlyStep, Frozen
  <2>10. \A j, k \in Nodes : client_request'[j] = client_request'[k]
    BY <2>9 DEF Frozen
  <2> QED BY <1>1, <2>1, <2>4, <2>5, <2>8, <2>9, <2>10 DEF Frozen
<1>3. ASSUME NEW t \in Threads, multicast(t) PROVE Frozen'
  <2>1. UNCHANGED <<busy, client_request, verified_message, groupKey, primaryGroup, randomValue>>
    BY <1>3 DEF multicast, nodeVars, groupVars
  <2>2. \A a, b \in Peers : \A m \in Members(net'[a][b]) :
           m \in Members(net[a][b]) \/ m.type = "MsgGroup"
    BY <1>1, <1>3, MulticastMembers
  <2>3. \A a, b \in Peers : \A m \in Members(net'[a][b]) : m.type = "MsgPrimaryVerified" => m.verified
    BY <2>2 DEF Frozen
  <2> QED BY <2>1, <2>3 DEF Frozen, Lead
<1>4. ASSUME NEW c \in Clients, NEW q \in Nodes, reply_handler(c, q) PROVE Frozen'
  <2>1. UNCHANGED <<busy, client_request, verified_message, groupKey, primaryGroup, randomValue>>
    BY <1>4 DEF reply_handler, nodeVars, groupVars
  <2>2. \A a, b \in Peers : \A m \in Members(net'[a][b]) :
           m \in Members(net[a][b]) \/ m.type # "MsgPrimaryVerified"
    BY <1>1, <1>4, ReplyMembers
  <2>3. \A a, b \in Peers : \A m \in Members(net'[a][b]) : m.type = "MsgPrimaryVerified" => m.verified
    BY <2>2 DEF Frozen
  <2> QED BY <2>1, <2>3 DEF Frozen, Lead
<1>5. CASE UNCHANGED vars
  BY <1>5 DEF Frozen, Lead, vars, nodeVars, groupVars
<1> QED BY <1>2, <1>3, <1>4, <1>5 DEF Next

\* In step, every other member of the primary group has a question on its way.
LEMMA AllAsked == ASSUME Ground, InStep PROVE Count(net, PCs) >= PrimarySize - 1
<1> DEFINE S == Spots(net, All, PCs)
           M == Members(primaryGroup) \ {Lead}
           f == [n \in M |-> CHOOSE x \in S : x[2] = n]
           T == {f[n] : n \in M}
<1>1. /\ TypeOK /\ GroupSets /\ Tidy
  BY GroupsAsSets DEF Ground
<1>2. IsFiniteSet(S)
  BY <1>1, Counts DEF Tidy
<1>3. IsFiniteSet(M) /\ Cardinality(M) = PrimarySize - 1
  <2>1. /\ IsFiniteSet(Members(primaryGroup)) /\ Cardinality(Members(primaryGroup)) = PrimarySize
        /\ Lead \in Members(primaryGroup)
    BY <1>1 DEF GroupSets, Lead
  <2> QED BY <2>1, FS_RemoveElement
<1>4. ASSUME NEW n \in M PROVE \E x \in S : x[2] = n
  <2>1. n \in Peers /\ InFlight(n, "MsgPrimaryConsensus") # {}
    BY <1>1 DEF InStep, Lead, GroupSets, Peers
  <2>2. PICK q \in Peers : \E i \in DOMAIN net[q][n] : net[q][n][i].type = "MsgPrimaryConsensus"
    BY <2>1 DEF InFlight
  <2>3. PICK i \in DOMAIN net[q][n] : net[q][n][i].type = "MsgPrimaryConsensus"
    BY <2>2
  <2>4. net[q][n] \in Seq(AnyMessage)
    BY <1>1, <2>1, ChannelsTyped DEF OnlyMessages
  <2>5. i \in Nat /\ net[q][n][i] \in AnyMessage
    BY <2>4, LenProperties, ElementOfSeq
  <2>6. net[q][n][i] \in PCs
    BY <2>3, <2>5 DEF PCs, OfType, AnyMessage
  <2>7. <<q, n, i>> \in S
    BY <2>1, <2>5, <2>6 DEF Spots, All, At
  <2> QED BY <2>7
<1> HIDE DEF S, M
<1>5. ASSUME NEW n \in M PROVE f[n] \in S /\ f[n][2] = n
  <2>1. f[n] = CHOOSE x \in S : x[2] = n
    OBVIOUS
  <2> QED BY <1>4, <2>1
<1>6. f \in [M -> T] /\ \A t \in T : \E n \in M : f[n] = t
  OBVIOUS
<1> HIDE DEF f
<1>7. T \subseteq S /\ \A a, b \in M : f[a] = f[b] => a = b
  BY <1>5
<1> HIDE DEF T
<1>8. IsFiniteSet(T) /\ Cardinality(T) = PrimarySize - 1
  BY <1>3, <1>6, <1>7, SameSize
<1>9. Cardinality(T) <= Cardinality(S)
  BY <1>2, <1>7, FS_Subset
<1>10. Cardinality(S) \in Nat /\ Cardinality(T) \in Nat
  BY <1>2, <1>8, FS_CardinalityType
<1>11. Cardinality(S) >= PrimarySize - 1
  BY <1>8, <1>9, <1>10
<1> QED BY <1>11 DEF Count, S

\* So no answer can be, and the round is frozen.
LEMMA InStepFrozen == ASSUME Ground, FirstInv, groupKey = 1, InStep PROVE Frozen
<1>1. Live /\ Numbers /\ OnlyMessages /\ Tidy
  BY InNumbers, ChannelsTyped DEF FirstInv, LockInv, Ground
<1>2. Count(net, PVs) = 0
  <2>1. /\ Count(net, PCs) \in Nat /\ Count(net, PVs) \in Nat /\ Asking \in Nat
        /\ Asking = Count(net, PCs) + Count(net, PVs) /\ PrimarySize - 1 \in Nat
    BY <1>1, Sizes DEF Numbers, Asking
  <2>2. Asking > 0 => Asking <= PrimarySize - 1
    BY <1>1 DEF Live, Asks, AsksOf
  <2>3. Count(net, PCs) >= PrimarySize - 1
    BY AllAsked
  <2> HIDE DEF Asking
  <2> QED BY <2>1, <2>2, <2>3
<1>3. ASSUME NEW p \in Peers, NEW q \in Peers, NEW m \in Members(net[p][q])
      PROVE  m.type # "MsgPrimaryVerified"
  <2>1. IsFiniteSet(Spots(net, All, PVs))
    BY <1>1, Counts DEF Tidy
  <2>2. net[p][q] \in Seq(AnyMessage)
    BY <1>1 DEF OnlyMessages
  <2>3. m \notin PVs
    BY <1>2, <2>1, <2>2, NoneCounted
  <2>4. m \in AnyMessage
    BY <2>2 DEF Members
  <2> QED BY <2>3, <2>4 DEF PVs, OfType, AnyMessage
<1>4. verified_message[Lead][FALSE] = 0
  BY DEF InStep, Lead, NoAnswer
<1> QED BY <1>3, <1>4 DEF InStep, Frozen

\* With sizes whose rounds have one quorum of prepares but fewer members than
\* the client waits for, the first request blocks the queue of every node for
\* ever once all nodes hold it before any of them answered the proposal,
\* whatever the network does and whatever else the clients send.
THEOREM StarvedStands == Spec => StarvedStandsStill
<1>1. ASSUME Starved PROVE Spec => [](groupKey = 1 /\ InStep => [](\A n \in Nodes : busy[n]))
  <2>1. Init /\ Ground => FirstInv
    BY <1>1, FirstInit
  <2>2. Ground /\ Ground' /\ FirstInv /\ [Next]_vars => FirstInv'
    BY <1>1, FirstNext
  <2>3. Ground /\ FirstInv /\ groupKey = 1 /\ InStep => Frozen
    BY InStepFrozen
  <2>4. Ground /\ Ground' /\ FirstInv /\ Frozen /\ [Next]_vars => Frozen'
    BY <1>1, FrozenNext
  <2>5. Frozen => \A n \in Nodes : busy[n]
    BY DEF Frozen
  <2> QED BY <2>1, <2>2, <2>3, <2>4, <2>5, SpecGround, PTL DEF Spec
<1>2. CASE Starved
  BY <1>1, <1>2 DEF StarvedStandsStill
<1>3. CASE ~Starved
  BY <1>3 DEF StarvedStandsStill
<1> QED BY <1>2, <1>3
=============================================================================
