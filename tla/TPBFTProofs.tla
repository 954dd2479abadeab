---------------------------- MODULE TPBFTProofs ----------------------------
(***************************************************************************)
(* Invariants of TPBFT for every number of nodes, clients and requests and *)
(* every size of the groups and quorums the assumptions allow.             *)
(***************************************************************************)
EXTENDS TPBFT, SequenceTheorems, TLAPS

----------------------------------------------------------------------------
(* What handlers put on the channels.                                      *)

\* A node that sends nothing puts no message on any channel.
LEMMA NothingSent == ASSUME NEW M PROVE Nothing \in [Peers -> Seq(M)]
  BY DEF Nothing

\* Sending one message to some peers puts only that message on channels.
LEMMA ToSent ==
  ASSUME NEW M, NEW m \in M, NEW S
  PROVE  To(S, m) \in [Peers -> Seq(M)]
  BY DEF To

\* Two sends in a row put the messages of both on channels.
LEMMA ThenSent ==
  ASSUME NEW M, NEW f \in [Peers -> Seq(M)], NEW g \in [Peers -> Seq(M)]
  PROVE  Then(f, g) \in [Peers -> Seq(M)]
  BY DEF Then

\* Handling a message leaves on the channels what was there and what is sent.
LEMMA HandleChannels ==
  ASSUME NEW N, NEW C, net \in Channels(N, C),
         NEW n \in Peers, NEW q \in Peers, net[q][n] # <<>>,
         NEW out \in [Peers -> Seq(IF n \in Nodes THEN N ELSE C)], Handle(n, q, out)
  PROVE  net' \in Channels(N, C)
<1> DEFINE after(a, b) == IF a = q /\ b = n THEN Tail(net[a][b])
                          ELSE IF a = n THEN net[a][b] \o out[b]
                          ELSE net[a][b]
<1>1. ASSUME NEW a \in Peers, NEW b \in Peers, NEW M, net[a][b] \in Seq(M),
             a = n => out[b] \in Seq(M)
      PROVE  after(a, b) \in Seq(M)
  <2>1. CASE a = q /\ b = n
    BY <1>1, <2>1
  <2>2. CASE ~(a = q /\ b = n)
    BY <1>1, <2>2
  <2> QED BY <2>1, <2>2
<1> HIDE DEF after
<1>2. ASSUME NEW b \in Peers
      PROVE  /\ \A a \in Nodes : after(a, b) \in Seq(N)
             /\ \A a \in Clients : after(a, b) \in Seq(C)
  <2>1. /\ \A a \in Nodes : a \in Peers /\ net[a][b] \in Seq(N)
        /\ \A a \in Clients : a \in Peers /\ net[a][b] \in Seq(C)
    BY <1>2 DEF Channels, Peers
  <2>2. \A a \in Nodes : a = n => out[b] \in Seq(N)
    BY <1>2
  <2>3. \A a \in Clients : a = n => out[b] \in Seq(C)
    BY <1>2, PeerAssumption
  <2> QED BY <1>1, <1>2, <2>1, <2>2, <2>3
<1>3. \A a \in Peers, b \in Peers : after(a, b) \in Seq(N \cup C)
  <2>1. Seq(N) \subseteq Seq(N \cup C) /\ Seq(C) \subseteq Seq(N \cup C)
    BY SeqMonotonic
  <2> QED BY <1>2, <2>1 DEF Peers
<1>4. net' = [a \in Peers |-> [b \in Peers |-> after(a, b)]]
  BY DEF Handle, after
<1>5. \A a \in Nodes \cup Clients : a \in Peers
  BY DEF Peers
<1> QED BY <1>2, <1>3, <1>4, <1>5 DEF Channels

\* The oldest message of a channel is one its sender may have sent.
LEMMA HeadOnChannel ==
  ASSUME NEW N, NEW C, net \in Channels(N, C), NEW n \in Peers, NEW q \in Peers,
         net[q][n] # <<>>
  PROVE  /\ q \in Nodes => Head(net[q][n]) \in N
         /\ q \in Clients => Head(net[q][n]) \in C
  BY DEF Channels

\* What the messages of a node carry, by their type.
LEMMA NodeMessageFields ==
  ASSUME NEW m \in NodeMessage
  PROVE  /\ m.type # "MsgGroup" /\ m.type # "MsgAck"
         /\ m.type = "MsgPrimaryVerified" => m.verified \in BOOLEAN
         /\ m.type = "MsgPreprepare" => m.order \in Nat /\ m.signature \in GroupSignature
         /\ m.type = "MsgPrepare" => m.order \in Nat
         /\ m.type = "MsgSend" => m.sendReply \in BOOLEAN /\ m.order \in Nat
         /\ m.type = "MsgReply" => m.result \in BOOLEAN
  BY DEF NodeMessage

\* What the messages of a client carry.
LEMMA ClientMessageFields ==
  ASSUME NEW m \in ClientMessage
  PROVE  /\ m.type \in {"MsgGroup", "MsgAck"}
         /\ m.type = "MsgGroup" => m.message \in Requests
  BY DEF ClientMessage

----------------------------------------------------------------------------
(* Groups and the lead.                                                    *)

GroupTypes ==
    /\ ranking \in Rankings
    /\ consensusGroup = SubSeq(ranking, 1, ConsensusSize)
    /\ primaryGroup = SubSeq(consensusGroup, 1, PrimarySize)
    /\ randomValue \in 1..PrimarySize

\* Both groups are lists of nodes, of the configured sizes, and the primary
\* group is the head of the consensus group.
LEMMA GroupsOfRanking ==
  ASSUME NEW r \in Rankings, NEW c, c = SubSeq(r, 1, ConsensusSize),
         NEW p, p = SubSeq(c, 1, PrimarySize)
  PROVE  /\ c \in Seq(Nodes) /\ Len(c) = ConsensusSize
         /\ p \in Seq(Nodes) /\ Len(p) = PrimarySize
         /\ \A i \in 1..PrimarySize : p[i] \in Nodes
         /\ Members(p) \subseteq Nodes /\ Members(c) \subseteq Nodes
<1>1. /\ r \in Seq(Nodes)
      /\ Len(r) >= ConsensusSize
      /\ ConsensusSize \in Nat /\ PrimarySize \in 1..ConsensusSize
  BY SizeAssumption
<1>2. \A i \in 1..ConsensusSize : r[i] \in Nodes
  BY <1>1
<1>3. c \in Seq(Nodes) /\ Len(c) = ConsensusSize
  BY <1>1, <1>2, SubSeqProperties
<1>4. \A i \in 1..PrimarySize : c[i] \in Nodes
  BY <1>1, <1>3
<1>5. p \in Seq(Nodes) /\ Len(p) = PrimarySize
  BY <1>1, <1>4, SubSeqProperties
<1>6. \A i \in 1..PrimarySize : p[i] \in Nodes
  BY <1>1, <1>5
<1>7. ASSUME NEW group \in Seq(Nodes) PROVE Members(group) \subseteq Nodes
  <2>1. \A i \in DOMAIN group : group[i] \in Nodes
    BY LenProperties, ElementOfSeq
  <2> QED BY <2>1 DEF Members
<1> QED BY <1>3, <1>5, <1>6, <1>7

----------------------------------------------------------------------------
(* The messages a round needs before its quorum is reached: none of them   *)
(* answers the client.                                                     *)

RoundMessage ==
    [type : {"MsgPrimaryConsensus"}, order : Nat, signature : PeerSignature]
      \cup [type : {"MsgPrimaryVerified"}, verified : BOOLEAN]
      \cup [type : {"MsgPreprepare"}, order : Nat, signature : GroupSignature]
      \cup [type : {"MsgPrepare"}, order : Nat, groupSign : GroupSignature,
            peerSign : PeerSignature]
      \cup [type : {"MsgNextRequest"}]

\* A node's signature under its own text is one a message may carry.
LEMMA PeerSigned ==
  ASSUME NEW n \in Nodes, NEW order \in Nat, NEW text \in Texts
  PROVE  Sign(n, order, text) \in PeerSignature
  BY DEF Sign, PeerSignature

\* So is the group's.
LEMMA GroupSigned ==
  ASSUME NEW key \in Nat, NEW order \in Nat, NEW text \in Texts
  PROVE  Sign(key, order, text) \in GroupSignature
  BY DEF Sign, GroupSignature

\* The lead's proposal is made of the messages of a round.
LEMMA ProposalSent ==
  ASSUME NEW M, RoundMessage \subseteq M, orderNumber \in Nat,
         NEW n \in Nodes, NEW q \in Seq(Entry)
  PROVE  Proposal(n, q) \in [Peers -> Seq(M)]
<1> DEFINE m == [type |-> "MsgPrimaryConsensus", order |-> orderNumber + 1,
                 signature |-> Sign(n, orderNumber + 1, Head(q).message)]
<1>1. CASE q # <<>> /\ primaryGroup'[randomValue'] = n
  <2>1. Head(q) \in Entry
    BY <1>1
  <2>2. Head(q).message \in Texts
    BY <2>1 DEF Entry, Texts
  <2>3. Sign(n, orderNumber + 1, Head(q).message) \in PeerSignature
    BY <2>2, PeerSigned
  <2>4. m \in [type : {"MsgPrimaryConsensus"}, order : Nat, signature : PeerSignature]
    BY <2>3
  <2>5. m \in M
    BY <2>4 DEF RoundMessage
  <2>6. Proposal(n, q) = To(Members(primaryGroup') \ {n}, m)
    BY <1>1 DEF Proposal
  <2> QED BY <2>5, <2>6, ToSent
<1>2. CASE ~(q # <<>> /\ primaryGroup'[randomValue'] = n)
  BY <1>2, NothingSent DEF Proposal
<1> QED BY <1>1, <1>2

\* And so is what a closing node sends.
LEMMA ClosingSent ==
  ASSUME NEW M, RoundMessage \subseteq M, orderNumber \in Nat,
         NEW n \in Nodes, NEW q \in Seq(Entry)
  PROVE  Then(NextRequest(n), Proposal(n, q)) \in [Peers -> Seq(M)]
<1>1. [type |-> "MsgNextRequest"] \in M
  BY DEF RoundMessage
<1>2. NextRequest(n) \in [Peers -> Seq(M)]
  BY <1>1, ToSent DEF NextRequest
<1> QED BY <1>2, ProposalSent, ThenSent

----------------------------------------------------------------------------
(* Types.                                                                  *)

NodeTypes ==
    /\ requestQueue \in [Nodes -> Seq(Entry)]
    /\ busy \in [Nodes -> BOOLEAN]
    /\ client_request \in [Nodes -> Texts]
    /\ client_id \in [Nodes -> Clients \cup {NoPeer}]
    /\ orderNumber \in Nat

\* A request of a client joins a queue as an entry of it.
LEMMA EnqueuedTypes ==
  ASSUME NodeTypes, NEW n \in Nodes, NEW c \in Clients, NEW r \in Requests
  PROVE  Enqueue(requestQueue[n], [client |-> c, message |-> r]) \in Seq(Entry)
<1>1. [client |-> c, message |-> r] \in Entry
  BY DEF Entry
<1>2. requestQueue[n] \in Seq(Entry)
  BY DEF NodeTypes
<1> QED BY <1>1, <1>2 DEF Enqueue

\* Working on the front of a queue of requests keeps the types of the node's
\* own variables.
LEMMA ProcessTypes ==
  ASSUME NodeTypes, NEW n \in Nodes, NEW q \in Seq(Entry),
         NEW idle \in {Empty, Space}, Process(n, q, idle)
  PROVE  NodeTypes'
<1>1. q # <<>> => Head(q).message \in Texts /\ Head(q).client \in Clients
  <2>1. q # <<>> => Head(q) \in Entry
    OBVIOUS
  <2> QED BY <2>1 DEF Entry, Texts
<1>2. idle \in Texts
  BY DEF Texts
<1>3. requestQueue' \in [Nodes -> Seq(Entry)]
  BY DEF Process, NodeTypes
<1>4. busy' \in [Nodes -> BOOLEAN]
  BY DEF Process, NodeTypes
<1>5. client_request' \in [Nodes -> Texts]
  BY <1>1, <1>2 DEF Process, NodeTypes
<1>6. client_id' \in [Nodes -> Clients \cup {NoPeer}]
  BY <1>1 DEF Process, NodeTypes
<1>7. orderNumber' \in Nat
  BY DEF Process, NodeTypes
<1> QED BY <1>3, <1>4, <1>5, <1>6, <1>7 DEF NodeTypes

\* What closing a round does to the types, and to the messages in flight.
LEMMA CloseRoundTypes ==
  ASSUME NEW N, NEW C, RoundMessage \subseteq N, net \in Channels(N, C), NodeTypes,
         groupKey \in Nat, aborted \in BOOLEAN,
         ranking' \in Rankings, randomValue' \in 1..PrimarySize,
         NEW n \in Nodes, NEW q \in Peers, net[q][n] # <<>>, CloseRound(n, q)
  PROVE  /\ net' \in Channels(N, C)
         /\ NodeTypes' /\ GroupTypes'
         /\ groupKey' \in Nat /\ aborted' \in BOOLEAN
         /\ UNCHANGED clientVars
<1>1. GroupTypes'
  BY DEF CloseRound, Regroup, GroupTypes
<1>2. groupKey' \in Nat /\ UNCHANGED clientVars
  BY DEF CloseRound, changeGroupKey
<1> DEFINE rest == Tail(requestQueue[n])
<1>3. CASE /\ requestQueue[n] # <<>>
           /\ Process(n, rest, Empty)
           /\ Handle(n, q, Then(NextRequest(n), Proposal(n, rest)))
           /\ UNCHANGED aborted
  <2>1. rest \in Seq(Entry)
    BY <1>3 DEF NodeTypes
  <2> HIDE DEF rest
  <2>2. NodeTypes'
    BY <1>3, <2>1, ProcessTypes
  <2>3. Then(NextRequest(n), Proposal(n, rest)) \in [Peers -> Seq(N)]
    BY <2>1, ClosingSent DEF NodeTypes
  <2>4. net' \in Channels(N, C)
    BY <1>3, <2>3, HandleChannels DEF Peers
  <2> QED BY <1>1, <1>2, <1>3, <2>2, <2>4
<1>4. CASE /\ requestQueue[n] = <<>>
           /\ aborted' = TRUE
           /\ UNCHANGED <<nodeVars, net>>
  BY <1>1, <1>2, <1>4 DEF NodeTypes, nodeVars
<1> QED BY <1>3, <1>4 DEF CloseRound

----------------------------------------------------------------------------
(* The messages of a round stay the only ones until a quorum is reached.   *)

\* Every step of a node but the quorum branch of prepare_handler and
\* send_reply_handler puts only messages of a round on the channels.
LEMMA RoundTraffic ==
  ASSUME TypeOK, NEW N, NEW C, net \in Channels(N, C), RoundMessage \subseteq N,
         NEW n \in Nodes, NEW q \in Peers,
         \/ group_request_handler(n, q)
         \/ primary_consensus_handler(n, q)
         \/ primary_verified_handler(n, q)
         \/ preprepare_handler(n, q)
         \/ prepare_handler(n, q) /\ ~QuorumReached(Prepared(n, q, Head(net[q][n])))
         \/ ack_handler(n, q)
         \/ process_next_request(n, q)
  PROVE  net' \in Channels(N, C)
<1> DEFINE m == Head(net[q][n])
<1>0. /\ NodeTypes /\ GroupTypes
      /\ groupKey \in Nat /\ aborted \in BOOLEAN
      /\ n \in Peers /\ client_request[n] \in Texts
      /\ net \in Channels(NodeMessage, ClientMessage)
  BY DEF TypeOK, NodeTypes, GroupTypes, Peers
<1>1. net[q][n] # <<>>
  BY DEF group_request_handler, primary_consensus_handler, primary_verified_handler,
       preprepare_handler, prepare_handler, ack_handler, process_next_request, Arrives
<1>2. /\ q \in Nodes => m \in NodeMessage
      /\ q \in Clients => m \in ClientMessage
  BY <1>0, <1>1, HeadOnChannel
<1>3. ASSUME NEW out \in [Peers -> Seq(N)], Handle(n, q, out) PROVE net' \in Channels(N, C)
  BY <1>0, <1>1, <1>3, HandleChannels
<1>4. ASSUME ranking' \in Rankings, randomValue' \in 1..PrimarySize, CloseRound(n, q)
      PROVE  net' \in Channels(N, C)
  BY <1>0, <1>1, <1>4, CloseRoundTypes
<1>5. Nothing \in [Peers -> Seq(N)]
  BY NothingSent
<1>6. CASE group_request_handler(n, q)
  <2> DEFINE queue == Enqueue(requestQueue[n], [client |-> q, message |-> m.message])
  <2>1. m.type = "MsgGroup"
    BY <1>6 DEF group_request_handler, Arrives
  <2>2. m.message \in Requests /\ q \in Clients
    BY <1>2, <2>1, NodeMessageFields, ClientMessageFields DEF Peers
  <2>3. queue \in Seq(Entry)
    BY <1>0, <2>2, EnqueuedTypes
  <2>4. Handle(n, q, Nothing) \/ Handle(n, q, Proposal(n, queue))
    BY <1>6 DEF group_request_handler
  <2> HIDE DEF queue
  <2>5. Proposal(n, queue) \in [Peers -> Seq(N)]
    BY <1>0, <2>3, ProposalSent DEF NodeTypes
  <2> QED BY <1>3, <1>5, <2>4, <2>5
<1>7. CASE primary_consensus_handler(n, q)
  <2> DEFINE verify == VerifySignature(m.order, client_request[n], m.signature, q)
             answer == [type |-> "MsgPrimaryVerified", verified |-> verify]
  <2>1. Handle(n, q, To({q}, answer))
    BY <1>7 DEF primary_consensus_handler
  <2>2. verify \in BOOLEAN
    BY DEF VerifySignature
  <2> HIDE DEF verify
  <2>3. answer \in N
    BY <2>2 DEF RoundMessage
  <2> QED BY <1>3, <2>1, <2>3, ToSent
<1>8. CASE primary_verified_handler(n, q)
  <2> DEFINE preprepare == [type |-> "MsgPreprepare", order |-> orderNumber,
                            signature |-> Sign(groupKey, orderNumber, client_request[n])]
             others == Members(consensusGroup) \ Members(primaryGroup)
  <2>1. \/ Handle(n, q, To(others, preprepare))
        \/ Handle(n, q, Nothing)
        \/ UNCHANGED <<ranking, randomValue>> /\ CloseRound(n, q)
    BY <1>8 DEF primary_verified_handler
  <2>2. Sign(groupKey, orderNumber, client_request[n]) \in GroupSignature
    BY <1>0, GroupSigned DEF NodeTypes
  <2>3. preprepare \in N
    BY <1>0, <2>2 DEF RoundMessage, NodeTypes
  <2> HIDE DEF preprepare, others
  <2> QED BY <1>0, <1>3, <1>4, <1>5, <2>1, <2>3, ToSent DEF GroupTypes
<1>9. CASE preprepare_handler(n, q)
  <2> DEFINE prepare == [type |-> "MsgPrepare", order |-> m.order, groupSign |-> m.signature,
                         peerSign |-> Sign(n, m.order, client_request[n])]
             others == Members(consensusGroup) \ {n}
  <2>1. m.type = "MsgPreprepare"
    BY <1>9 DEF preprepare_handler, Arrives
  <2>2. m \in NodeMessage
    BY <1>2, <2>1, ClientMessageFields DEF Peers
  <2>3. m.order \in Nat /\ m.signature \in GroupSignature
    BY <2>1, <2>2, NodeMessageFields
  <2>4. Sign(n, m.order, client_request[n]) \in PeerSignature
    BY <1>0, <2>3, PeerSigned
  <2>5. prepare \in N
    BY <2>3, <2>4 DEF RoundMessage
  <2>6. Handle(n, q, To(others, prepare)) \/ Handle(n, q, Nothing)
    BY <1>9 DEF preprepare_handler
  <2> HIDE DEF prepare, others
  <2> QED BY <1>3, <1>5, <2>5, <2>6, ToSent
<1>10. CASE prepare_handler(n, q) /\ ~QuorumReached(Prepared(n, q, Head(net[q][n])))
  <2>1. \/ Handle(n, q, Nothing)
        \/ UNCHANGED <<ranking, randomValue>> /\ CloseRound(n, q)
    BY <1>10 DEF prepare_handler
  <2> QED BY <1>0, <1>3, <1>4, <1>5, <2>1 DEF GroupTypes
<1>11. CASE ack_handler(n, q)
  BY <1>4, <1>11 DEF ack_handler, updateGlobalTrust, randomValueGenerator
<1>12. CASE process_next_request(n, q)
  <2> DEFINE rest == Tail(requestQueue[n])
  <2>1. CASE requestQueue[n] # <<>> /\ Handle(n, q, Proposal(n, rest))
    <3>1. rest \in Seq(Entry)
      BY <1>0, <2>1 DEF NodeTypes
    <3> HIDE DEF rest
    <3>2. Proposal(n, rest) \in [Peers -> Seq(N)]
      BY <1>0, <3>1, ProposalSent DEF NodeTypes
    <3> QED BY <1>3, <2>1, <3>2
  <2>2. CASE UNCHANGED net
    BY <2>2
  <2> QED BY <1>12, <2>1, <2>2 DEF process_next_request
<1> QED BY <1>6, <1>7, <1>8, <1>9, <1>10, <1>11, <1>12

----------------------------------------------------------------------------
(* Type correctness.                                                       *)

\* A tally of answers, with one more in it, is a tally.
LEMMA TallyTypes ==
  ASSUME NEW tally \in [BOOLEAN -> Nat], NEW answer \in BOOLEAN
  PROVE  /\ [tally EXCEPT ![answer] = @ + 1] \in [BOOLEAN -> Nat]
         /\ NoAnswer \in [BOOLEAN -> Nat]
  BY DEF NoAnswer

\* A node that sends a reply sends it to a client, with the given result.
LEMMA ReplySent ==
  ASSUME NEW M, NEW n \in Nodes, NEW order \in Nat, NEW result \in BOOLEAN,
         [type |-> "MsgReply", result |-> result, order |-> order] \in M
  PROVE  Reply(n, order, result) \in [Peers -> Seq(M)]
  BY ToSent DEF Reply

\* What a verified quorum sends: MsgSend to the group, MsgReply to the client.
LEMMA QuorumSent ==
  ASSUME NEW M, NEW n \in Nodes, NEW order \in Nat, NEW S,
         [type |-> "MsgSend", sendReply |-> TRUE, order |-> order] \in M,
         [type |-> "MsgReply", result |-> TRUE, order |-> order] \in M
  PROVE  Then(To(S, [type |-> "MsgSend", sendReply |-> TRUE, order |-> order]),
              Reply(n, order, TRUE)) \in [Peers -> Seq(M)]
  BY ToSent, ReplySent, ThenSent

\* In the initial state no channel holds a message, of whatever kind.
LEMMA InitChannels == ASSUME NEW N, NEW C, Init PROVE net \in Channels(N, C)
<1>1. net = [p \in Peers |-> [q \in Peers |-> <<>>]]
  BY DEF Init
<1>2. <<>> \in Seq(N) /\ <<>> \in Seq(C) /\ <<>> \in Seq(N \cup C)
  BY EmptySeq
<1>3. net \in [Peers -> [Peers -> Seq(N \cup C)]]
  BY <1>1, <1>2
<1>4. \A p \in Peers : /\ \A n \in Nodes : net[n][p] \in Seq(N)
                       /\ \A c \in Clients : net[c][p] \in Seq(C)
  BY <1>1, <1>2 DEF Peers
<1> QED BY <1>3, <1>4 DEF Channels

\* In the initial state all types are right.
LEMMA InitTypes == Init => TypeOK
<1> SUFFICES ASSUME Init PROVE TypeOK
  OBVIOUS
<1>1. /\ busy \in [Nodes -> BOOLEAN]
      /\ requestQueue \in [Nodes -> Seq(Entry)]
      /\ client_request \in [Nodes -> Texts]
      /\ client_id \in [Nodes -> Clients \cup {NoPeer}]
      /\ orderNumber \in Nat
  BY DEF Init, Texts
<1>2. /\ verified_message \in [Nodes -> [BOOLEAN -> Nat]]
      /\ replies \in [Clients -> [BOOLEAN -> Nat]]
  BY DEF Init, NoAnswer
<1>3. net \in Channels(NodeMessage, ClientMessage)
  BY InitChannels
<1>4. /\ randomValue \in 1..PrimarySize /\ prepared_messages \in Nat /\ groupKey \in Nat
      /\ ranking \in Rankings
      /\ consensusGroup = SubSeq(ranking, 1, ConsensusSize)
      /\ primaryGroup = SubSeq(consensusGroup, 1, PrimarySize)
      /\ trust \in [Sat : Nat, Unsat : Nat] /\ aborted \in BOOLEAN
  BY DEF Init
<1>5. script \in [Threads -> Seq(Requests)]
  BY RequestAssumption DEF Init
<1> QED BY <1>1, <1>2, <1>3, <1>4, <1>5 DEF TypeOK

\* The variables TypeOK speaks of besides those of NodeTypes and GroupTypes.
OtherTypes ==
    /\ verified_message \in [Nodes -> [BOOLEAN -> Nat]]
    /\ prepared_messages \in Nat
    /\ groupKey \in Nat
    /\ trust \in [Sat : Nat, Unsat : Nat]
    /\ script \in [Threads -> Seq(Requests)]
    /\ replies \in [Clients -> [BOOLEAN -> Nat]]
    /\ aborted \in BOOLEAN

\* TypeOK, part by part.
LEMMA TypeParts ==
  TypeOK <=> /\ NodeTypes /\ GroupTypes /\ OtherTypes
             /\ net \in Channels(NodeMessage, ClientMessage)
  BY DEF TypeOK, NodeTypes, GroupTypes, OtherTypes

\* The part of the types a node's handler can disturb beyond the channels.
LEMMA NodeStepTypes ==
  ASSUME TypeOK, NEW n \in Nodes, NEW q \in Peers, Node(n, q)
  PROVE  NodeTypes' /\ GroupTypes' /\ OtherTypes'
<1> DEFINE m == Head(net[q][n])
<1>0. /\ NodeTypes /\ GroupTypes /\ OtherTypes
      /\ net \in Channels(NodeMessage, ClientMessage) /\ n \in Peers
  BY TypeParts DEF Peers
<1>1. net[q][n] # <<>>
  BY DEF Node, group_request_handler, primary_consensus_handler, primary_verified_handler,
       preprepare_handler, prepare_handler, send_reply_handler, ack_handler,
       process_next_request, Arrives
<1>2. /\ q \in Nodes => m \in NodeMessage
      /\ q \in Clients => m \in ClientMessage
  BY <1>0, <1>1, HeadOnChannel
<1>3. ASSUME UNCHANGED nodeVars PROVE NodeTypes'
  BY <1>0, <1>3 DEF nodeVars, NodeTypes
<1>4. ASSUME UNCHANGED <<groupVars, randomValue>> PROVE GroupTypes'
  BY <1>0, <1>4 DEF groupVars, GroupTypes
<1>5. ASSUME ranking' \in Rankings, randomValue' \in 1..PrimarySize, CloseRound(n, q)
      PROVE  /\ NodeTypes' /\ GroupTypes'
             /\ groupKey' \in Nat /\ aborted' \in BOOLEAN /\ UNCHANGED clientVars
  <2>1. RoundMessage \subseteq NodeMessage
    BY DEF RoundMessage, NodeMessage
  <2> QED BY <1>0, <1>1, <1>5, <2>1, CloseRoundTypes DEF OtherTypes
<1>6. CASE group_request_handler(n, q)
  <2> DEFINE queue == Enqueue(requestQueue[n], [client |-> q, message |-> m.message])
  <2>1. m.type = "MsgGroup"
    BY <1>6 DEF group_request_handler, Arrives
  <2>2. m.message \in Requests /\ q \in Clients
    BY <1>2, <2>1, NodeMessageFields, ClientMessageFields DEF Peers
  <2>3. queue \in Seq(Entry)
    BY <1>0, <2>2, EnqueuedTypes
  <2>4. \/ /\ requestQueue' = [requestQueue EXCEPT ![n] = queue]
           /\ UNCHANGED <<busy, client_request, client_id, orderNumber>>
        \/ Process(n, queue, Empty)
    BY <1>6 DEF group_request_handler
  <2> HIDE DEF queue
  <2>5. NodeTypes'
    <3>1. CASE Process(n, queue, Empty)
      BY <1>0, <2>3, <3>1, ProcessTypes
    <3>2. CASE /\ requestQueue' = [requestQueue EXCEPT ![n] = queue]
               /\ UNCHANGED <<busy, client_request, client_id, orderNumber>>
      BY <1>0, <2>3, <3>2 DEF NodeTypes
    <3> QED BY <2>4, <3>1, <3>2
  <2>6. UNCHANGED <<groupVars, randomValue>> /\ OtherTypes'
    BY <1>0, <1>6 DEF group_request_handler, OtherTypes, clientVars
  <2> QED BY <1>4, <2>5, <2>6
<1>7. CASE primary_consensus_handler(n, q)
  <2>1. UNCHANGED <<nodeVars, groupVars, randomValue>> /\ OtherTypes'
    BY <1>0, <1>7 DEF primary_consensus_handler, OtherTypes, clientVars
  <2> QED BY <1>3, <1>4, <2>1
<1>8. CASE primary_verified_handler(n, q)
  <2> DEFINE answers == [verified_message[n] EXCEPT ![m.verified] = @ + 1]
  <2>1. answers \in [BOOLEAN -> Nat] /\ NoAnswer \in [BOOLEAN -> Nat]
    <3>1. m.type = "MsgPrimaryVerified"
      BY <1>8 DEF primary_verified_handler, Arrives
    <3>2. m.verified \in BOOLEAN
      BY <1>2, <3>1, NodeMessageFields, ClientMessageFields DEF Peers
    <3> QED BY <1>0, <3>2, TallyTypes DEF OtherTypes
  <2>2. /\ UNCHANGED <<randomValue, prepared_messages, trust, clientVars>>
        /\ \/ verified_message' = [verified_message EXCEPT ![n] = NoAnswer]
           \/ verified_message' = [verified_message EXCEPT ![n] = answers]
        /\ \/ UNCHANGED <<nodeVars, groupKey, groupVars, aborted>>
           \/ UNCHANGED ranking /\ CloseRound(n, q)
    BY <1>8 DEF primary_verified_handler
  <2> HIDE DEF answers
  <2>3. verified_message' \in [Nodes -> [BOOLEAN -> Nat]]
    BY <1>0, <2>1, <2>2 DEF OtherTypes
  <2>4. CASE UNCHANGED <<nodeVars, groupKey, groupVars, aborted>>
    BY <1>0, <1>3, <1>4, <2>2, <2>3, <2>4 DEF OtherTypes, clientVars
  <2>5. CASE UNCHANGED ranking /\ CloseRound(n, q)
    BY <1>0, <1>5, <2>2, <2>3, <2>5 DEF OtherTypes, GroupTypes, clientVars
  <2> QED BY <2>2, <2>4, <2>5
<1>9. CASE preprepare_handler(n, q)
  <2>1. UNCHANGED <<nodeVars, groupVars, randomValue>> /\ OtherTypes'
    BY <1>0, <1>9 DEF preprepare_handler, OtherTypes, clientVars
  <2> QED BY <1>3, <1>4, <2>1
<1>10. CASE prepare_handler(n, q)
  <2>1. Prepared(n, q, m) \in Nat
    BY <1>0 DEF Prepared, OtherTypes
  <2>2. /\ UNCHANGED <<verified_message, randomValue, clientVars>>
        /\ prepared_messages' \in {Prepared(n, q, m), 0}
        /\ \/ trust' = trust
           \/ trust' = [trust EXCEPT !.Sat = @ + 1]
           \/ trust' = [trust EXCEPT !.Unsat = @ + 1]
        /\ \/ UNCHANGED <<nodeVars, groupKey, groupVars, aborted>>
           \/ UNCHANGED ranking /\ CloseRound(n, q)
    BY <1>10 DEF prepare_handler, clearPreparedMessages, updateTrust
  <2>3. prepared_messages' \in Nat /\ trust' \in [Sat : Nat, Unsat : Nat]
    BY <1>0, <2>1, <2>2 DEF OtherTypes
  <2>4. CASE UNCHANGED <<nodeVars, groupKey, groupVars, aborted>>
    BY <1>0, <1>3, <1>4, <2>2, <2>3, <2>4 DEF OtherTypes, clientVars
  <2>5. CASE UNCHANGED ranking /\ CloseRound(n, q)
    BY <1>0, <1>5, <2>2, <2>3, <2>5 DEF OtherTypes, GroupTypes, clientVars
  <2> QED BY <2>2, <2>4, <2>5
<1>11. CASE send_reply_handler(n, q)
  <2>1. UNCHANGED <<nodeVars, groupVars, randomValue>> /\ OtherTypes'
    BY <1>0, <1>11 DEF send_reply_handler, OtherTypes, clientVars, clearPreparedMessages
  <2> QED BY <1>3, <1>4, <2>1
<1>12. CASE ack_handler(n, q)
  <2>1. /\ ranking' \in Rankings /\ randomValue' \in 1..PrimarySize /\ CloseRound(n, q)
        /\ prepared_messages' = 0 /\ UNCHANGED <<verified_message, trust>>
    BY <1>12 DEF ack_handler, clearPreparedMessages, updateGlobalTrust, randomValueGenerator
  <2> QED BY <1>0, <1>5, <2>1 DEF OtherTypes, clientVars
<1>13. CASE process_next_request(n, q)
  <2> DEFINE rest == Tail(requestQueue[n])
  <2>1. /\ UNCHANGED <<verified_message, randomValue, prepared_messages, groupKey,
                       groupVars, trust, clientVars>>
        /\ \/ /\ requestQueue[n] # <<>> /\ Process(n, rest, Space) /\ UNCHANGED aborted
           \/ aborted' = TRUE /\ UNCHANGED nodeVars
    BY <1>13 DEF process_next_request
  <2>2. OtherTypes'
    BY <1>0, <2>1 DEF OtherTypes, clientVars
  <2>3. CASE requestQueue[n] # <<>> /\ Process(n, rest, Space)
    <3>1. rest \in Seq(Entry)
      BY <1>0, <2>3 DEF NodeTypes
    <3> QED BY <1>0, <1>4, <2>1, <2>2, <2>3, <3>1, ProcessTypes
  <2> QED BY <1>3, <1>4, <2>1, <2>2, <2>3
<1> QED BY <1>6, <1>7, <1>8, <1>9, <1>10, <1>11, <1>12, <1>13 DEF Node

----------------------------------------------------------------------------
(* The traffic of every step, for a set N of messages of nodes that holds  *)
(* those of a round and is closed under the two handlers that go beyond.   *)

\* Answering the quorum of prepares keeps the traffic within N.
LEMMA QuorumTraffic ==
  ASSUME TypeOK, NEW N, NEW C, net \in Channels(N, C), RoundMessage \subseteq N,
         \A order \in Nat :
            /\ [type |-> "MsgSend", sendReply |-> TRUE, order |-> order] \in N
            /\ [type |-> "MsgReply", result |-> TRUE, order |-> order] \in N,
         NEW n \in Nodes, NEW q \in Peers, prepare_handler(n, q)
  PROVE  net' \in Channels(N, C)
<1> DEFINE m == Head(net[q][n])
           send == [type |-> "MsgSend", sendReply |-> TRUE, order |-> m.order]
           others == Members(consensusGroup) \ {n}
<1>1. CASE ~QuorumReached(Prepared(n, q, m))
  BY <1>1, RoundTraffic
<1>2. CASE QuorumReached(Prepared(n, q, m))
  <2>1. /\ net[q][n] # <<>> /\ m.type = "MsgPrepare"
        /\ Handle(n, q, Then(To(others, send), Reply(n, m.order, TRUE)))
    BY <1>2 DEF prepare_handler, Arrives
  <2>2. n \in Peers /\ net \in Channels(NodeMessage, ClientMessage)
    BY DEF Peers, TypeOK
  <2>3. /\ q \in Nodes => m \in NodeMessage
        /\ q \in Clients => m \in ClientMessage
    BY <2>1, <2>2, HeadOnChannel
  <2>4. m.order \in Nat
    BY <2>1, <2>3, NodeMessageFields, ClientMessageFields DEF Peers
  <2> HIDE DEF m, others
  <2>5. Then(To(others, send), Reply(n, m.order, TRUE)) \in [Peers -> Seq(N)]
    BY <2>4, QuorumSent
  <2> QED BY <2>1, <2>2, <2>5, HandleChannels
<1> QED BY <1>1, <1>2

\* A node passes the result it was sent on to its client.
LEMMA SendReplyTraffic ==
  ASSUME TypeOK, NEW N, NEW C, net \in Channels(N, C),
         \A k \in N : k.type = "MsgSend" =>
            [type |-> "MsgReply", result |-> k.sendReply, order |-> k.order] \in N,
         \A k \in C : k.type # "MsgSend",
         NEW n \in Nodes, NEW q \in Peers, send_reply_handler(n, q)
  PROVE  net' \in Channels(N, C)
<1> DEFINE m == Head(net[q][n])
<1>1. /\ net[q][n] # <<>> /\ m.type = "MsgSend"
      /\ Handle(n, q, Reply(n, m.order, m.sendReply))
  BY DEF send_reply_handler, Arrives
<1>2. n \in Peers
  BY DEF Peers
<1>3. (q \in Nodes => m \in N) /\ (q \in Clients => m \in C)
  BY <1>1, <1>2, HeadOnChannel
<1>4. [type |-> "MsgReply", result |-> m.sendReply, order |-> m.order] \in N
  BY <1>1, <1>3 DEF Peers
<1> HIDE DEF m
<1>5. Reply(n, m.order, m.sendReply) \in [Peers -> Seq(N)]
  BY <1>4, ToSent DEF Reply
<1> QED BY <1>1, <1>2, <1>5, HandleChannels

\* A client sends its requests to every node.
LEMMA MulticastTraffic ==
  ASSUME TypeOK, NEW N, NEW C, net \in Channels(N, C),
         [type : {"MsgGroup"}, message : Requests] \subseteq C,
         NEW t \in Threads, multicast(t)
  PROVE  /\ net' \in Channels(N, C)
         /\ script' \in [Threads -> Seq(Requests)]
<1> DEFINE c == ClientOf[t]
           k == [type |-> "MsgGroup", message |-> Head(script[t])]
           sent == [p \in Peers |-> IF p \in Nodes THEN Append(net[c][p], k) ELSE net[c][p]]
<1>1. c \in Clients /\ c \notin Nodes /\ c \in Peers
  BY RequestAssumption, PeerAssumption DEF Peers
<1>2. script \in [Threads -> Seq(Requests)] /\ script[t] # <<>>
  BY DEF TypeOK, multicast
<1>3. script' \in [Threads -> Seq(Requests)]
  BY <1>2 DEF multicast
<1>4. k \in C
  BY <1>2
<1>5. net' = [net EXCEPT ![c] = sent]
  BY DEF multicast
<1> HIDE DEF c, k
<1>6. \A p \in Peers : net[c][p] \in Seq(C)
  BY <1>1 DEF Channels
<1>7. \A p \in Peers : sent[p] \in Seq(C)
  BY <1>4, <1>6
<1>8. sent \in [Peers -> Seq(N \cup C)]
  BY <1>7, SeqMonotonic
<1> HIDE DEF sent
<1>9. net' \in [Peers -> [Peers -> Seq(N \cup C)]]
  BY <1>5, <1>8 DEF Channels
<1>10. ASSUME NEW p \in Peers
       PROVE  /\ \A n \in Nodes : net'[n][p] \in Seq(N)
              /\ \A d \in Clients : net'[d][p] \in Seq(C)
  BY <1>1, <1>5, <1>7, <1>10 DEF Channels, Peers
<1> QED BY <1>3, <1>9, <1>10 DEF Channels

\* A client acknowledges only with MsgAck.
LEMMA ReplyTraffic ==
  ASSUME TypeOK, NEW N, NEW C, net \in Channels(N, C), [type |-> "MsgAck"] \in C,
         NEW c \in Clients, NEW q \in Nodes, reply_handler(c, q)
  PROVE  /\ net' \in Channels(N, C)
         /\ replies' \in [Clients -> [BOOLEAN -> Nat]]
<1> DEFINE m == Head(net[q][c])
           tally == [replies[c] EXCEPT ![m.result] = @ + 1]
<1>1. c \in Peers /\ q \in Peers /\ c \notin Nodes
  BY PeerAssumption DEF Peers
<1>2. /\ net[q][c] # <<>> /\ m.type = "MsgReply"
      /\ replies' = [replies EXCEPT ![c] = Judged(tally)]
      /\ Handle(c, q, To({q}, [type |-> "MsgAck"])) \/ Handle(c, q, Nothing)
  BY DEF reply_handler, Arrives
<1>3. m \in NodeMessage
  BY <1>1, <1>2, HeadOnChannel DEF TypeOK
<1>4. m.result \in BOOLEAN
  BY <1>2, <1>3, NodeMessageFields
<1>5. replies \in [Clients -> [BOOLEAN -> Nat]]
  BY DEF TypeOK
<1> HIDE DEF m
<1>6. tally \in [BOOLEAN -> Nat] /\ NoAnswer \in [BOOLEAN -> Nat]
  BY <1>4, <1>5, TallyTypes
<1> HIDE DEF tally
<1>7. replies' \in [Clients -> [BOOLEAN -> Nat]]
  BY <1>2, <1>5, <1>6 DEF Judged
<1>8. /\ Nothing \in [Peers -> Seq(C)]
      /\ To({q}, [type |-> "MsgAck"]) \in [Peers -> Seq(C)]
  BY NothingSent, ToSent
<1>9. net' \in Channels(N, C)
  BY <1>1, <1>2, <1>8, HandleChannels
<1> QED BY <1>7, <1>9

----------------------------------------------------------------------------
(* TypeOK is inductive.                                                    *)

\* Every step of the program keeps the types right.
LEMMA NextTypes == TypeOK /\ [Next]_vars => TypeOK'
<1> SUFFICES ASSUME TypeOK, [Next]_vars PROVE TypeOK'
  OBVIOUS
<1>0. /\ NodeTypes /\ GroupTypes /\ OtherTypes
      /\ net \in Channels(NodeMessage, ClientMessage)
  BY TypeParts
<1>1. ASSUME NEW n \in Nodes, NEW q \in Peers, Node(n, q) PROVE TypeOK'
  <2>1. /\ RoundMessage \subseteq NodeMessage
        /\ \A order \in Nat :
             /\ [type |-> "MsgSend", sendReply |-> TRUE, order |-> order] \in NodeMessage
             /\ [type |-> "MsgReply", result |-> TRUE, order |-> order] \in NodeMessage
    BY DEF RoundMessage, NodeMessage
  <2>2. \A k \in NodeMessage : k.type = "MsgSend" =>
           [type |-> "MsgReply", result |-> k.sendReply, order |-> k.order] \in NodeMessage
    <3> SUFFICES ASSUME NEW k \in NodeMessage, k.type = "MsgSend"
                 PROVE  [type |-> "MsgReply", result |-> k.sendReply, order |-> k.order]
                           \in NodeMessage
      OBVIOUS
    <3>1. k.sendReply \in BOOLEAN /\ k.order \in Nat
      BY NodeMessageFields
    <3> QED BY <3>1 DEF NodeMessage
  <2>3. \A k \in ClientMessage : k.type # "MsgSend"
    BY DEF ClientMessage
  <2>4. net' \in Channels(NodeMessage, ClientMessage)
    <3>1. CASE prepare_handler(n, q)
      BY <1>0, <2>1, <3>1, QuorumTraffic
    <3>2. CASE send_reply_handler(n, q)
      BY <1>0, <2>2, <2>3, <3>2, SendReplyTraffic
    <3>3. CASE ~prepare_handler(n, q) /\ ~send_reply_handler(n, q)
      BY <1>0, <1>1, <2>1, <3>3, RoundTraffic DEF Node
    <3> QED BY <3>1, <3>2, <3>3
  <2>5. NodeTypes' /\ GroupTypes' /\ OtherTypes'
    BY <1>1, NodeStepTypes
  <2> QED BY <2>4, <2>5 DEF TypeOK, NodeTypes, GroupTypes, OtherTypes, Entry
<1>2. ASSUME NEW t \in Threads, multicast(t) PROVE TypeOK'
  <2>1. /\ net' \in Channels(NodeMessage, ClientMessage)
        /\ script' \in [Threads -> Seq(Requests)]
    <3>1. [type : {"MsgGroup"}, message : Requests] \subseteq ClientMessage
      BY DEF ClientMessage
    <3> QED BY <1>0, <1>2, <3>1, MulticastTraffic
  <2> QED BY <1>2, <2>1 DEF TypeOK, multicast, nodeVars, groupVars
<1>3. ASSUME NEW c \in Clients, NEW q \in Nodes, reply_handler(c, q) PROVE TypeOK'
  <2>1. /\ net' \in Channels(NodeMessage, ClientMessage)
        /\ replies' \in [Clients -> [BOOLEAN -> Nat]]
    <3>1. [type |-> "MsgAck"] \in ClientMessage
      BY DEF ClientMessage
    <3> QED BY <1>0, <1>3, <3>1, ReplyTraffic
  <2> QED BY <1>3, <2>1 DEF TypeOK, reply_handler, nodeVars, groupVars
<1>4. CASE UNCHANGED vars
  BY <1>4 DEF TypeOK, vars, nodeVars, groupVars, clientVars
<1> QED BY <1>1, <1>2, <1>3, <1>4 DEF Next

\* Type correctness: whatever the program does, its variables hold values of
\* their C++ types, the lead is a member of the primary group, and only
\* clients send requests and acknowledgements.
THEOREM TypeCorrect == Spec => []TypeOK
  BY InitTypes, NextTypes, PTL DEF Spec

----------------------------------------------------------------------------
(* Every node works on the front of its own queue.                         *)

\* The parts of WorksOnFront, for one node.
OnFront(n) ==
    /\ busy[n] <=> requestQueue[n] # <<>>
    /\ busy[n] => /\ client_request[n] = Head(requestQueue[n]).message
                  /\ client_id[n] = Head(requestQueue[n]).client
    /\ ~busy[n] => client_request[n] \in {Empty, Space}

\* Process puts n on the front of its new queue and touches no other node;
\* n's text is replaced even if there is none left to process.
LEMMA ProcessOnFront ==
  ASSUME NodeTypes, NEW n \in Nodes, NEW q \in Seq(Entry), NEW idle \in {Empty, Space},
         Process(n, q, idle), \A k \in Nodes : OnFront(k)
  PROVE  \A k \in Nodes : OnFront(k)'
<1> SUFFICES ASSUME NEW k \in Nodes PROVE OnFront(k)'
  OBVIOUS
<1>1. CASE k # n
  BY <1>1 DEF Process, OnFront, NodeTypes
<1>2. CASE k = n
  <2>1. requestQueue'[n] = q /\ busy'[n] = (q # <<>>)
    BY DEF Process, NodeTypes
  <2>2. client_request'[n] = IF q = <<>> THEN idle ELSE Head(q).message
    BY DEF Process, NodeTypes
  <2>3. client_id'[n] = IF q = <<>> THEN client_id[n] ELSE Head(q).client
    BY DEF Process, NodeTypes
  <2> QED BY <1>2, <2>1, <2>2, <2>3 DEF OnFront
<1> QED BY <1>1, <1>2

\* Every step keeps every node on the front of its queue.
LEMMA NextOnFront == TypeOK /\ WorksOnFront /\ [Next]_vars => WorksOnFront'
<1> SUFFICES ASSUME TypeOK, WorksOnFront, [Next]_vars PROVE WorksOnFront'
  OBVIOUS
<1>0. NodeTypes /\ \A k \in Nodes : OnFront(k)
  BY TypeParts DEF WorksOnFront, OnFront
<1>1. ASSUME \A k \in Nodes : OnFront(k)' PROVE WorksOnFront'
  BY <1>1 DEF WorksOnFront, OnFront
<1>2. ASSUME UNCHANGED nodeVars PROVE WorksOnFront'
  BY <1>2 DEF WorksOnFront, nodeVars
<1>3. ASSUME NEW n \in Nodes, NEW q \in Seq(Entry), NEW idle \in {Empty, Space},
             Process(n, q, idle)
      PROVE  WorksOnFront'
  BY <1>0, <1>1, <1>3, ProcessOnFront
<1>4. ASSUME NEW n \in Nodes, requestQueue[n] # <<>> PROVE Tail(requestQueue[n]) \in Seq(Entry)
  BY <1>0, <1>4 DEF NodeTypes
<1>5. ASSUME NEW n \in Nodes, NEW q \in Peers, CloseRound(n, q) PROVE WorksOnFront'
  BY <1>2, <1>3, <1>4, <1>5 DEF CloseRound
<1>6. ASSUME NEW n \in Nodes, NEW q \in Peers, Node(n, q) PROVE WorksOnFront'
  <2>1. CASE group_request_handler(n, q)
    <3> DEFINE m == Head(net[q][n])
               queue == Enqueue(requestQueue[n], [client |-> q, message |-> m.message])
    <3>1. queue \in Seq(Entry)
      <4>1. net[q][n] # <<>> /\ m.type = "MsgGroup"
        BY <2>1 DEF group_request_handler, Arrives
      <4>2. (q \in Nodes => m \in NodeMessage) /\ (q \in Clients => m \in ClientMessage)
        BY <4>1, HeadOnChannel DEF TypeOK, Peers
      <4>3. m.message \in Requests /\ q \in Clients
        BY <4>1, <4>2, NodeMessageFields, ClientMessageFields DEF Peers
      <4> QED BY <1>0, <4>3, EnqueuedTypes
    <3>2. \/ Process(n, queue, Empty)
          \/ /\ busy[n]
             /\ requestQueue' = [requestQueue EXCEPT ![n] = queue]
             /\ UNCHANGED <<busy, client_request, client_id, orderNumber>>
      BY <2>1 DEF group_request_handler
    <3>3. ASSUME busy[n] PROVE queue # <<>> /\ Head(queue) = Head(requestQueue[n])
      <4>1. requestQueue[n] \in Seq(Entry) /\ requestQueue[n] # <<>>
        BY <1>0, <3>3 DEF NodeTypes, OnFront
      <4> QED BY <4>1 DEF Enqueue
    <3> HIDE DEF queue
    <3>4. CASE /\ busy[n]
               /\ requestQueue' = [requestQueue EXCEPT ![n] = queue]
               /\ UNCHANGED <<busy, client_request, client_id, orderNumber>>
      <4> SUFFICES ASSUME NEW k \in Nodes PROVE OnFront(k)'
        BY <1>1
      <4>1. OnFront(k)
        BY <1>0
      <4>2. CASE k # n
        BY <1>0, <3>4, <4>1, <4>2 DEF OnFront, NodeTypes
      <4>3. CASE k = n
        BY <1>0, <3>3, <3>4, <4>1, <4>3 DEF OnFront, NodeTypes
      <4> QED BY <4>2, <4>3
    <3> QED BY <1>3, <3>1, <3>2, <3>4
  <2>2. CASE primary_consensus_handler(n, q)
    BY <1>2, <2>2 DEF primary_consensus_handler
  <2>3. CASE primary_verified_handler(n, q)
    BY <1>2, <1>5, <2>3 DEF primary_verified_handler
  <2>4. CASE preprepare_handler(n, q)
    BY <1>2, <2>4 DEF preprepare_handler
  <2>5. CASE prepare_handler(n, q)
    BY <1>2, <1>5, <2>5 DEF prepare_handler
  <2>6. CASE send_reply_handler(n, q)
    BY <1>2, <2>6 DEF send_reply_handler
  <2>7. CASE ack_handler(n, q)
    BY <1>5, <2>7 DEF ack_handler
  <2>8. CASE process_next_request(n, q)
    BY <1>2, <1>3, <1>4, <2>8 DEF process_next_request
  <2> QED BY <1>6, <2>1, <2>2, <2>3, <2>4, <2>5, <2>6, <2>7, <2>8 DEF Node
<1>7. ASSUME NEW t \in Threads, multicast(t) PROVE WorksOnFront'
  BY <1>2, <1>7 DEF multicast
<1>8. ASSUME NEW c \in Clients, NEW q \in Nodes, reply_handler(c, q) PROVE WorksOnFront'
  BY <1>2, <1>8 DEF reply_handler
<1>9. CASE UNCHANGED vars
  BY <1>2, <1>9 DEF vars
<1> QED BY <1>6, <1>7, <1>8, <1>9 DEF Next

\* Whatever closes rounds under it, a node verifies signatures against the
\* front of its own queue and answers that request's client.
THEOREM NodesWorkOnFront == Spec => []WorksOnFront
<1>1. Init => WorksOnFront
  BY DEF Init, WorksOnFront
<1> QED BY <1>1, TypeCorrect, NextOnFront, PTL DEF Spec

----------------------------------------------------------------------------
(* The shared count of prepares and what follows from it.                  *)

\* Every step leaves the count where it was, clears it, or adds one to it
\* and finds it below the quorum and different from max_prepared.
LEMMA CountSteps ==
  ASSUME TypeOK, [Next]_vars
  PROVE  \/ prepared_messages' \in {prepared_messages, 0}
         \/ /\ prepared_messages' = prepared_messages + 1
            /\ prepared_messages' < PrepareQuorum
            /\ prepared_messages' # MaxPrepared
<1>1. ASSUME NEW n \in Nodes, NEW q \in Peers, prepare_handler(n, q)
      PROVE  \/ prepared_messages' \in {prepared_messages, 0}
             \/ /\ prepared_messages' = prepared_messages + 1
                /\ prepared_messages' < PrepareQuorum
                /\ prepared_messages' # MaxPrepared
  <2> DEFINE prepared == Prepared(n, q, Head(net[q][n]))
  <2>1. prepared \in {prepared_messages, prepared_messages + 1}
    BY DEF Prepared
  <2>2. \/ prepared_messages' = 0
        \/ /\ prepared_messages' = prepared
           /\ ~(prepared >= PrepareQuorum) /\ prepared # MaxPrepared
    BY <1>1 DEF prepare_handler, clearPreparedMessages, QuorumReached
  <2>3. prepared_messages \in Nat /\ PrepareQuorum \in Nat
    BY SizeAssumption DEF TypeOK
  <2> HIDE DEF prepared
  <2> QED BY <2>1, <2>2, <2>3
<1>2. ASSUME NEW n \in Nodes, NEW q \in Peers, Node(n, q), ~prepare_handler(n, q)
      PROVE  prepared_messages' \in {prepared_messages, 0}
  BY <1>2 DEF Node, group_request_handler, primary_consensus_handler, primary_verified_handler,
       preprepare_handler, send_reply_handler, ack_handler, process_next_request,
       clearPreparedMessages
<1>3. ASSUME NEW t \in Threads, multicast(t) PROVE UNCHANGED prepared_messages
  BY <1>3 DEF multicast
<1>4. ASSUME NEW c \in Clients, NEW q \in Nodes, reply_handler(c, q)
      PROVE  UNCHANGED prepared_messages
  BY <1>4 DEF reply_handler
<1>5. ASSUME UNCHANGED vars PROVE UNCHANGED prepared_messages
  BY <1>5 DEF vars
<1> QED BY <1>1, <1>2, <1>3, <1>4, <1>5 DEF Next

\* Every step keeps the count below both thresholds.
LEMMA NextBelowQuorum == TypeOK /\ PreparedBelowQuorum /\ [Next]_vars => PreparedBelowQuorum'
<1> SUFFICES ASSUME TypeOK, PreparedBelowQuorum, [Next]_vars PROVE PreparedBelowQuorum'
  OBVIOUS
<1>1. prepared_messages \in Nat /\ PrepareQuorum \in Nat \ {0}
  BY SizeAssumption DEF TypeOK
<1>2. MaxPrepared' = MaxPrepared
  BY DEF MaxPrepared
<1> QED BY <1>1, <1>2, CountSteps DEF PreparedBelowQuorum

\* The shared count never passes over a threshold of prepare_handler.
THEOREM CountBelowQuorum == Spec => []PreparedBelowQuorum
<1>1. Init => PreparedBelowQuorum
  BY SizeAssumption DEF Init, PreparedBelowQuorum
<1> QED BY <1>1, TypeCorrect, NextBelowQuorum, PTL DEF Spec

----------------------------------------------------------------------------
(* No step reports a failure.                                              *)

SuccessMessage ==
    {m \in NodeMessage : /\ m.type = "MsgReply" => m.result = TRUE
                         /\ m.type = "MsgSend" => m.sendReply = TRUE}

\* FailuresAreSilent is not inductive as it stands, only because it does not
\* say what is on the channels.
SuccessOnly ==
    /\ trust.Unsat = 0
    /\ \A c \in Clients : replies[c][FALSE] = 0
    /\ net \in Channels(SuccessMessage, ClientMessage)

\* SuccessOnly is about the messages FailuresAreSilent looks at.
LEMMA SuccessIsSilent == TypeOK /\ SuccessOnly => FailuresAreSilent
<1> SUFFICES ASSUME TypeOK, SuccessOnly, NEW p \in Peers, NEW q \in Peers,
                    NEW i \in DOMAIN net[p][q]
             PROVE  /\ net[p][q][i].type = "MsgReply" => net[p][q][i].result
                    /\ net[p][q][i].type = "MsgSend" => net[p][q][i].sendReply
  BY DEF SuccessOnly, FailuresAreSilent
<1> DEFINE m == net[p][q][i]
<1>1. CASE p \in Nodes
  <2>1. net[p][q] \in Seq(SuccessMessage)
    BY <1>1 DEF SuccessOnly, Channels
  <2>2. m \in SuccessMessage
    BY <2>1, LenProperties, ElementOfSeq
  <2> QED BY <2>2 DEF SuccessMessage
<1>2. CASE p \in Clients
  <2>1. net[p][q] \in Seq(ClientMessage)
    BY <1>2 DEF SuccessOnly, Channels
  <2>2. m \in ClientMessage
    BY <2>1, LenProperties, ElementOfSeq
  <2> QED BY <2>2, ClientMessageFields
<1> QED BY <1>1, <1>2 DEF Peers

\* The quorum is completed only by a prepare whose signatures verify, so
\* updateTrust is told of a success.
LEMMA QuorumIsVerified ==
  ASSUME TypeOK, PreparedBelowQuorum, trust.Unsat = 0,
         NEW n \in Nodes, NEW q \in Peers, prepare_handler(n, q)
  PROVE  trust'.Unsat = 0
<1> DEFINE m == Head(net[q][n])
           verify_peer == VerifySignature(m.order, client_request[n], m.peerSign, q)
<1>1. CASE QuorumReached(Prepared(n, q, m))
  <2>1. prepared_messages \in Nat /\ prepared_messages < PrepareQuorum /\ PrepareQuorum \in Nat
    BY SizeAssumption DEF TypeOK, PreparedBelowQuorum
  <2>2. Prepared(n, q, m) # prepared_messages
    BY <1>1, <2>1 DEF QuorumReached
  <2>3. verify_peer
    BY <2>2 DEF Prepared
  <2>4. trust' = [trust EXCEPT !.Sat = @ + 1]
    BY <1>1, <2>3 DEF prepare_handler, updateTrust
  <2> QED BY <2>4 DEF TypeOK
<1>2. CASE ~QuorumReached(Prepared(n, q, m))
  <2>1. trust' = trust
    BY <1>2 DEF prepare_handler
  <2> QED BY <2>1
<1> QED BY <1>1, <1>2

\* Every step keeps to successes.
LEMMA NextSuccess ==
  TypeOK /\ PreparedBelowQuorum /\ SuccessOnly /\ [Next]_vars => SuccessOnly'
<1> SUFFICES ASSUME TypeOK, PreparedBelowQuorum, SuccessOnly, [Next]_vars PROVE SuccessOnly'
  OBVIOUS
<1>0. trust.Unsat = 0 /\ net \in Channels(SuccessMessage, ClientMessage)
  BY DEF SuccessOnly
<1>1. /\ RoundMessage \subseteq SuccessMessage
      /\ \A order \in Nat :
           /\ [type |-> "MsgSend", sendReply |-> TRUE, order |-> order] \in SuccessMessage
           /\ [type |-> "MsgReply", result |-> TRUE, order |-> order] \in SuccessMessage
  BY DEF RoundMessage, SuccessMessage, NodeMessage
<1>2. \A k \in SuccessMessage : k.type = "MsgSend" =>
         [type |-> "MsgReply", result |-> k.sendReply, order |-> k.order] \in SuccessMessage
  <2> SUFFICES ASSUME NEW k \in SuccessMessage, k.type = "MsgSend"
               PROVE  [type |-> "MsgReply", result |-> k.sendReply, order |-> k.order]
                         \in SuccessMessage
    OBVIOUS
  <2>1. k.order \in Nat /\ k.sendReply = TRUE
    BY NodeMessageFields DEF SuccessMessage
  <2> QED BY <1>1, <2>1
<1>3. /\ \A k \in ClientMessage : k.type # "MsgSend"
      /\ [type : {"MsgGroup"}, message : Requests] \subseteq ClientMessage
      /\ [type |-> "MsgAck"] \in ClientMessage
  BY DEF ClientMessage
<1>4. ASSUME NEW n \in Nodes, NEW q \in Peers, Node(n, q) PROVE SuccessOnly'
  <2>1. CASE prepare_handler(n, q)
    <3>1. net' \in Channels(SuccessMessage, ClientMessage)
      BY <1>0, <1>1, <2>1, QuorumTraffic
    <3>2. UNCHANGED replies
      BY <2>1 DEF prepare_handler, clientVars
    <3> QED BY <1>0, <2>1, <3>1, <3>2, QuorumIsVerified DEF SuccessOnly
  <2>2. CASE send_reply_handler(n, q)
    <3>1. net' \in Channels(SuccessMessage, ClientMessage)
      BY <1>0, <1>2, <1>3, <2>2, SendReplyTraffic
    <3> QED BY <2>2, <3>1 DEF SuccessOnly, send_reply_handler, clientVars
  <2>3. CASE ~prepare_handler(n, q) /\ ~send_reply_handler(n, q)
    <3>1. net' \in Channels(SuccessMessage, ClientMessage)
      BY <1>0, <1>1, <1>4, <2>3, RoundTraffic DEF Node
    <3>2. UNCHANGED trust /\ UNCHANGED replies
      BY <1>4, <2>3 DEF Node, group_request_handler, primary_consensus_handler,
           primary_verified_handler, preprepare_handler, ack_handler,
           process_next_request, CloseRound, clientVars
    <3> QED BY <3>1, <3>2 DEF SuccessOnly
  <2> QED BY <2>1, <2>2, <2>3
<1>5. ASSUME NEW t \in Threads, multicast(t) PROVE SuccessOnly'
  <2>1. net' \in Channels(SuccessMessage, ClientMessage)
    BY <1>0, <1>3, <1>5, MulticastTraffic
  <2> QED BY <1>5, <2>1 DEF SuccessOnly, multicast
<1>6. ASSUME NEW c \in Clients, NEW q \in Nodes, reply_handler(c, q) PROVE SuccessOnly'
  <2> DEFINE m == Head(net[q][c])
             tally == [replies[c] EXCEPT ![m.result] = @ + 1]
  <2>1. net' \in Channels(SuccessMessage, ClientMessage)
    BY <1>0, <1>3, <1>6, ReplyTraffic
  <2>2. net[q][c] # <<>> /\ m.type = "MsgReply"
    BY <1>6 DEF reply_handler, Arrives
  <2>3. m \in SuccessMessage
    BY <1>0, <2>2, HeadOnChannel DEF Peers
  <2>4. m.result = TRUE
    BY <2>2, <2>3 DEF SuccessMessage
  <2> HIDE DEF m
  <2>5. tally[FALSE] = 0
    BY <2>4 DEF SuccessOnly, TypeOK
  <2>6. replies' = [replies EXCEPT ![c] = Judged(tally)] /\ UNCHANGED trust
    BY <1>6 DEF reply_handler, m
  <2> HIDE DEF tally
  <2>7. Judged(tally)[FALSE] = 0
    BY <2>5 DEF Judged, NoAnswer
  <2>8. \A d \in Clients : replies'[d][FALSE] = 0
    BY <2>6, <2>7 DEF SuccessOnly, TypeOK
  <2> QED BY <1>0, <2>1, <2>6, <2>8 DEF SuccessOnly
<1>7. CASE UNCHANGED vars
  BY <1>7 DEF SuccessOnly, vars, clientVars
<1> QED BY <1>4, <1>5, <1>6, <1>7 DEF Next

\* No transaction is ever recorded as unsatisfactory and no client is ever
\* told that a registration failed: the branches of the code for it are dead.
THEOREM FailuresSilent == Spec => []FailuresAreSilent
<1>1. Init => SuccessOnly
  <2> SUFFICES ASSUME Init PROVE SuccessOnly
    OBVIOUS
  <2>1. net \in Channels(SuccessMessage, ClientMessage)
    BY InitChannels
  <2> QED BY <2>1 DEF Init, SuccessOnly, NoAnswer
<1> QED BY <1>1, TypeCorrect, CountBelowQuorum, NextSuccess, SuccessIsSilent, PTL DEF Spec

----------------------------------------------------------------------------
(* Groups too small for the quorum.                                        *)

Undersized == MaxPrepared \in 1..(PrepareQuorum - 1)

\* Nothing but the messages of a round was ever sent.
NothingAnswered ==
    /\ trust.Sat = 0
    /\ net \in Channels(RoundMessage, [type : {"MsgGroup"}, message : Requests])

\* With max_prepared below the quorum no prepare ever completes a quorum.
LEMMA QuorumOutOfReach ==
  ASSUME TypeOK, PreparedBelowQuorum, Undersized, NEW n \in Nodes, NEW q \in Peers
  PROVE  ~QuorumReached(Prepared(n, q, Head(net[q][n])))
<1> DEFINE prepared == Prepared(n, q, Head(net[q][n]))
<1>1. prepared \in {prepared_messages, prepared_messages + 1}
  BY DEF Prepared
<1>2. /\ prepared_messages \in Nat /\ PrepareQuorum \in Nat
      /\ prepared_messages < MaxPrepared /\ MaxPrepared \in 1..(PrepareQuorum - 1)
  BY SizeAssumption DEF TypeOK, PreparedBelowQuorum, Undersized
<1> HIDE DEF prepared
<1>3. ~(prepared >= PrepareQuorum)
  BY <1>1, <1>2
<1> QED BY <1>3 DEF QuorumReached, prepared

\* So every step stays among the messages of a round.
LEMMA NextUnanswered ==
  TypeOK /\ PreparedBelowQuorum /\ Undersized /\ NothingAnswered /\ [Next]_vars
      => NothingAnswered'
<1> SUFFICES ASSUME TypeOK, PreparedBelowQuorum, Undersized, NothingAnswered, [Next]_vars
             PROVE  NothingAnswered'
  OBVIOUS
<1> DEFINE C == [type : {"MsgGroup"}, message : Requests]
<1>0. net \in Channels(RoundMessage, C)
  BY DEF NothingAnswered
<1>1. ASSUME NEW n \in Nodes, NEW q \in Peers, Node(n, q) PROVE NothingAnswered'
  <2>1. ~send_reply_handler(n, q)
    <3> SUFFICES ASSUME send_reply_handler(n, q) PROVE FALSE
      OBVIOUS
    <3>1. net[q][n] # <<>> /\ Head(net[q][n]).type = "MsgSend"
      BY DEF send_reply_handler, Arrives
    <3>2. Head(net[q][n]) \in RoundMessage \cup C
      BY <1>0, <3>1, HeadOnChannel DEF Peers
    <3> QED BY <3>1, <3>2 DEF RoundMessage
  <2>2. ~QuorumReached(Prepared(n, q, Head(net[q][n])))
    BY QuorumOutOfReach
  <2>3. net' \in Channels(RoundMessage, C)
    BY <1>0, <1>1, <2>1, <2>2, RoundTraffic DEF Node
  <2>4. UNCHANGED trust
    BY <1>1, <2>1, <2>2 DEF Node, group_request_handler, primary_consensus_handler,
         primary_verified_handler, preprepare_handler, prepare_handler, ack_handler,
         process_next_request
  <2> QED BY <2>3, <2>4 DEF NothingAnswered
<1>2. ASSUME NEW t \in Threads, multicast(t) PROVE NothingAnswered'
  <2>1. net' \in Channels(RoundMessage, C)
    BY <1>0, <1>2, MulticastTraffic
  <2> QED BY <1>2, <2>1 DEF NothingAnswered, multicast
<1>3. ASSUME NEW c \in Clients, NEW q \in Nodes, reply_handler(c, q) PROVE FALSE
  <2>1. net[q][c] # <<>> /\ Head(net[q][c]).type = "MsgReply"
    BY <1>3 DEF reply_handler, Arrives
  <2>2. Head(net[q][c]) \in RoundMessage
    BY <1>0, <2>1, HeadOnChannel DEF Peers
  <2> QED BY <2>1, <2>2 DEF RoundMessage
<1>4. CASE UNCHANGED vars
  BY <1>4 DEF NothingAnswered, vars
<1> QED BY <1>1, <1>2, <1>3, <1>4 DEF Next

\* NothingAnswered is about the messages UndersizedNeverCommits looks at.
LEMMA UnansweredNeverCommits ==
  (Undersized => NothingAnswered) => UndersizedNeverCommits
<1> SUFFICES ASSUME NothingAnswered, NEW p \in Peers, NEW q \in Peers,
                    NEW i \in DOMAIN net[p][q]
             PROVE  net[p][q][i].type \notin {"MsgSend", "MsgReply", "MsgAck"}
  BY DEF Undersized, NothingAnswered, UndersizedNeverCommits
<1> DEFINE C == [type : {"MsgGroup"}, message : Requests]
<1>1. net[p][q] \in Seq(RoundMessage) \/ net[p][q] \in Seq(C)
  BY DEF NothingAnswered, Channels, Peers
<1>2. net[p][q][i] \in RoundMessage \cup C
  BY <1>1, LenProperties, ElementOfSeq
<1> QED BY <1>2 DEF RoundMessage

\* A configuration whose max_prepared is below the prepare quorum, as four to
\* eight nodes with the fractions of config.h give, never answers a request.
THEOREM UndersizedSilent == Spec => []UndersizedNeverCommits
<1>1. Init => NothingAnswered
  <2> SUFFICES ASSUME Init PROVE NothingAnswered
    OBVIOUS
  <2>1. net \in Channels(RoundMessage, [type : {"MsgGroup"}, message : Requests])
    BY InitChannels
  <2> QED BY <2>1 DEF Init, NothingAnswered
<1>2. Init => (Undersized => NothingAnswered)
  BY <1>1
<1>3. TypeOK /\ PreparedBelowQuorum /\ (Undersized => NothingAnswered) /\ [Next]_vars
         => (Undersized => NothingAnswered)'
  BY NextUnanswered DEF Undersized, MaxPrepared
<1> QED BY <1>2, <1>3, TypeCorrect, CountBelowQuorum, UnansweredNeverCommits, PTL DEF Spec

----------------------------------------------------------------------------
(* A lead that is alone in the primary group.                              *)

\* Only requests are on the channels, and only clients send them.
OnlyRequests == net \in Channels({}, [type : {"MsgGroup"}, message : Requests])

\* A lead with nobody to ask proposes nothing.
LEMMA LonelyProposal ==
  ASSUME TypeOK, UNCHANGED <<primaryGroup, randomValue>>, PrimarySize = 1,
         NEW n \in Nodes, NEW q
  PROVE  Proposal(n, q) = Nothing
<1>1. /\ primaryGroup' \in Seq(Nodes) /\ Len(primaryGroup') = 1
      /\ randomValue' = 1
  <2>1. primaryGroup \in Seq(Nodes) /\ Len(primaryGroup) = 1
    BY GroupsOfRanking DEF TypeOK
  <2>2. randomValue = 1
    BY DEF TypeOK
  <2>3. primaryGroup' = primaryGroup /\ randomValue' = randomValue
    OBVIOUS
  <2> QED BY <2>1, <2>2, <2>3
<1>2. Members(primaryGroup') = {primaryGroup'[1]}
  BY <1>1 DEF Members
<1>3. CASE primaryGroup'[randomValue'] = n
  <2>1. Members(primaryGroup') \ {n} = {}
    BY <1>1, <1>2, <1>3
  <2> QED BY <2>1 DEF Proposal, To, Nothing
<1>4. CASE primaryGroup'[randomValue'] # n
  BY <1>4 DEF Proposal
<1> QED BY <1>3, <1>4

\* So every step adds requests to the channels or takes them off.
LEMMA NextLonely ==
  TypeOK /\ PrimarySize = 1 /\ OnlyRequests /\ [Next]_vars => OnlyRequests'
<1> SUFFICES ASSUME TypeOK, PrimarySize = 1, OnlyRequests, [Next]_vars PROVE OnlyRequests'
  OBVIOUS
<1> DEFINE C == [type : {"MsgGroup"}, message : Requests]
<1>0. net \in Channels({}, C)
  BY DEF OnlyRequests
<1>1. ASSUME NEW p \in Peers, NEW q \in Peers, net[q][p] # <<>>
      PROVE  q \in Clients /\ Head(net[q][p]).type = "MsgGroup"
  <2>1. (q \in Nodes => Head(net[q][p]) \in {}) /\ (q \in Clients => Head(net[q][p]) \in C)
    BY <1>0, <1>1, HeadOnChannel
  <2> QED BY <2>1 DEF Peers
<1>2. ASSUME NEW n \in Nodes, NEW q \in Peers, Node(n, q) PROVE OnlyRequests'
  <2>1. n \in Peers
    BY DEF Peers
  <2>2. net[q][n] # <<>> /\ group_request_handler(n, q)
    BY <1>1, <1>2, <2>1 DEF Node, group_request_handler, primary_consensus_handler,
       primary_verified_handler, preprepare_handler, prepare_handler, send_reply_handler,
       ack_handler, process_next_request, Arrives
  <2>3. UNCHANGED <<primaryGroup, randomValue>>
    BY <2>2 DEF group_request_handler, groupVars
  <2>4. Handle(n, q, Nothing)
    BY <2>2, <2>3, LonelyProposal DEF group_request_handler
  <2>5. Nothing \in [Peers -> Seq(IF n \in Nodes THEN {} ELSE C)]
    BY NothingSent
  <2> QED BY <1>0, <2>1, <2>2, <2>4, <2>5, HandleChannels DEF OnlyRequests
<1>3. ASSUME NEW t \in Threads, multicast(t) PROVE OnlyRequests'
  BY <1>0, <1>3, MulticastTraffic DEF OnlyRequests
<1>4. ASSUME NEW c \in Clients, NEW q \in Nodes, reply_handler(c, q) PROVE FALSE
  <2>1. net[q][c] # <<>> /\ c \in Peers /\ q \in Peers
    BY <1>4 DEF reply_handler, Arrives, Peers
  <2>2. q \in Clients
    BY <1>1, <2>1
  <2> QED BY <2>2, PeerAssumption
<1>5. CASE UNCHANGED vars
  BY <1>5 DEF OnlyRequests, vars
<1> QED BY <1>2, <1>3, <1>4, <1>5 DEF Next

\* The requests are all LonelyLeadIsSilent sees.
LEMMA RequestsAreSilent == (PrimarySize = 1 => OnlyRequests) => LonelyLeadIsSilent
<1> SUFFICES ASSUME OnlyRequests, NEW p \in Peers, NEW q \in Peers, NEW i \in DOMAIN net[p][q]
             PROVE  net[p][q][i].type = "MsgGroup"
  BY DEF LonelyLeadIsSilent
<1> DEFINE C == [type : {"MsgGroup"}, message : Requests]
<1>1. net[p][q] \in Seq({} \cup C)
  BY DEF OnlyRequests, Channels
<1>2. net[p][q][i] \in C
  BY <1>1, LenProperties, ElementOfSeq
<1> QED BY <1>2

\* A primary group of one, as four to six nodes with the fractions of
\* config.h give, never sends a message at all: the lead multicasts to the
\* others of its group and waits for answers nobody will send.
THEOREM LonelySilent == Spec => []LonelyLeadIsSilent
<1>1. Init => (PrimarySize = 1 => OnlyRequests)
  BY InitChannels DEF OnlyRequests
<1>2. TypeOK /\ (PrimarySize = 1 => OnlyRequests) /\ [Next]_vars
         => (PrimarySize = 1 => OnlyRequests)'
  BY NextLonely
<1> QED BY <1>1, <1>2, TypeCorrect, RequestsAreSilent, PTL DEF Spec

----------------------------------------------------------------------------
(* A list of answers that was left full.                                   *)

\* The sum of two counts, one of which may grow.
LEMMA SumOfCounts ==
  \A a, b \in Nat : a + b \in Nat /\ (a + 1) + b = (a + b) + 1 /\ a + (b + 1) = (a + b) + 1
  OBVIOUS

\* One more answer makes one more, of whatever kind.
LEMMA OneMoreAnswer ==
  ASSUME NEW tally \in [BOOLEAN -> Nat], NEW answer \in BOOLEAN
  PROVE  Answers([tally EXCEPT ![answer] = @ + 1]) = Answers(tally) + 1
<1> DEFINE more == [tally EXCEPT ![answer] = @ + 1]
<1>1. /\ answer = TRUE => more[TRUE] = tally[TRUE] + 1 /\ more[FALSE] = tally[FALSE]
      /\ answer = FALSE => more[FALSE] = tally[FALSE] + 1 /\ more[TRUE] = tally[TRUE]
  BY Zenon
<1>2. tally[TRUE] \in Nat /\ tally[FALSE] \in Nat
  OBVIOUS
<1>3. answer = TRUE \/ answer = FALSE
  BY Zenon
<1>4. Answers(more) = more[TRUE] + more[FALSE] /\ Answers(tally) = tally[TRUE] + tally[FALSE]
  BY Zenon DEF Answers
<1> HIDE DEF more
<1>5. Answers(more) = Answers(tally) + 1
  <2>1. CASE answer = TRUE
    BY <1>1, <1>2, <1>4, <2>1, SumOfCounts, Zenon
  <2>2. CASE answer = FALSE
    BY <1>1, <1>2, <1>4, <2>2, SumOfCounts, Zenon
  <2> QED BY <1>3, <2>1, <2>2, Zenon
<1> QED BY <1>5 DEF more

\* A step of a node clears the list of a node only if exactly a full set of
\* answers is in it, counting the one that arrives.
LEMMA AnswersGrow ==
  ASSUME TypeOK, [Next]_vars, NEW k \in Nodes, Answers(verified_message[k]) >= PrimarySize - 1
  PROVE  Answers(verified_message'[k]) >= Answers(verified_message[k])
<1>0. /\ verified_message \in [Nodes -> [BOOLEAN -> Nat]]
      /\ Answers(verified_message[k]) \in Nat
  <2>1. verified_message \in [Nodes -> [BOOLEAN -> Nat]]
    BY DEF TypeOK
  <2>2. verified_message[k][TRUE] \in Nat /\ verified_message[k][FALSE] \in Nat
    BY <2>1, Zenon
  <2>3. Answers(verified_message[k]) = verified_message[k][TRUE] + verified_message[k][FALSE]
    BY Zenon DEF Answers
  <2> QED BY <2>1, <2>2, <2>3, SumOfCounts, Zenon
<1>1. ASSUME NEW n \in Nodes, NEW q \in Peers, primary_verified_handler(n, q)
      PROVE  Answers(verified_message'[k]) >= Answers(verified_message[k])
  <2> DEFINE m == Head(net[q][n])
             answers == [verified_message[n] EXCEPT ![m.verified] = @ + 1]
  <2>1. m.verified \in BOOLEAN
    <3>1. net[q][n] # <<>> /\ m.type = "MsgPrimaryVerified"
      BY <1>1 DEF primary_verified_handler, Arrives
    <3>2. (q \in Nodes => m \in NodeMessage) /\ (q \in Clients => m \in ClientMessage)
      BY <3>1, HeadOnChannel DEF TypeOK, Peers
    <3> QED BY <3>1, <3>2, NodeMessageFields, ClientMessageFields DEF Peers
  <2>2. Answers(answers) = Answers(verified_message[n]) + 1
    BY <1>0, <2>1, OneMoreAnswer
  <2>3. \/ verified_message' = [verified_message EXCEPT ![n] = answers]
        \/ /\ verified_message' = [verified_message EXCEPT ![n] = NoAnswer]
           /\ (IF AllAnswered(answers) THEN answers[TRUE] ELSE 0) # 0
    BY <1>1 DEF primary_verified_handler
  <2> HIDE DEF answers
  <2>4. CASE verified_message' = [verified_message EXCEPT ![n] = answers]
    <3>1. CASE k = n
      BY <1>0, <2>2, <2>4, <3>1
    <3>2. CASE k # n
      BY <1>0, <2>4, <3>2
    <3> QED BY <3>1, <3>2
  <2>5. CASE /\ verified_message' = [verified_message EXCEPT ![n] = NoAnswer]
             /\ (IF AllAnswered(answers) THEN answers[TRUE] ELSE 0) # 0
    <3>1. Answers(answers) = Len(primaryGroup) - 1
      BY <2>5 DEF AllAnswered
    <3>2. Len(primaryGroup) = PrimarySize /\ PrimarySize \in Nat
      BY GroupsOfRanking, SizeAssumption DEF TypeOK
    <3>3. k # n
      BY <1>0, <2>2, <3>1, <3>2
    <3> QED BY <1>0, <2>5, <3>3
  <2> QED BY <2>3, <2>4, <2>5
<1>2. ASSUME UNCHANGED verified_message
      PROVE  Answers(verified_message'[k]) >= Answers(verified_message[k])
  BY <1>0, <1>2
<1>3. ASSUME NEW n \in Nodes, NEW q \in Peers, Node(n, q), ~primary_verified_handler(n, q)
      PROVE  UNCHANGED verified_message
  BY <1>3 DEF Node, group_request_handler, primary_consensus_handler, preprepare_handler,
     prepare_handler, send_reply_handler, ack_handler, process_next_request
<1>4. ASSUME NEW t \in Threads, multicast(t) PROVE UNCHANGED verified_message
  BY <1>4 DEF multicast
<1>5. ASSUME NEW c \in Clients, NEW q \in Nodes, reply_handler(c, q)
      PROVE  UNCHANGED verified_message
  BY <1>5 DEF reply_handler
<1>6. ASSUME UNCHANGED vars PROVE UNCHANGED verified_message
  BY <1>6 DEF vars
<1> QED BY <1>1, <1>2, <1>3, <1>4, <1>5, <1>6 DEF Next

\* A node that once kept a full set of answers, because it rejected the
\* request or had left the primary group when it accepted, keeps it for ever.
THEOREM DeafStaysDeaf == Spec => DeafLeadStaysDeaf
<1>1. TypeOK /\ [Next]_vars
        => [\A n \in Nodes : Answers(verified_message[n]) >= PrimarySize - 1
              => Answers(verified_message'[n]) >= Answers(verified_message[n])]_vars
  BY AnswersGrow
<1> QED BY <1>1, TypeCorrect, PTL DEF Spec, DeafLeadStaysDeaf

----------------------------------------------------------------------------
(* Group signatures never outlive their groups.                            *)

\* The members of lists that are cut and joined.
LEMMA SeqMembers ==
  ASSUME NEW M, NEW s \in Seq(M), NEW t \in Seq(M)
  PROVE  /\ Members(s \o t) \subseteq Members(s) \cup Members(t)
         /\ s # <<>> => Members(Tail(s)) \subseteq Members(s)
<1>1. ASSUME NEW i \in DOMAIN (s \o t)
      PROVE  (s \o t)[i] \in Members(s) \cup Members(t)
  <2>1. CASE i \in DOMAIN s
    BY <2>1 DEF Members
  <2>2. CASE i \notin DOMAIN s
    <3>1. i - Len(s) \in DOMAIN t /\ (s \o t)[i] = t[i - Len(s)]
      BY <1>1, <2>2
    <3> QED BY <3>1 DEF Members
  <2> QED BY <2>1, <2>2
<1>2. ASSUME s # <<>>, NEW i \in DOMAIN Tail(s) PROVE Tail(s)[i] \in Members(s)
  <2>1. i + 1 \in DOMAIN s /\ Tail(s)[i] = s[i + 1]
    BY <1>2
  <2> QED BY <2>1 DEF Members
<1> QED BY <1>1, <1>2 DEF Members

\* After a message was handled a channel holds what it held before and, if
\* it is one of the handling peer, what that peer sent.
LEMMA HandleMembers ==
  ASSUME NEW N, NEW C, net \in Channels(N, C), NEW n \in Peers, NEW q \in Peers,
         net[q][n] # <<>>, NEW out \in [Peers -> Seq(N \cup C)], Handle(n, q, out),
         NEW a \in Peers, NEW b \in Peers, NEW m \in Members(net'[a][b])
  PROVE  m \in Members(net[a][b]) \/ (a = n /\ m \in Members(out[b]))
<1>1. net[a][b] \in Seq(N \cup C) /\ out[b] \in Seq(N \cup C)
  BY DEF Channels
<1>2. net'[a][b] = IF a = q /\ b = n THEN Tail(net[a][b])
                   ELSE IF a = n THEN net[a][b] \o out[b]
                   ELSE net[a][b]
  BY DEF Handle
<1>3. CASE a = q /\ b = n
  BY <1>1, <1>2, <1>3, SeqMembers
<1>4. CASE ~(a = q /\ b = n) /\ a = n
  BY <1>1, <1>2, <1>4, SeqMembers
<1>5. CASE ~(a = q /\ b = n) /\ a # n
  BY <1>2, <1>5
<1> QED BY <1>3, <1>4, <1>5

\* A message from p to q carries no group signature of a later key, and one
\* of the current key only where a round of the current groups puts it.
Placed(m, p, q) ==
    /\ m.type = "MsgPreprepare" =>
          /\ m.signature.key <= groupKey
          /\ m.signature.key = groupKey => q \in Members(consensusGroup) \ Members(primaryGroup)
    /\ m.type = "MsgPrepare" =>
          /\ m.groupSign.key <= groupKey
          /\ m.groupSign.key = groupKey => /\ p \in Members(consensusGroup) \ Members(primaryGroup)
                                           /\ q \in Members(consensusGroup)

\* RewardsStayInGroups speaks of prepares only; they come from pre-prepares.
AllPlaced == \A p, q \in Peers : \A m \in Members(net[p][q]) : Placed(m, p, q)

\* What a peer sends carries no group signature.
Unsigned(out) ==
    /\ out \in [Peers -> Seq(NodeMessage \cup ClientMessage)]
    /\ \A b \in Peers : \A m \in Members(out[b]) : m.type \notin {"MsgPreprepare", "MsgPrepare"}

\* One message to some peers is what each of them gets, and nothing else.
LEMMA ToMembers ==
  /\ \A S, m : \A b \in Peers : Members(To(S, m)[b]) = IF b \in S THEN {m} ELSE {}
  /\ \A b \in Peers : Members(Nothing[b]) = {}
<1>1. Members(<<>>) = {} /\ \A m : Members(<<m>>) = {m}
  BY DEF Members
<1>2. ASSUME NEW S, NEW m, NEW b \in Peers
      PROVE  Members(To(S, m)[b]) = IF b \in S THEN {m} ELSE {}
  <2>1. To(S, m)[b] = IF b \in S THEN <<m>> ELSE <<>>
    BY DEF To
  <2> QED BY <1>1, <2>1
<1>3. ASSUME NEW b \in Peers PROVE Members(Nothing[b]) = {}
  BY <1>1, <1>3 DEF Nothing
<1> QED BY <1>2, <1>3

\* Sending nothing, a message without a group signature, or two such things
\* in a row.
LEMMA UnsignedSends ==
  /\ Unsigned(Nothing)
  /\ \A S : \A m \in NodeMessage \cup ClientMessage :
        m.type \notin {"MsgPreprepare", "MsgPrepare"} => Unsigned(To(S, m))
  /\ \A f, g : Unsigned(f) /\ Unsigned(g) => Unsigned(Then(f, g))
<1> DEFINE M == NodeMessage \cup ClientMessage
<1>1. Unsigned(Nothing)
  BY NothingSent, ToMembers DEF Unsigned
<1>2. ASSUME NEW S, NEW m \in M, m.type \notin {"MsgPreprepare", "MsgPrepare"}
      PROVE  Unsigned(To(S, m))
  <2> HIDE DEF M
  <2>1. To(S, m) \in [Peers -> Seq(M)]
    BY ToSent
  <2>2. ASSUME NEW b \in Peers, NEW k \in Members(To(S, m)[b]) PROVE k = m
    <3>1. Members(To(S, m)[b]) = IF b \in S THEN {m} ELSE {}
      BY ToMembers
    <3> QED BY <2>2, <3>1
  <2> QED BY <1>2, <2>1, <2>2 DEF Unsigned, M
<1>3. ASSUME NEW f, NEW g, Unsigned(f), Unsigned(g) PROVE Unsigned(Then(f, g))
  <2> HIDE DEF M
  <2>1. f \in [Peers -> Seq(M)] /\ g \in [Peers -> Seq(M)]
    BY <1>3 DEF Unsigned, M
  <2>2. Then(f, g) \in [Peers -> Seq(M)]
    BY <2>1, ThenSent
  <2>3. ASSUME NEW b \in Peers
        PROVE  Members(Then(f, g)[b]) \subseteq Members(f[b]) \cup Members(g[b])
    <3>1. f[b] \in Seq(M) /\ g[b] \in Seq(M) /\ Then(f, g)[b] = f[b] \o g[b]
      BY <2>1 DEF Then
    <3> QED BY <3>1, SeqMembers
  <2> QED BY <1>3, <2>2, <2>3 DEF Unsigned, M
<1> QED BY <1>1, <1>2, <1>3

\* The lead's proposal and the message that closes a round are of that kind.
LEMMA UnsignedProposal ==
  ASSUME orderNumber \in Nat, NEW n \in Nodes, NEW q \in Seq(Entry)
  PROVE  Unsigned(Proposal(n, q)) /\ Unsigned(NextRequest(n))
<1> DEFINE m == [type |-> "MsgPrimaryConsensus", order |-> orderNumber + 1,
                 signature |-> Sign(n, orderNumber + 1, Head(q).message)]
<1>0. Unsigned(NextRequest(n))
  <2> DEFINE k == [type |-> "MsgNextRequest"]
  <2>1. k \in NodeMessage /\ k.type = "MsgNextRequest"
    BY DEF NodeMessage
  <2>2. NextRequest(n) = To(Nodes \ {n}, k)
    BY DEF NextRequest
  <2> HIDE DEF k
  <2> QED BY <2>1, <2>2, UnsignedSends
<1>1. CASE q # <<>> /\ primaryGroup'[randomValue'] = n
  <2>1. Head(q) \in Entry
    BY <1>1
  <2>2. Sign(n, orderNumber + 1, Head(q).message) \in PeerSignature
    BY <2>1, PeerSigned DEF Entry, Texts
  <2>3. m \in NodeMessage /\ m.type = "MsgPrimaryConsensus"
    BY <2>2 DEF NodeMessage
  <2>4. Proposal(n, q) = To(Members(primaryGroup') \ {n}, m)
    BY <1>1 DEF Proposal
  <2> HIDE DEF m
  <2> QED BY <1>0, <2>3, <2>4, UnsignedSends
<1>2. CASE ~(q # <<>> /\ primaryGroup'[randomValue'] = n)
  BY <1>0, <1>2, UnsignedSends DEF Proposal
<1> QED BY <1>1, <1>2

\* A step that leaves the groups and the key alone and sends only what is
\* placed keeps everything placed.
LEMMA KeepsPlaced ==
  ASSUME TypeOK, AllPlaced, UNCHANGED <<groupVars, groupKey>>,
         NEW n \in Peers, NEW q \in Peers, net[q][n] # <<>>,
         NEW out \in [Peers -> Seq(NodeMessage \cup ClientMessage)], Handle(n, q, out),
         \A b \in Peers : \A m \in Members(out[b]) : Placed(m, n, b)
  PROVE  AllPlaced'
<1> SUFFICES ASSUME NEW a \in Peers, NEW b \in Peers, NEW m \in Members(net'[a][b])
             PROVE  Placed(m, a, b)'
  BY DEF AllPlaced
<1>1. net \in Channels(NodeMessage, ClientMessage)
  BY DEF TypeOK
<1>2. m \in Members(net[a][b]) \/ (a = n /\ m \in Members(out[b]))
  BY <1>1, HandleMembers
<1>3. Placed(m, a, b)
  BY <1>2 DEF AllPlaced
<1> QED BY <1>3 DEF Placed, groupVars

\* Closing a round makes every group signature on the channels stale.
LEMMA ClosePlaced ==
  ASSUME TypeOK, AllPlaced, NEW n \in Nodes, NEW q \in Peers, net[q][n] # <<>>, CloseRound(n, q)
  PROVE  AllPlaced'
<1>1. /\ net \in Channels(NodeMessage, ClientMessage) /\ groupKey \in Nat
      /\ n \in Peers /\ orderNumber \in Nat
      /\ requestQueue[n] \in Seq(Entry)
  BY DEF TypeOK, Peers, Entry
<1>2. groupKey' = groupKey + 1
  BY DEF CloseRound, changeGroupKey
<1>3. ASSUME NEW a \in Peers, NEW b \in Peers, NEW m \in Members(net[a][b])
      PROVE  Placed(m, a, b)'
  <2>1. /\ m.type = "MsgPreprepare" => m.signature.key \in Nat /\ m.signature.key <= groupKey
        /\ m.type = "MsgPrepare" => m.groupSign.key \in Nat /\ m.groupSign.key <= groupKey
    <3>1. net[a][b] \in Seq(NodeMessage) \/ net[a][b] \in Seq(ClientMessage)
      BY <1>1 DEF Channels, Peers
    <3>2. m \in NodeMessage \/ m \in ClientMessage
      BY <3>1, LenProperties, ElementOfSeq DEF Members
    <3>3. /\ m.type = "MsgPreprepare" => m.signature.key \in Nat
          /\ m.type = "MsgPrepare" => m.groupSign.key \in Nat
      BY <3>2, ClientMessageFields DEF NodeMessage, GroupSignature
    <3> QED BY <3>3 DEF AllPlaced, Placed
  <2> QED BY <1>1, <1>2, <2>1 DEF Placed
<1>4. CASE requestQueue[n] # <<>>
           /\ Handle(n, q, Then(NextRequest(n), Proposal(n, Tail(requestQueue[n]))))
  <2> DEFINE rest == Tail(requestQueue[n])
             out == Then(NextRequest(n), Proposal(n, rest))
  <2>1. rest \in Seq(Entry)
    BY <1>1, <1>4
  <2> HIDE DEF rest
  <2>2. Unsigned(out)
    BY <1>1, <2>1, UnsignedProposal, UnsignedSends
  <2>3. Handle(n, q, out)
    BY <1>4 DEF rest
  <2> HIDE DEF out
  <2> SUFFICES ASSUME NEW a \in Peers, NEW b \in Peers, NEW m \in Members(net'[a][b])
               PROVE  Placed(m, a, b)'
    BY DEF AllPlaced
  <2>4. m \in Members(net[a][b]) \/ (a = n /\ m \in Members(out[b]))
    BY <1>1, <2>2, <2>3, HandleMembers DEF Unsigned
  <2>5. CASE m \in Members(out[b])
    BY <2>2, <2>5 DEF Unsigned, Placed
  <2> QED BY <1>3, <2>4, <2>5
<1>5. CASE UNCHANGED net
  BY <1>3, <1>5 DEF AllPlaced
<1> QED BY <1>4, <1>5 DEF CloseRound

\* Sending without a group signature, key and groups unchanged.
LEMMA UnsignedKeepsPlaced ==
  ASSUME TypeOK, AllPlaced, UNCHANGED <<groupVars, groupKey>>,
         NEW n \in Peers, NEW q \in Peers, net[q][n] # <<>>,
         NEW out, Unsigned(out), Handle(n, q, out)
  PROVE  AllPlaced'
<1>1. out \in [Peers -> Seq(NodeMessage \cup ClientMessage)]
  BY DEF Unsigned
<1>2. \A b \in Peers : \A m \in Members(out[b]) : Placed(m, n, b)
  BY DEF Unsigned, Placed
<1> QED BY <1>1, <1>2, KeepsPlaced

\* The two handlers that send group signatures: the lead signs with the
\* current key for the consensus group outside the primary group, and one of
\* those passes a signature on if it is of the current key.
LEMMA SignersKeepPlaced ==
  ASSUME TypeOK, AllPlaced, NEW n \in Nodes, NEW q \in Peers,
         primary_verified_handler(n, q) \/ preprepare_handler(n, q)
  PROVE  AllPlaced'
<1> DEFINE m == Head(net[q][n])
           M == NodeMessage \cup ClientMessage
<1>0. /\ net \in Channels(NodeMessage, ClientMessage) /\ n \in Peers
      /\ groupKey \in Nat /\ orderNumber \in Nat /\ client_request[n] \in Texts
  BY DEF TypeOK, Peers
<1>1. net[q][n] # <<>>
  BY DEF primary_verified_handler, preprepare_handler, Arrives
<1>2. (q \in Nodes => m \in NodeMessage) /\ (q \in Clients => m \in ClientMessage)
  BY <1>0, <1>1, HeadOnChannel
<1>3. ASSUME UNCHANGED <<groupVars, groupKey>>, Handle(n, q, Nothing) PROVE AllPlaced'
  BY <1>0, <1>1, <1>3, UnsignedKeepsPlaced, UnsignedSends
<1>4. ASSUME UNCHANGED <<groupVars, groupKey>>, NEW S, NEW k \in NodeMessage,
             Handle(n, q, To(S, k)), \A b \in S : Placed(k, n, b)
      PROVE  AllPlaced'
  <2> HIDE DEF M
  <2>1. To(S, k) \in [Peers -> Seq(M)]
    BY ToSent DEF M
  <2>2. ASSUME NEW b \in Peers, NEW l \in Members(To(S, k)[b]) PROVE Placed(l, n, b)
    <3>1. Members(To(S, k)[b]) = IF b \in S THEN {k} ELSE {}
      BY ToMembers
    <3>2. l = k /\ b \in S
      BY <2>2, <3>1
    <3> QED BY <1>4, <3>2
  <2> QED BY <1>0, <1>1, <1>4, <2>1, <2>2, KeepsPlaced DEF M
<1>5. CASE primary_verified_handler(n, q)
  <2> DEFINE k == [type |-> "MsgPreprepare", order |-> orderNumber,
                   signature |-> Sign(groupKey, orderNumber, client_request[n])]
             S == Members(consensusGroup) \ Members(primaryGroup)
  <2>1. \/ UNCHANGED <<groupVars, groupKey>> /\ Handle(n, q, To(S, k))
        \/ UNCHANGED <<groupVars, groupKey>> /\ Handle(n, q, Nothing)
        \/ CloseRound(n, q)
    BY <1>5 DEF primary_verified_handler
  <2>2. k.signature.key = groupKey /\ k.type = "MsgPreprepare"
    BY DEF Sign
  <2>3. k \in NodeMessage
    BY <1>0, GroupSigned DEF NodeMessage
  <2> HIDE DEF k
  <2>4. \A b \in S : Placed(k, n, b)
    BY <1>0, <2>2 DEF Placed
  <2> HIDE DEF S
  <2> QED BY <1>1, <1>3, <1>4, <2>1, <2>3, <2>4, ClosePlaced
<1>6. CASE preprepare_handler(n, q)
  <2> DEFINE k == [type |-> "MsgPrepare", order |-> m.order, groupSign |-> m.signature,
                   peerSign |-> Sign(n, m.order, client_request[n])]
             S == Members(consensusGroup) \ {n}
             verify == VerifySignature(m.order, client_request[n], m.signature, groupKey)
  <2>1. /\ m.type = "MsgPreprepare" /\ UNCHANGED <<groupVars, groupKey>>
        /\ Handle(n, q, IF verify THEN To(S, k) ELSE Nothing)
    BY <1>6 DEF preprepare_handler, Arrives
  <2>2. m.order \in Nat /\ m.signature \in GroupSignature
    BY <1>2, <2>1, NodeMessageFields, ClientMessageFields DEF Peers
  <2>3. k \in NodeMessage
    BY <1>0, <2>2, PeerSigned DEF NodeMessage
  <2>4. k.groupSign = m.signature /\ k.type = "MsgPrepare"
    OBVIOUS
  <2>5. Placed(m, q, n)
    <3>1. m \in Members(net[q][n])
      <4>1. net[q][n] \in Seq(M)
        BY <1>0 DEF Channels
      <4>2. 1 \in DOMAIN net[q][n] /\ m = net[q][n][1]
        BY <1>1, <4>1
      <4> QED BY <4>2 DEF Members
    <3> QED BY <1>0, <3>1 DEF AllPlaced
  <2>6. verify => m.signature.key = groupKey
    BY DEF VerifySignature, Sign
  <2> HIDE DEF m, k
  <2>7. verify => \A b \in S : Placed(k, n, b)
    BY <1>0, <2>1, <2>4, <2>5, <2>6 DEF Placed
  <2> HIDE DEF S, verify
  <2> QED BY <1>3, <1>4, <2>1, <2>3, <2>7
<1> QED BY <1>5, <1>6

\* Every step keeps every group signature in its place.
LEMMA NextPlaced == TypeOK /\ AllPlaced /\ [Next]_vars => AllPlaced'
<1> SUFFICES ASSUME TypeOK, AllPlaced, [Next]_vars PROVE AllPlaced'
  OBVIOUS
<1>1. ASSUME NEW n \in Nodes, NEW q \in Peers, Node(n, q) PROVE AllPlaced'
  <2> DEFINE m == Head(net[q][n])
  <2>0. /\ net \in Channels(NodeMessage, ClientMessage) /\ n \in Peers /\ orderNumber \in Nat
        /\ NodeTypes
    BY TypeParts DEF TypeOK, Peers
  <2>1. net[q][n] # <<>>
    BY <1>1 DEF Node, group_request_handler, primary_consensus_handler, primary_verified_handler,
       preprepare_handler, prepare_handler, send_reply_handler, ack_handler,
       process_next_request, Arrives
  <2>2. (q \in Nodes => m \in NodeMessage) /\ (q \in Clients => m \in ClientMessage)
    BY <2>0, <2>1, HeadOnChannel
  <2>3. ASSUME UNCHANGED <<groupVars, groupKey>>, NEW out, Unsigned(out), Handle(n, q, out)
        PROVE  AllPlaced'
    BY <2>0, <2>1, <2>3, UnsignedKeepsPlaced
  <2>4. Unsigned(Nothing)
    BY UnsignedSends
  <2>5. ASSUME NEW order \in Nat, NEW result \in BOOLEAN PROVE Unsigned(Reply(n, order, result))
    <3> DEFINE k == [type |-> "MsgReply", result |-> result, order |-> order]
    <3>1. k \in NodeMessage /\ k.type = "MsgReply"
      BY DEF NodeMessage
    <3>2. Reply(n, order, result) = To({client_id[n]}, k)
      BY DEF Reply
    <3> HIDE DEF k
    <3> QED BY <3>1, <3>2, UnsignedSends
  <2>6. CASE group_request_handler(n, q)
    <3> DEFINE queue == Enqueue(requestQueue[n], [client |-> q, message |-> m.message])
    <3>1. m.type = "MsgGroup" /\ UNCHANGED <<groupVars, groupKey>>
          /\ (Handle(n, q, Nothing) \/ Handle(n, q, Proposal(n, queue)))
      BY <2>6 DEF group_request_handler, Arrives
    <3>2. m.message \in Requests /\ q \in Clients
      BY <2>2, <3>1, NodeMessageFields, ClientMessageFields DEF Peers
    <3>3. queue \in Seq(Entry)
      BY <2>0, <3>2, EnqueuedTypes
    <3> HIDE DEF queue
    <3> QED BY <2>0, <2>3, <2>4, <3>1, <3>3, UnsignedProposal
  <2>7. CASE primary_consensus_handler(n, q)
    <3> DEFINE k == [type |-> "MsgPrimaryVerified",
                     verified |-> VerifySignature(m.order, client_request[n], m.signature, q)]
    <3>1. UNCHANGED <<groupVars, groupKey>> /\ Handle(n, q, To({q}, k))
      BY <2>7 DEF primary_consensus_handler
    <3>2. k \in NodeMessage /\ k.type = "MsgPrimaryVerified"
      BY DEF NodeMessage, VerifySignature
    <3> HIDE DEF k
    <3> QED BY <2>3, <3>1, <3>2, UnsignedSends
  <2>8. CASE primary_verified_handler(n, q) \/ preprepare_handler(n, q)
    BY <2>8, SignersKeepPlaced
  <2>9. CASE prepare_handler(n, q)
    <3> DEFINE k == [type |-> "MsgSend", sendReply |-> TRUE, order |-> m.order]
               S == Members(consensusGroup) \ {n}
    <3>1. /\ m.type = "MsgPrepare"
          /\ \/ UNCHANGED <<groupVars, groupKey>>
                /\ Handle(n, q, Then(To(S, k), Reply(n, m.order, TRUE)))
             \/ UNCHANGED <<groupVars, groupKey>> /\ Handle(n, q, Nothing)
             \/ CloseRound(n, q)
      BY <2>9 DEF prepare_handler, Arrives
    <3>2. m.order \in Nat
      BY <2>2, <3>1, NodeMessageFields, ClientMessageFields DEF Peers
    <3>3. k \in NodeMessage /\ k.type = "MsgSend"
      BY <3>2 DEF NodeMessage
    <3> HIDE DEF m, k, S
    <3>4. Unsigned(Then(To(S, k), Reply(n, m.order, TRUE)))
      BY <2>5, <3>2, <3>3, UnsignedSends
    <3> QED BY <2>1, <2>3, <2>4, <3>1, <3>4, ClosePlaced
  <2>10. CASE send_reply_handler(n, q)
    <3>1. /\ m.type = "MsgSend" /\ UNCHANGED <<groupVars, groupKey>>
          /\ Handle(n, q, Reply(n, m.order, m.sendReply))
      BY <2>10 DEF send_reply_handler, Arrives
    <3>2. m.order \in Nat /\ m.sendReply \in BOOLEAN
      BY <2>2, <3>1, NodeMessageFields, ClientMessageFields DEF Peers
    <3> QED BY <2>3, <2>5, <3>1, <3>2
  <2>11. CASE ack_handler(n, q)
    BY <2>1, <2>11, ClosePlaced DEF ack_handler
  <2>12. CASE process_next_request(n, q)
    <3> DEFINE rest == Tail(requestQueue[n])
    <3>1. CASE requestQueue[n] # <<>> /\ Handle(n, q, Proposal(n, rest))
      <4>1. rest \in Seq(Entry)
        BY <2>0, <3>1 DEF NodeTypes
      <4>2. UNCHANGED <<groupVars, groupKey>>
        BY <2>12 DEF process_next_request
      <4> HIDE DEF rest
      <4> QED BY <2>0, <2>3, <3>1, <4>1, <4>2, UnsignedProposal
    <3>2. CASE UNCHANGED net
      BY <2>12, <3>2 DEF process_next_request, AllPlaced, Placed, groupVars
    <3> QED BY <2>12, <3>1, <3>2 DEF process_next_request
  <2> QED BY <1>1, <2>6, <2>7, <2>8, <2>9, <2>10, <2>11, <2>12 DEF Node
<1>2. ASSUME NEW t \in Threads, multicast(t) PROVE AllPlaced'
  <2> DEFINE c == ClientOf[t]
             k == [type |-> "MsgGroup", message |-> Head(script[t])]
             sent == [p \in Peers |-> IF p \in Nodes THEN Append(net[c][p], k) ELSE net[c][p]]
  <2>1. /\ net \in Channels(NodeMessage, ClientMessage) /\ c \in Peers
        /\ script[t] \in Seq(Requests) /\ script[t] # <<>>
    BY <1>2, RequestAssumption DEF TypeOK, Peers, multicast
  <2>2. k \in ClientMessage /\ k.type = "MsgGroup"
    BY <2>1 DEF ClientMessage
  <2>3. net' = [net EXCEPT ![c] = sent] /\ UNCHANGED <<groupVars, groupKey>>
    BY <1>2 DEF multicast
  <2> HIDE DEF k, c
  <2> SUFFICES ASSUME NEW a \in Peers, NEW b \in Peers, NEW m \in Members(net'[a][b])
               PROVE  Placed(m, a, b)'
    BY DEF AllPlaced
  <2>4. m \in Members(net[a][b]) \/ m = k
    <3>1. CASE net'[a][b] = net[a][b]
      BY <3>1
    <3>2. CASE net'[a][b] = Append(net[a][b], k)
      <4>1. net[a][b] \in Seq(NodeMessage \cup ClientMessage)
        BY <2>1 DEF Channels
      <4>2. PICK i \in DOMAIN Append(net[a][b], k) : m = Append(net[a][b], k)[i]
        BY <3>2 DEF Members
      <4>3. i \in DOMAIN net[a][b] \/ m = k
        BY <2>2, <4>1, <4>2
      <4>4. i \in DOMAIN net[a][b] => m = net[a][b][i]
        BY <2>2, <4>1, <4>2
      <4> QED BY <4>3, <4>4 DEF Members
    <3>3. net \in [Peers -> [Peers -> Seq(NodeMessage \cup ClientMessage)]]
      BY <2>1 DEF Channels
    <3> QED BY <2>1, <2>3, <3>1, <3>2, <3>3
  <2>5. Placed(m, a, b)
    BY <2>2, <2>4 DEF AllPlaced, Placed
  <2> QED BY <2>3, <2>5 DEF Placed, groupVars
<1>3. ASSUME NEW c \in Clients, NEW q \in Nodes, reply_handler(c, q) PROVE AllPlaced'
  <2> DEFINE k == [type |-> "MsgAck"]
  <2>1. /\ c \in Peers /\ q \in Peers /\ net[q][c] # <<>>
        /\ UNCHANGED <<groupVars, groupKey>>
        /\ Handle(c, q, To({q}, k)) \/ Handle(c, q, Nothing)
    BY <1>3 DEF reply_handler, Arrives, Peers
  <2>2. k \in ClientMessage /\ k.type = "MsgAck"
    BY DEF ClientMessage
  <2> HIDE DEF k
  <2>3. Unsigned(To({q}, k)) /\ Unsigned(Nothing)
    BY <2>2, UnsignedSends
  <2> QED BY <2>1, <2>3, UnsignedKeepsPlaced
<1>4. CASE UNCHANGED vars
  BY <1>4 DEF AllPlaced, Placed, vars, groupVars
<1> QED BY <1>1, <1>2, <1>3, <1>4 DEF Next

\* AllPlaced is about the prepares RewardsStayInGroups looks at.
LEMMA PlacedStaysInGroups == AllPlaced => RewardsStayInGroups
<1> SUFFICES ASSUME AllPlaced, NEW p \in Peers, NEW q \in Peers, NEW i \in DOMAIN net[p][q]
             PROVE  Placed(net[p][q][i], p, q)
  BY DEF RewardsStayInGroups, Placed
<1> QED BY DEF AllPlaced, Members

\* The shared group key never outlives the shared groups: whatever rounds
\* are closed under it, a prepare that can still be counted was sent by a
\* member of today's groups to a member of today's groups, so a quorum never
\* rewards a node that has left them.
THEOREM RewardsInGroups == Spec => []RewardsStayInGroups
<1>1. Init => AllPlaced
  BY DEF Init, AllPlaced, Members
<1> QED BY <1>1, TypeCorrect, NextPlaced, PlacedStaysInGroups, PTL DEF Spec
=============================================================================
