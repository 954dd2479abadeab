------------------------------- MODULE TPBFT -------------------------------
(***************************************************************************)
(* The request round of the T-PBFT server (server/node.cpp) with the       *)
(* static state its nodes share (server/rsakey.cpp, the groups of          *)
(* server/TrustManager.cpp) and the client that drives it                  *)
(* (client/main.cpp).                                                      *)
(*                                                                         *)
(* All nodes live in one process and every handler runs on the one event   *)
(* loop of main.cpp, so a handler is one atomic action.  What interleaves  *)
(* is the arrival of messages: a channel between two peers is FIFO (one    *)
(* TCP connection), channels are independent of each other.                *)
(*                                                                         *)
(* C++ containers are modelled by the part of them the code reads: a       *)
(* std::list<bool> that is only counted is a tally, the global trust map   *)
(* that is only sorted is a ranking of the nodes.  Messages and fields no  *)
(* handler reads are left out: the MsgAck a node sends back for a request, *)
(* which the client only prints, and the request text that travels beside  *)
(* a signature.  So are the counter num_acks, which nothing reads, and the *)
(* processing timer, which no registered handler reads (module Timer).     *)
(*                                                                         *)
(* A definition whose name ends in _mut is a faulty variant of the one     *)
(* that follows it; nothing here uses it.  It documents a change of the    *)
(* code the properties would notice.                                       *)
(***************************************************************************)
EXTENDS Integers, Sequences, FiniteSets

CONSTANTS
    Nodes,          \* the PeerIds of the NUM_NODES replicas
    Clients,        \* the PeerIds of client processes
    NoPeer,         \* a default-constructed PeerId
    Requests,       \* the request texts clients send
    Threads,        \* the sending threads of the clients
    ClientOf,       \* the client a thread belongs to
    Script,         \* the requests each thread multicasts, in order
    Rankings,       \* the orders by global trust the trust map may take
    ConsensusSize,  \* D2 * NUM_NODES
    PrimarySize,    \* M2 * |consensusGroup|
    PrepareQuorum,  \* fault_tolerance of prepare_handler
    ReplyQuorum     \* fault_tolerance of the client's reply_handler

Empty == ""         \* client_request after a round was closed
Space == " "        \* client_request after process_next_request

ASSUME PeerAssumption ==
    /\ Nodes \cap Clients = {}
    /\ NoPeer \notin Nodes \cup Clients

ASSUME RequestAssumption ==
    /\ Requests \cap {Empty, Space} = {}
    /\ ClientOf \in [Threads -> Clients]
    /\ Script \in [Threads -> Seq(Requests)]

\* A ranking lists every node once, at least as many as a group needs.
ASSUME SizeAssumption ==
    /\ ConsensusSize \in Nat
    /\ PrimarySize \in 1..ConsensusSize
    /\ PrepareQuorum \in Nat \ {0}
    /\ ReplyQuorum \in Nat \ {0}
    /\ \A r \in Rankings :
          /\ r \in Seq(Nodes)
          /\ Len(r) >= ConsensusSize
          /\ \A i, j \in 1..Len(r) : r[i] = r[j] => i = j

Peers == Nodes \cup Clients
Texts == Requests \cup {Empty, Space}

VARIABLES
    requestQueue,     \* per node: requests received and not yet closed
    busy,             \* per node: a request is being processed
    client_request,   \* per node: text of the request being processed
    client_id,        \* per node: client of the request last processed
    verified_message, \* per node: answers of the primary group, counted
    orderNumber,      \* RSAKeyGenerator::orderNumber
    randomValue,      \* RSAKeyGenerator::randomValue, counted from 1
    prepared_messages,\* RSAKeyGenerator::prepared_messages
    groupKey,         \* generation of the group key pair
    ranking,          \* nodes by descending TrustManager::globalTrustMap
    consensusGroup,   \* TrustManager::consensusGroup
    primaryGroup,     \* TrustManager::primaryGroup
    trust,            \* Sat and Unsat recorded by updateTrust, all pairs
    script,           \* per client thread: requests still to multicast
    replies,          \* per client: verified_message of client/main.cpp
    net,              \* net[p][q]: messages from p to q, oldest first
    aborted           \* pop_front on an empty list killed the process

nodeVars   == <<requestQueue, busy, client_request, client_id, orderNumber>>
groupVars  == <<ranking, consensusGroup, primaryGroup>>
clientVars == <<script, replies>>
vars == <<nodeVars, verified_message, randomValue, prepared_messages, groupKey,
          groupVars, trust, clientVars, net, aborted>>

----------------------------------------------------------------------------
(* Signatures and messages.  SignMessage covers orderNumber + text, the    *)
(* concatenation of a decimal number and a text; no text of a client       *)
(* starts with a digit, so the pair stands for the string.                 *)

Sign(key, order, text) == [key |-> key, order |-> order, text |-> text]

VerifySignature(order, text, signature, key) == signature = Sign(key, order, text)

Entry == [client : Clients, message : Requests]    \* of a request queue

PeerSignature  == [key : Nodes, order : Nat, text : Texts]
GroupSignature == [key : Nat, order : Nat, text : Texts]

NodeMessage ==
    [type : {"MsgPrimaryConsensus"}, order : Nat, signature : PeerSignature]
      \cup [type : {"MsgPrimaryVerified"}, verified : BOOLEAN]
      \cup [type : {"MsgPreprepare"}, order : Nat, signature : GroupSignature]
      \cup [type : {"MsgPrepare"}, order : Nat, groupSign : GroupSignature,
            peerSign : PeerSignature]
      \cup [type : {"MsgSend"}, sendReply : BOOLEAN, order : Nat]
      \cup [type : {"MsgReply"}, result : BOOLEAN, order : Nat]
      \cup [type : {"MsgNextRequest"}]

ClientMessage == [type : {"MsgGroup"}, message : Requests] \cup [type : {"MsgAck"}]

\* The states of the network in which nodes have sent messages of N, clients
\* messages of C.
Channels(N, C) ==
    {f \in [Peers -> [Peers -> Seq(N \cup C)]] :
        \A p \in Peers : /\ \A n \in Nodes : f[n][p] \in Seq(N)
                         /\ \A c \in Clients : f[c][p] \in Seq(C)}

\* What a handler sends: for every peer, the messages it gets, in order.
Nothing == [p \in Peers |-> <<>>]
To(S, m) == [p \in Peers |-> IF p \in S THEN <<m>> ELSE <<>>]
Then(first, second) == [p \in Peers |-> first[p] \o second[p]]

\* The oldest message from q to n is of the given type.
Arrives(n, q, type) == net[q][n] # <<>> /\ Head(net[q][n]).type = type

\* n consumes the oldest message from q and sends out.
Handle(n, q, out) ==
    net' = [a \in Peers |-> [b \in Peers |->
              IF a = q /\ b = n THEN Tail(net[a][b])
              ELSE IF a = n THEN net[a][b] \o out[b]
              ELSE net[a][b]]]

----------------------------------------------------------------------------
(* Groups: getConsensusGroup and getPrimaryGroup take the best of the      *)
(* ranking; std::sort of an unchanged map yields the same order again.     *)

Members(group) == {group[i] : i \in DOMAIN group}

Regroup ==
    /\ consensusGroup' = SubSeq(ranking', 1, ConsensusSize)
    /\ primaryGroup' = SubSeq(consensusGroup', 1, PrimarySize)

\* updateDirectTrust and updateGlobalTrust, run for every node, may leave any
\* ranking behind.
updateGlobalTrust == ranking' \in Rankings

\* updateTrust counts a transaction of a pair of nodes as satisfactory or not.
updateTrust(satisfactory) ==
    IF satisfactory THEN [trust EXCEPT !.Sat = @ + 1] ELSE [trust EXCEPT !.Unsat = @ + 1]

randomValueGenerator == randomValue' \in 1..PrimarySize

changeGroupKey_mut == UNCHANGED groupKey
changeGroupKey == groupKey' = groupKey + 1

\* max_prepared of prepare_handler: every other member of the consensus
\* group hears from each of its members outside the primary group.
MaxPrepared == (ConsensusSize - PrimarySize) * (ConsensusSize - 1)

clearPreparedMessages_mut(count) == count
clearPreparedMessages(count) == 0

NoAnswer == [b \in BOOLEAN |-> 0]

Init ==
    /\ requestQueue = [n \in Nodes |-> <<>>]
    /\ busy = [n \in Nodes |-> FALSE]
    /\ client_request = [n \in Nodes |-> Empty]
    /\ client_id = [n \in Nodes |-> NoPeer]
    /\ verified_message = [n \in Nodes |-> NoAnswer]
    /\ orderNumber = 0
    /\ prepared_messages = 0
    /\ ranking \in Rankings
    /\ consensusGroup = SubSeq(ranking, 1, ConsensusSize)
    /\ primaryGroup = SubSeq(consensusGroup, 1, PrimarySize)
    /\ randomValue \in 1..PrimarySize
    /\ groupKey = 1
    /\ trust = [Sat |-> 0, Unsat |-> 0]
    /\ script = Script
    /\ replies = [c \in Clients |-> NoAnswer]
    /\ net = [p \in Peers |-> [q \in Peers |-> <<>>]]
    /\ aborted = FALSE

----------------------------------------------------------------------------
(* Processing the front of the queue.                                      *)

\* n's queue becomes q and, if it is not empty, process_group_request runs
\* on its front; the lead takes the next order number.
Process_mut(n, q, idle) ==
    /\ requestQueue' = [requestQueue EXCEPT ![n] = q]
    /\ busy' = [busy EXCEPT ![n] = q # <<>>]
    /\ client_request' =
          [client_request EXCEPT ![n] = IF q = <<>> THEN @ ELSE Head(q).message]
    /\ client_id' = [client_id EXCEPT ![n] = IF q = <<>> THEN Empty ELSE Head(q).client]
    /\ orderNumber' = IF q # <<>> /\ primaryGroup'[randomValue'] = n
                      THEN orderNumber + 1 ELSE orderNumber

Process(n, q, idle) ==
    /\ requestQueue' = [requestQueue EXCEPT ![n] = q]
    /\ busy' = [busy EXCEPT ![n] = q # <<>>]
    /\ client_request' =
          [client_request EXCEPT ![n] = IF q = <<>> THEN idle ELSE Head(q).message]
    /\ client_id' = [client_id EXCEPT ![n] = IF q = <<>> THEN @ ELSE Head(q).client]
    /\ orderNumber' = IF q # <<>> /\ primaryGroup'[randomValue'] = n
                      THEN orderNumber + 1 ELSE orderNumber

\* What process_group_request sends: the lead asks the primary group.
Proposal(n, q) ==
    IF q # <<>> /\ primaryGroup'[randomValue'] = n
    THEN To(Members(primaryGroup') \ {n},
            [type |-> "MsgPrimaryConsensus", order |-> orderNumber + 1,
             signature |-> Sign(n, orderNumber + 1, Head(q).message)])
    ELSE Nothing

NextRequest_mut(n) == To(Nodes, [type |-> "MsgNextRequest"])
NextRequest(n) == To(Nodes \ {n}, [type |-> "MsgNextRequest"])

\* n closes its round, tells every peer to do so, and starts the next one.
\* requestQueue.pop_front() on an empty std::list frees the sentinel inside
\* the Node: the C library aborts the process and every node with it, so it
\* does not matter which of the assignments around it were already made.
CloseRound(n, q) ==
    LET rest == Tail(requestQueue[n]) IN
    /\ Regroup
    /\ changeGroupKey
    /\ UNCHANGED clientVars
    /\ \/ /\ requestQueue[n] # <<>>
          /\ Process(n, rest, Empty)
          /\ Handle(n, q, Then(NextRequest(n), Proposal(n, rest)))
          /\ UNCHANGED aborted
       \/ /\ requestQueue[n] = <<>>
          /\ aborted' = TRUE
          /\ UNCHANGED <<nodeVars, net>>

----------------------------------------------------------------------------
(* The message handlers of node n, for the oldest message from peer q.     *)

Enqueue_mut(queue, entry) == <<entry>> \o queue
Enqueue(queue, entry) == Append(queue, entry)

group_request_handler(n, q) ==
    LET entry == [client |-> q, message |-> Head(net[q][n]).message]
        queue == Enqueue(requestQueue[n], entry)
    IN
    /\ Arrives(n, q, "MsgGroup")
    /\ UNCHANGED <<verified_message, randomValue, prepared_messages, groupKey,
                   groupVars, trust, clientVars, aborted>>
    /\ \/ /\ busy[n]
          /\ requestQueue' = [requestQueue EXCEPT ![n] = queue]
          /\ Handle(n, q, Nothing)
          /\ UNCHANGED <<busy, client_request, client_id, orderNumber>>
       \/ /\ ~busy[n]
          /\ Process(n, queue, Empty)
          /\ Handle(n, q, Proposal(n, queue))

primary_consensus_handler(n, q) ==
    LET m == Head(net[q][n])
        verify == VerifySignature(m.order, client_request[n], m.signature, q)
    IN
    /\ Arrives(n, q, "MsgPrimaryConsensus")
    /\ Handle(n, q, To({q}, [type |-> "MsgPrimaryVerified", verified |-> verify]))
    /\ UNCHANGED <<nodeVars, verified_message, randomValue, prepared_messages,
                   groupKey, groupVars, trust, clientVars, aborted>>

Answers(tally) == tally[TRUE] + tally[FALSE]

\* The answers are judged only when exactly |primaryGroup| - 1 are there.
AllAnswered_mut(tally) == Answers(tally) >= Len(primaryGroup) - 1
AllAnswered(tally) == Answers(tally) = Len(primaryGroup) - 1

\* Accepting sends the pre-prepare and clears them, unless n has left the
\* primary group: getGroupPrivateKey throws and nothing is cleared.
\* Rejecting closes the round and clears nothing either.
primary_verified_handler(n, q) ==
    LET answers == [verified_message[n] EXCEPT ![Head(net[q][n]).verified] = @ + 1]
        judged == AllAnswered(answers)
        verifyTrue == IF judged THEN answers[TRUE] ELSE 0
        verifyFalse == IF judged THEN answers[FALSE] ELSE 0
        accepted == verifyTrue >= verifyFalse /\ verifyTrue # 0
        rejected == ~accepted /\ \/ verifyFalse = Len(primaryGroup) - 1
                                 \/ verifyFalse > verifyTrue
        preprepare == [type |-> "MsgPreprepare", order |-> orderNumber,
                       signature |-> Sign(groupKey, orderNumber, client_request[n])]
    IN
    /\ Arrives(n, q, "MsgPrimaryVerified")
    /\ UNCHANGED <<randomValue, prepared_messages, trust, clientVars>>
    /\ \/ /\ accepted
          /\ n \in Members(primaryGroup)
          /\ verified_message' = [verified_message EXCEPT ![n] = NoAnswer]
          /\ Handle(n, q, To(Members(consensusGroup) \ Members(primaryGroup), preprepare))
          /\ UNCHANGED <<nodeVars, groupKey, groupVars, aborted>>
       \/ /\ accepted => n \notin Members(primaryGroup)
          /\ ~rejected
          /\ verified_message' = [verified_message EXCEPT ![n] = answers]
          /\ Handle(n, q, Nothing)
          /\ UNCHANGED <<nodeVars, groupKey, groupVars, aborted>>
       \/ /\ rejected
          /\ verified_message' = [verified_message EXCEPT ![n] = answers]
          /\ UNCHANGED ranking
          /\ CloseRound(n, q)

preprepare_handler(n, q) ==
    LET m == Head(net[q][n])
        verify == VerifySignature(m.order, client_request[n], m.signature, groupKey)
        prepare == [type |-> "MsgPrepare", order |-> m.order, groupSign |-> m.signature,
                    peerSign |-> Sign(n, m.order, client_request[n])]
    IN
    /\ Arrives(n, q, "MsgPreprepare")
    /\ Handle(n, q, IF verify THEN To(Members(consensusGroup) \ {n}, prepare) ELSE Nothing)
    /\ UNCHANGED <<nodeVars, verified_message, randomValue, prepared_messages,
                   groupKey, groupVars, trust, clientVars, aborted>>

\* Replies to a default PeerId reach nobody.
Reply(n, order, result) ==
    To({client_id[n]}, [type |-> "MsgReply", result |-> result, order |-> order])

\* The count of prepares, with the one m that n has from q if both of its
\* signatures verify.
Prepared_mut(n, q, m) == prepared_messages + 1
Prepared(n, q, m) ==
    IF /\ VerifySignature(m.order, client_request[n], m.groupSign, groupKey)
       /\ VerifySignature(m.order, client_request[n], m.peerSign, q)
    THEN prepared_messages + 1
    ELSE prepared_messages

QuorumReached_mut(prepared) == prepared > PrepareQuorum
QuorumReached(prepared) == prepared >= PrepareQuorum

\* The count of verified prepares is shared by all nodes.
prepare_handler(n, q) ==
    LET m == Head(net[q][n])
        verify_peer == VerifySignature(m.order, client_request[n], m.peerSign, q)
        prepared == Prepared(n, q, m)
        send == [type |-> "MsgSend", sendReply |-> TRUE, order |-> m.order]
    IN
    /\ Arrives(n, q, "MsgPrepare")
    /\ UNCHANGED <<verified_message, randomValue, clientVars>>
    /\ \/ /\ QuorumReached(prepared)
          /\ prepared_messages' = clearPreparedMessages(prepared)
          /\ trust' = updateTrust(verify_peer)
          /\ Handle(n, q, Then(To(Members(consensusGroup) \ {n}, send),
                               Reply(n, m.order, TRUE)))
          /\ UNCHANGED <<nodeVars, groupKey, groupVars, aborted>>
       \/ /\ ~QuorumReached(prepared)
          /\ prepared # MaxPrepared
          /\ prepared_messages' = prepared
          /\ Handle(n, q, Nothing)
          /\ UNCHANGED <<nodeVars, groupKey, groupVars, trust, aborted>>
       \/ /\ ~QuorumReached(prepared)
          /\ prepared = MaxPrepared
          /\ prepared_messages' = clearPreparedMessages(prepared)
          /\ UNCHANGED <<ranking, trust>>
          /\ CloseRound(n, q)

send_reply_handler(n, q) ==
    LET m == Head(net[q][n]) IN
    /\ Arrives(n, q, "MsgSend")
    /\ prepared_messages' = clearPreparedMessages(prepared_messages)
    /\ Handle(n, q, Reply(n, m.order, m.sendReply))
    /\ UNCHANGED <<nodeVars, verified_message, randomValue, groupKey, groupVars,
                   trust, clientVars, aborted>>

ack_handler(n, q) ==
    /\ Arrives(n, q, "MsgAck")
    /\ updateGlobalTrust
    /\ randomValueGenerator
    /\ prepared_messages' = clearPreparedMessages(prepared_messages)
    /\ UNCHANGED <<verified_message, trust>>
    /\ CloseRound(n, q)

process_next_request(n, q) ==
    LET rest == Tail(requestQueue[n]) IN
    /\ Arrives(n, q, "MsgNextRequest")
    /\ UNCHANGED <<verified_message, randomValue, prepared_messages, groupKey,
                   groupVars, trust, clientVars>>
    /\ \/ /\ requestQueue[n] # <<>>
          /\ Process(n, rest, Space)
          /\ Handle(n, q, Proposal(n, rest))
          /\ UNCHANGED aborted
       \/ /\ requestQueue[n] = <<>>
          /\ aborted' = TRUE
          /\ UNCHANGED <<nodeVars, net>>

----------------------------------------------------------------------------
(* The client.                                                             *)

\* Thread t multicasts its next request to all nodes.
multicast(t) ==
    /\ script[t] # <<>>
    /\ script' = [script EXCEPT ![t] = Tail(@)]
    /\ net' = [net EXCEPT ![ClientOf[t]] =
                 [p \in Peers |-> IF p \in Nodes
                                  THEN Append(@[p], [type |-> "MsgGroup",
                                                     message |-> Head(script[t])])
                                  ELSE @[p]]]
    /\ UNCHANGED <<nodeVars, verified_message, randomValue, prepared_messages,
                   groupKey, groupVars, trust, replies, aborted>>

\* What is left of the tally of replies once it was judged.
Enough_mut(tally) == \E result \in BOOLEAN : tally[result] >= ReplyQuorum - 1
Enough(tally) == \E result \in BOOLEAN : tally[result] >= ReplyQuorum
Judged_mut(tally) == tally
Judged(tally) == IF Enough(tally) THEN NoAnswer ELSE tally

\* Enough equal replies, of whatever order number, register the transaction
\* and acknowledge it to the node whose reply came last.
reply_handler(c, q) ==
    LET tally == [replies[c] EXCEPT ![Head(net[q][c]).result] = @ + 1] IN
    /\ Arrives(c, q, "MsgReply")
    /\ replies' = [replies EXCEPT ![c] = Judged(tally)]
    /\ Handle(c, q, IF Enough(tally) THEN To({q}, [type |-> "MsgAck"]) ELSE Nothing)
    /\ UNCHANGED <<nodeVars, verified_message, randomValue, prepared_messages,
                   groupKey, groupVars, trust, script, aborted>>

----------------------------------------------------------------------------
(* reg_handlers: the messages a node has a handler for.                    *)

Node_mut(n, q) ==
    \/ group_request_handler(n, q)
    \/ primary_consensus_handler(n, q)
    \/ primary_verified_handler(n, q)
    \/ preprepare_handler(n, q)
    \/ prepare_handler(n, q)
    \/ send_reply_handler(n, q)
    \/ ack_handler(n, q)

Node(n, q) ==
    \/ group_request_handler(n, q)
    \/ primary_consensus_handler(n, q)
    \/ primary_verified_handler(n, q)
    \/ preprepare_handler(n, q)
    \/ prepare_handler(n, q)
    \/ send_reply_handler(n, q)
    \/ ack_handler(n, q)
    \/ process_next_request(n, q)

Next ==
    /\ ~aborted
    /\ \/ \E n \in Nodes, q \in Peers : Node(n, q)
       \/ \E t \in Threads : multicast(t)
       \/ \E c \in Clients, q \in Nodes : reply_handler(c, q)

Spec == Init /\ [][Next]_vars

\* Every thread gets to run, and the event loop serves every connection that
\* has something to read.
Fairness ==
    /\ \A t \in Threads : WF_vars(~aborted /\ multicast(t))
    /\ \A n \in Nodes, q \in Peers : WF_vars(~aborted /\ Node(n, q))
    /\ \A c \in Clients, q \in Nodes : WF_vars(~aborted /\ reply_handler(c, q))

FairSpec == Spec /\ Fairness

----------------------------------------------------------------------------
(* Properties.                                                             *)

\* Every variable holds values of its C++ type, the index of the lead is one
\* of the primary group, and no node ever plays the part of a client.
TypeOK ==
    /\ requestQueue \in [Nodes -> Seq(Entry)]
    /\ busy \in [Nodes -> BOOLEAN]
    /\ client_request \in [Nodes -> Texts]
    /\ client_id \in [Nodes -> Clients \cup {NoPeer}]
    /\ verified_message \in [Nodes -> [BOOLEAN -> Nat]]
    /\ orderNumber \in Nat
    /\ randomValue \in 1..PrimarySize
    /\ prepared_messages \in Nat
    /\ groupKey \in Nat
    /\ ranking \in Rankings
    /\ consensusGroup = SubSeq(ranking, 1, ConsensusSize)
    /\ primaryGroup = SubSeq(consensusGroup, 1, PrimarySize)
    /\ trust \in [Sat : Nat, Unsat : Nat]
    /\ script \in [Threads -> Seq(Requests)]
    /\ replies \in [Clients -> [BOOLEAN -> Nat]]
    /\ net \in Channels(NodeMessage, ClientMessage)
    /\ aborted \in BOOLEAN

\* The flag busy, the text and the client a node verifies signatures and
\* answers with are those of the front of its own queue; with no request it
\* holds a blank text that no client sends.  Four handlers pop the queue, and
\* each of them repeats the assignments by hand.
WorksOnFront ==
    \A n \in Nodes :
        /\ busy[n] <=> requestQueue[n] # <<>>
        /\ busy[n] => /\ client_request[n] = Head(requestQueue[n]).message
                      /\ client_id[n] = Head(requestQueue[n]).client
        /\ ~busy[n] => client_request[n] \in {Empty, Space}

\* Between handlers the shared count of prepares stays below the quorum, and
\* below max_prepared where that comes first: neither threshold is ever
\* passed over without its branch of prepare_handler being taken.
PreparedBelowQuorum ==
    /\ prepared_messages < PrepareQuorum
    /\ MaxPrepared \in 1..(PrepareQuorum - 1) => prepared_messages < MaxPrepared

\* A failure leaves no trace: no transaction is ever recorded as
\* unsatisfactory in the trust map (updateTrust gets verify_peer, but only a
\* verified prepare completes a quorum) and no client ever counts a negative
\* reply, so its branch "Transaction registration failed" never runs.
FailuresAreSilent ==
    /\ trust.Unsat = 0
    /\ \A c \in Clients : replies[c][FALSE] = 0
    /\ \A p, q \in Peers : \A i \in DOMAIN net[p][q] :
          /\ net[p][q][i].type = "MsgReply" => net[p][q][i].result
          /\ net[p][q][i].type = "MsgSend" => net[p][q][i].sendReply

\* With group sizes for which max_prepared is below the prepare quorum no
\* request is ever answered, whatever the clients and the network do.
UndersizedNeverCommits ==
    MaxPrepared \in 1..(PrepareQuorum - 1) =>
        /\ trust.Sat = 0
        /\ \A p, q \in Peers : \A i \in DOMAIN net[p][q] :
              net[p][q][i].type \notin {"MsgSend", "MsgReply", "MsgAck"}

\* A lead that is alone in the primary group has nobody to ask, and nobody
\* ever answers it: whatever the clients send is queued and nothing else is
\* ever sent.
LonelyLeadIsSilent ==
    PrimarySize = 1 =>
        \A p, q \in Peers : \A i \in DOMAIN net[p][q] : net[p][q][i].type = "MsgGroup"

\* A node whose list of answers has once been left with as many entries as a
\* full set (after a rejection, or after it left the primary group and
\* getGroupPrivateKey threw) never certifies anything again: the list only
\* grows, and a longer one is never judged.
DeafLeadStaysDeaf ==
    [][\A n \in Nodes :
          Answers(verified_message[n]) >= PrimarySize - 1
            => Answers(verified_message'[n]) >= Answers(verified_message[n])]_vars

\* What the next count of a prepare can reward stays in the groups: a prepare
\* whose group signature is of the current key goes from a member of the
\* consensus group outside the primary group to a member of the consensus
\* group.  A key never outlives its groups, though both are shared by all
\* nodes and replaced while prepares are on their way.
RewardsStayInGroups ==
    \A p, q \in Peers : \A i \in DOMAIN net[p][q] :
        LET m == net[p][q][i] IN
        m.type = "MsgPrepare" /\ m.groupSign.key = groupKey =>
            /\ p \in Members(consensusGroup) \ Members(primaryGroup)
            /\ q \in Members(consensusGroup)

\* The messages of a type on their way to n, by sender and place.
InFlight(n, type) ==
    UNION {{<<q, i>> : i \in {j \in DOMAIN net[q][n] : net[q][n][j].type = type}} : q \in Peers}

OnWire == UNION {{net[p][q][i] : i \in DOMAIN net[p][q]} : p \in Peers, q \in Peers}

\* The requests still open as n will see them once everything sent to it has
\* arrived: queued, plus on their way, minus the closes on their way.
Open(n) == Len(requestQueue[n]) + Cardinality(InFlight(n, "MsgGroup"))
              - Cardinality(InFlight(n, "MsgNextRequest"))

\* Every node will have closed the same number of requests: a close is taken
\* by each node exactly once, by the closing node itself or by its
\* MsgNextRequest, however closes of several nodes cross on the network.
ClosesCountedOnce == ~aborted => \A m, n \in Nodes : Open(m) = Open(n)

\* Every node works on the same request, the lead's proposal is unanswered and
\* no answers of an earlier round are counted for it.
InStep ==
    /\ ~aborted
    /\ \A n \in Nodes : busy[n]
    /\ \A m, n \in Nodes : client_request[m] = client_request[n]
    /\ verified_message[primaryGroup[randomValue]] = NoAnswer
    /\ \A n \in Members(primaryGroup) \ {primaryGroup[randomValue]} :
          InFlight(n, "MsgPrimaryConsensus") # {}

\* The prepares of a round are enough for one quorum, and its members are too
\* few for the replies the client waits for.
Starved ==
    /\ PrepareQuorum <= MaxPrepared /\ MaxPrepared < 2 * PrepareQuorum
    /\ ConsensusSize < ReplyQuorum

\* Then the first request, once all nodes hold it before any of them answered
\* the proposal, blocks the queue of every node for ever.
StarvedStandsStill ==
    Starved => [](groupKey = 1 /\ InStep => [](\A n \in Nodes : busy[n]))
============================================================================
