----------------------------- MODULE OneClient -----------------------------
(***************************************************************************)
(* The nodes with the one client the program is written for (README.md:    *)
(* "it is only a single client trying to connect"): what each node will    *)
(* make of the client's requests, and that all nodes make the same of it.  *)
(***************************************************************************)
EXTENDS TPBFT

CONSTANT client     \* the PeerId of the client process

ASSUME ClientAssumption == Clients = {client}

\* The requests among the messages s of the client, as they will be queued.
Queued(sofar, m) ==
    IF m.type = "MsgGroup" THEN Append(sofar, [client |-> client, message |-> m.message])
    ELSE sofar

Requested(s) ==
    LET first[i \in 0..Len(s)] == IF i = 0 THEN <<>> ELSE Queued(first[i - 1], s[i])
    IN  first[Len(s)]

Arriving(n) == Requested(net[client][n])

Queues == INSTANCE RequestQueues WITH
              Entries <- Entry,
              arriving <- [n \in Nodes |-> Arriving(n)],
              closing <- [n \in Nodes |-> Cardinality(InFlight(n, "MsgNextRequest"))]

\* As far as queues go, the nodes do nothing but queue in the order of the
\* client and pop their fronts, once for every round that any node closes.
ImplementsQueues == Queues!Spec

\* The request line as node n will see it once everything that is on its way
\* to it has arrived.
LineOf(n) == Queues!LineOf(n)

\* Nodes that have seen different parts of the traffic still agree on what
\* remains to be done, and in which order.
NodesAgreeOnLine == \A m, n \in Nodes : LineOf(m) = LineOf(n)

\* The messages of a type on their way, by sender, receiver and place.
Underway(type) ==
    UNION {{<<p, q, i>> : i \in {j \in DOMAIN net[p][q] : net[p][q][j].type = type}}
              : p \in Peers, q \in Peers}

\* However rounds overlap on the network, nothing is counted a second time:
\* what was rewarded, counted or sent for the orders given out so far adds up
\* to the prepares of as many rounds, and the replies counted, under way and
\* acknowledged to those of one consensus group for every reward.
NothingCountedTwice ==
    /\ PrepareQuorum * trust.Sat + prepared_messages
         + Cardinality(Underway("MsgPrepare"))
         + (ConsensusSize - 1) * Cardinality(Underway("MsgPreprepare"))
            <= MaxPrepared * orderNumber
    /\ Cardinality(Underway("MsgSend")) + Cardinality(Underway("MsgReply"))
         + replies[client][TRUE] + ReplyQuorum * Cardinality(Underway("MsgAck"))
            <= ConsensusSize * trust.Sat
============================================================================
