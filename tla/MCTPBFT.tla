------------------------------ MODULE MCTPBFT ------------------------------
(***************************************************************************)
(* Instances of TPBFT for TLC, with one client (README.md: "it is only a   *)
(* single client trying to connect"), and what the client may expect of    *)
(* one request.                                                            *)
(***************************************************************************)
EXTENDS LockStep, FiniteSetsExt

CONSTANTS n1, n2, n3, n4, n5, t1, t2, x, y, z

Three == {n1, n2, n3}
Four == Three \cup {n4}
Five == Four \cup {n5}

\* The ranking either stays or brings another lead, and an outsider, in.
ThreeRankings == {<<n1, n2, n3>>, <<n3, n2, n1>>}
FourRankings == {<<n1, n2, n3, n4>>, <<n4, n2, n1, n3>>}

FiveRankings == {<<n1, n2, n3, n4, n5>>}

\* The sizes config.h's fractions make of 7 and of 9 nodes.  Nodes outside the
\* consensus group only queue and close; the instances leave some of them out.
Config == INSTANCE Sizes
ConsensusOf7 == Config!Consensus(7, 6)
PrimaryOf7 == Config!Primary(ConsensusOf7, 5)
PreparesOf7 == Config!Prepares(7, 6)
RepliesOf7 == Config!Replies(7, 6)
ConsensusOf9 == Config!Consensus(9, 6)
PrimaryOf9 == Config!Primary(ConsensusOf9, 5)
PreparesOf9 == Config!Prepares(9, 6)
RepliesOf9 == Config!Replies(9, 6)

OfClient == [t \in Threads |-> client]

\* client/main.cpp: thread message sends two requests, message2 one.
OneRequest == [t \in Threads |-> <<x>>]
Burst == [t \in Threads |-> IF t = t1 THEN <<x, y>> ELSE <<y>>]
LongBurst == [t \in Threads |-> <<x, y, z>>]

----------------------------------------------------------------------------
(* Liveness of one request.                                                *)

Quiet == \A p, q \in Peers : net[p][q] = <<>>

\* The traffic of finitely many requests dies down: no two nodes keep each
\* other closing rounds or answering for ever.
Quiesces == <>[](aborted \/ Quiet)

\* Once all nodes hold the request before any of them answered the proposal,
\* it is registered with the client.
InStepIsRegistered == InStep ~> \E n \in Nodes : InFlight(n, "MsgAck") # {}

\* Requests node n still has to close, those not yet sent included.
Unsettled(n) ==
    Len(requestQueue[n]) + Len(Arriving(n)) + MapThenSumSet(LAMBDA t : Len(script[t]), Threads)

\* With groups too small for the quorum it is closed at every node instead,
\* by the branch of prepare_handler that counts to max_prepared: the client
\* is not told, but the line does not stand still.
InStepIsDropped ==
    \A k \in 1..3 : InStep /\ (\A n \in Nodes : Unsettled(n) = k)
                        ~> aborted \/ \A n \in Nodes : Unsettled(n) < k

----------------------------------------------------------------------------
(* What the comments of server/node.h say.                                 *)

\* node.h on ack_handler: "Simple handler printing that an ACK got received".
\* Printing leaves the state of the node and of the groups alone.
AckOnlyPrints ==
    [][\A n \in Nodes, q \in Peers :
          ack_handler(n, q) => UNCHANGED <<nodeVars, groupVars, groupKey, aborted>>]_vars
============================================================================
