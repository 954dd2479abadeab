------------------------------ MODULE LockStep ------------------------------
(***************************************************************************)
(* Lock step: the MsgNextRequests of a closed round arrive before any      *)
(* other message does.  The program does not enforce it; it is the network *)
(* for which one round is over at all nodes before the next one begins.    *)
(***************************************************************************)
EXTENDS OneClient

Closing(p, n) == \E i \in DOMAIN net[p][n] : net[p][n][i].type = "MsgNextRequest"

\* While a close is on its way, some node reads from a connection with one.
ClosesFirst ==
    (\E p, n \in Nodes : Closing(p, n)) => \E p, n \in Nodes : Closing(p, n) /\ Node(n, p)

LockStepSpec == Init /\ [][Next /\ ClosesFirst]_vars

Service == INSTANCE RequestService WITH
               Entries <- Entry,
               line <- LineOf(CHOOSE n \in Nodes : TRUE),
               registered <- \E n \in Nodes : InFlight(n, "MsgAck") # {}

\* In lock step the nodes implement the service: an acknowledgement is only
\* ever on its way for the front of the line, once, and it is that request
\* it retires; no round is closed under it by anybody else.
ImplementsService == Service!Spec

\* No more rounds are closed than requests were sent.
NeverOverclosed == ~aborted => \A n \in Nodes : Open(n) >= 0

\* The process dies only if a close overtakes the request it closes: it
\* reaches a node the client's MsgGroup has not reached.
AbortNeedsOvertaking ==
    aborted => \E n \in Nodes : requestQueue[n] = <<>> /\ InFlight(n, "MsgGroup") # {}

Certificates ==
    {m.signature : m \in {k \in OnWire : k.type = "MsgPreprepare"}}
        \cup {m.groupSign : m \in {k \in OnWire : k.type = "MsgPrepare"}}

\* The primary group certifies one request per order number and per key: any
\* two group signatures on the wire that share the key or the order number
\* are the same.
OneCertificatePerRound ==
    \A s, t \in Certificates : s.key = t.key \/ s.order = t.order => s = t

\* Nobody certifies the blank text of an idle node.
CertifiesRequests == \A s \in Certificates : s.text \in Requests

\* The prepares on the wire that can still be counted, by their place.
Countable ==
    UNION {{<<p, q, i>> : i \in {j \in DOMAIN net[p][q] :
                                    /\ net[p][q][j].type = "MsgPrepare"
                                    /\ net[p][q][j].groupSign.key = groupKey}}
              : p \in Nodes, q \in Nodes}

\* The prepares already counted and those on the wire that can still be
\* counted are no more than one round can have.
PreparesOfOneRound == prepared_messages + Cardinality(Countable) <= MaxPrepared

\* A MsgSend clears the prepares counted so far, of whatever round it is.  None
\* is on its way to anybody while the prepares counted and on the wire can
\* still make a quorum: no round is robbed of its quorum by the answer to an
\* earlier one.
NoLateSend ==
    prepared_messages + Cardinality(Countable) >= PrepareQuorum
        => \A n \in Nodes : InFlight(n, "MsgSend") = {}

\* A round rewards no more pairs of nodes than its prepares make quorums: one,
\* unless the sizes leave room for more.
RewardsPerRound == trust.Sat <= groupKey * (MaxPrepared \div PrepareQuorum)
=============================================================================
