---------------------------- MODULE RequestQueues ----------------------------
(***************************************************************************)
(* The queues of server/node.cpp and nothing else of it: what a client     *)
(* multicasts reaches each node on a channel of its own and is queued; a   *)
(* node that closes a round pops its queue and tells all others to do the  *)
(* same; a node that is told pops whatever is at its front.  When and why  *)
(* a round is closed is left open, so closes of several nodes may cross.   *)
(* For every number of nodes TPBFT with one client implements this         *)
(* (QueueProofs), and this implements RequestLine (RequestQueuesProofs).   *)
(***************************************************************************)
EXTENDS Integers, Sequences

CONSTANTS
    Nodes,          \* the nodes
    Entries         \* the requests of the one client

VARIABLES
    requestQueue,   \* per node: requests received and not yet closed
    arriving,       \* per node: requests on their way from the client
    closing         \* per node: MsgNextRequests on their way to it

vars == <<requestQueue, arriving, closing>>

Init ==
    /\ requestQueue = [n \in Nodes |-> <<>>]
    /\ arriving = [n \in Nodes |-> <<>>]
    /\ closing = [n \in Nodes |-> 0]

multicast(r) ==
    /\ arriving' = [n \in Nodes |-> Append(arriving[n], r)]
    /\ UNCHANGED <<requestQueue, closing>>

group_request_handler(n) ==
    /\ arriving[n] # <<>>
    /\ requestQueue' = [requestQueue EXCEPT ![n] = Append(@, Head(arriving[n]))]
    /\ arriving' = [arriving EXCEPT ![n] = Tail(@)]
    /\ UNCHANGED closing

CloseRound(n) ==
    /\ requestQueue[n] # <<>>
    /\ requestQueue' = [requestQueue EXCEPT ![n] = Tail(@)]
    /\ closing' = [m \in Nodes |-> IF m = n THEN closing[m] ELSE closing[m] + 1]
    /\ UNCHANGED arriving

process_next_request(n) ==
    /\ closing[n] > 0
    /\ requestQueue[n] # <<>>
    /\ requestQueue' = [requestQueue EXCEPT ![n] = Tail(@)]
    /\ closing' = [closing EXCEPT ![n] = @ - 1]
    /\ UNCHANGED arriving

Next ==
    \/ \E r \in Entries : multicast(r)
    \/ \E n \in Nodes :
          group_request_handler(n) \/ CloseRound(n) \/ process_next_request(n)

Spec == Init /\ [][Next]_vars

----------------------------------------------------------------------------
(* What a node still has before it, once all that is on its way arrived.   *)

Before(n) == requestQueue[n] \o arriving[n]

LineOf(n) ==
    IF closing[n] > Len(Before(n)) THEN <<>>
    ELSE SubSeq(Before(n), closing[n] + 1, Len(Before(n)))

TypeOK ==
    /\ requestQueue \in [Nodes -> Seq(Entries)]
    /\ arriving \in [Nodes -> Seq(Entries)]
    /\ closing \in [Nodes -> Nat]

\* However closes of several nodes cross on the network, and even where more
\* rounds were closed than requests sent, the nodes have the same number of
\* requests before them and, from the first that is not being closed, the
\* same requests.
QueuesAgree ==
    \A m, n \in Nodes :
        /\ Len(Before(m)) - closing[m] = Len(Before(n)) - closing[n]
        /\ \A i \in 1..Len(Before(m)) :
              i <= Len(Before(m)) - closing[m]
                => Before(m)[i + closing[m]] = Before(n)[i + closing[n]]

\* So any node stands for all.
LinesAgree == \A m, n \in Nodes : LineOf(m) = LineOf(n)

AnyNode == CHOOSE n \in Nodes : TRUE

Line == INSTANCE RequestLine WITH line <- LineOf(AnyNode)

\* The queues together implement one line of requests.
ImplementsLine == Line!Spec
============================================================================
