----------------------------- MODULE GroupSizes -----------------------------
(***************************************************************************)
(* The configurations of server/config.h: README.md invites its readers to *)
(* change the number of replicas, and the two fractions are defined beside *)
(* it.  A step edits one of the three values and builds the program anew.  *)
(* What becomes of a request in each kind of configuration is the subject  *)
(* of TPBFT; here is which kind a configuration is.                        *)
(***************************************************************************)
EXTENDS Sizes

CONSTANT MaxNodes   \* bound on NUM_NODES, for TLC

ASSUME BoundAssumption == MaxNodes \in Nat \ {0}

VARIABLES
    NUM_NODES,
    D2,             \* fraction of the nodes in the consensus group, in tenths
    M2              \* fraction of those in the primary group, in tenths

vars == <<NUM_NODES, D2, M2>>

consensusGroup == Consensus(NUM_NODES, D2)
primaryGroup == Primary(consensusGroup, M2)
max_prepared == Prepared(consensusGroup, primaryGroup)
prepare_tolerance == Prepares(NUM_NODES, D2)
reply_tolerance == Replies(NUM_NODES, D2)

\* The shipped values.
Init ==
    /\ NUM_NODES = 10
    /\ D2 = 6
    /\ M2 = 5

SetNodes ==
    /\ NUM_NODES' \in 1..MaxNodes
    /\ UNCHANGED <<D2, M2>>

\* A value outside 0 to 1 is a slip of the editor; the code clamps it.
SetFractions ==
    /\ D2' \in -1..(One + 1)
    /\ M2' \in -1..(One + 1)
    /\ UNCHANGED NUM_NODES

Next == SetNodes \/ SetFractions

Spec == Init /\ [][Next]_vars

----------------------------------------------------------------------------
(* Kinds of configuration, from those that stop earliest.                  *)

\* There is no lead: randomValueGenerator draws from an empty range and
\* primary[val] reads past the end of an empty vector.
Leaderless == primaryGroup = 0

\* The lead has nobody to ask and nobody ever answers it.
Lonely == primaryGroup = 1

\* All prepares of a round together are below the prepare quorum.
Undersized == primaryGroup >= 2 /\ max_prepared < prepare_tolerance

\* The prepare quorum is reached and the consensus group replies, but it has
\* fewer members than the client wants replies.
Starved ==
    /\ primaryGroup >= 2
    /\ max_prepared >= prepare_tolerance
    /\ reply_tolerance > consensusGroup

\* Every member of the groups doing its part, a request is registered.
Serves ==
    /\ primaryGroup >= 2
    /\ max_prepared >= prepare_tolerance
    /\ reply_tolerance <= consensusGroup

\* One round has enough prepares for more than one quorum.
Doubled == Serves /\ max_prepared >= 2 * prepare_tolerance

ShippedFractions == D2 = 6 /\ M2 = 5

----------------------------------------------------------------------------

\* Whatever is put into config.h, the groups lie within each other and within
\* the nodes: getConsensusGroup never reads past the end of trustVector, nor
\* getPrimaryGroup past the end of the consensus group.
SizesNested == 0 <= primaryGroup /\ primaryGroup <= consensusGroup /\ consensusGroup <= NUM_NODES

\* With the shipped fractions the client asks for more replies than there are
\* members unless NUM_NODES or NUM_NODES - 2 is a multiple of five: the same
\* fraction is rounded down for the group and, with 2/3 added, for the quorum.
RepliesFit ==
    ShippedFractions =>
        (reply_tolerance <= consensusGroup <=> NUM_NODES % 5 \in {0, 2})

\* Ten nodes, as shipped, is the smallest number that registers anything, and
\* from fifteen on one round can have two quorums.  The only sizes that serve
\* with one quorum per round are 10 and 12.
ShippedIsSmallest ==
    ShippedFractions =>
        /\ Serves => NUM_NODES >= 10
        /\ Serves /\ ~Doubled <=> NUM_NODES \in {10, 12}

\* Neither quorum is ever at an integer before it is truncated, so that no
\* rounding error of a double can move it (the error is below 1/30 by far).
QuorumsOffBoundary ==
    ShippedFractions =>
        /\ (2 * Faulty30(NUM_NODES, D2)) % (3 * One) # 0
        /\ Faulty30(NUM_NODES, D2) % (3 * One) # 0
============================================================================
