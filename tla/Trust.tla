------------------------------- MODULE Trust -------------------------------
(***************************************************************************)
(* How server/TrustManager.cpp turns transactions into trust and trust     *)
(* into the groups, from the state that server/handler.cpp builds: the     *)
(* arithmetic behind the rankings that TPBFT takes as given.               *)
(*                                                                         *)
(* Trust is a double in the code and exact here: globalTrust[n] / unit,    *)
(* with a unit that grows so that every quotient is a whole number.  The   *)
(* code sums in the order of a hash map, which exact numbers do not tell.  *)
(* A tie may be broken either way, as std::sort may.                       *)
(***************************************************************************)
EXTENDS Integers, Sequences, FiniteSets, FiniteSetsExt, SequencesExt

CONSTANTS
    allNodes,       \* the nodes in the order they were built
    Balances,       \* Sat - Unsat of a pair at the start
    ConsensusSize,  \* D2 * NUM_NODES
    PrimarySize,    \* M2 * |consensusGroup|
    MaxRewards,     \* bound on rewards, for TLC
    MaxAcks         \* bound on acknowledgements, for TLC

Nodes == ToSet(allNodes)
NUM_NODES == Len(allNodes)

ASSUME NodesAssumption ==
    /\ allNodes \in Seq(Nodes)
    /\ NUM_NODES >= 2
    /\ Cardinality(Nodes) = NUM_NODES
    /\ ConsensusSize \in 1..NUM_NODES
    /\ PrimarySize \in 1..ConsensusSize
    /\ Balances \subseteq Int

\* The keys of trustMap: a pair has one entry, whoever asks.
Pairs == {{m, n} : m \in Nodes, n \in Nodes} \ {{n} : n \in Nodes}
PairsOf(n) == {pair \in Pairs : n \in pair}
Remote(pair, n) == CHOOSE m \in pair : m # n

VARIABLES
    balance,        \* Sat - Unsat of each pair; the two are never read apart
    Direct_Trust,   \* of each pair: a quotient
    globalTrust,    \* globalTrustMap, in parts of unit
    unit,
    trustVector,    \* the nodes as getConsensusGroup last sorted them
    consensusGroup,
    primaryGroup,
    rewards, acks   \* counted for the bounds

trustVars == <<Direct_Trust, globalTrust, unit>>
groupVars == <<trustVector, consensusGroup, primaryGroup>>
vars == <<balance, trustVars, groupVars, rewards, acks>>

----------------------------------------------------------------------------
(* The arithmetic.                                                         *)

Positive(S) == IF S > 0 THEN S ELSE 0

Stotal(n) == MapThenSumSet(LAMBDA pair : Positive(balance[pair]), PairsOf(n))

updateDirectTrust_mut(n, direct) ==
    [pair \in Pairs |->
        IF pair \notin PairsOf(n) THEN direct[pair]
        ELSE IF Stotal(n) = 0 THEN [num |-> 1, den |-> NUM_NODES]
        ELSE [num |-> balance[pair], den |-> Stotal(n)]]

\* What updateDirectTrust makes of the entries of node n; the entry of a pair
\* is overwritten by whichever of its two nodes comes later.
updateDirectTrust(n, direct) ==
    [pair \in Pairs |->
        IF pair \notin PairsOf(n) THEN direct[pair]
        ELSE IF Stotal(n) = 0 THEN [num |-> 1, den |-> NUM_NODES]
        ELSE [num |-> Positive(balance[pair]), den |-> Stotal(n)]]

\* All nodes, in order.
DirectTrust == FoldLeft(LAMBDA direct, n : updateDirectTrust(n, direct),
                        [pair \in Pairs |-> [num |-> 0, den |-> 1]], allNodes)

\* The least number all the given ones divide.
Common(S) == Min({k \in 1..ProductSet(S) : \A d \in S : k % d = 0})

\* What the peers of n contribute to its trust, in parts of g.unit.
Contribution(n, g, direct) ==
    MapThenSumSet(LAMBDA pair : (g.of[Remote(pair, n)] * direct[pair].num)
                                   \div direct[pair].den,
                  PairsOf(n))

\* The same trust in a unit c times as fine.
Finer(g, c) == [unit |-> c * g.unit, of |-> [n \in Nodes |-> c * g.of[n]]]

\* updateGlobalTrust: node n keeps what it has and gets what its peers, some
\* of them already updated, contribute.
updateGlobalTrust_mut(n, g, direct) ==
    LET fine == Finer(g, Common({direct[pair].den : pair \in PairsOf(n)}))
    IN  [fine EXCEPT !.of[n] = Contribution(n, fine, direct)]

updateGlobalTrust(n, g, direct) ==
    LET fine == Finer(g, Common({direct[pair].den : pair \in PairsOf(n)}))
    IN  [fine EXCEPT !.of[n] = @ + Contribution(n, fine, direct)]

GlobalTrust(g, direct) ==
    FoldLeft(LAMBDA h, n : updateGlobalTrust(n, h, direct), g, allNodes)

\* globalTrustMap[node] = 1.0 / NUM_NODES
Uniform == [unit |-> NUM_NODES, of |-> [n \in Nodes |-> 1]]

Descending(order, trust) ==
    \A i, j \in DOMAIN order : i < j => trust[order[i]] >= trust[order[j]]

Orders == {order \in [1..NUM_NODES -> Nodes] : ToSet(order) = Nodes}

----------------------------------------------------------------------------

\* The constructor of Handler: rand() gives every pair its transactions, one
\* round of trust is computed, and the groups are cut.
Init ==
    /\ balance \in [Pairs -> Balances]
    /\ Direct_Trust = DirectTrust
    /\ LET g == GlobalTrust(Uniform, Direct_Trust) IN
          /\ globalTrust = g.of
          /\ unit = g.unit
    /\ trustVector \in {order \in Orders : Descending(order, globalTrust)}
    /\ consensusGroup = SubSeq(trustVector, 1, ConsensusSize)
    /\ primaryGroup = SubSeq(consensusGroup, 1, PrimarySize)
    /\ rewards = 0
    /\ acks = 0

\* updateTrust, as prepare_handler calls it: the member that completes the
\* quorum and the member whose prepare did, which prepares are sent by the
\* consensus group without the primary group.
updateTrust(localPeer, remotePeer) ==
    /\ rewards < MaxRewards
    /\ localPeer \in ToSet(consensusGroup)
    /\ remotePeer \in ToSet(consensusGroup) \ ToSet(primaryGroup)
    /\ localPeer # remotePeer
    /\ balance' = [balance EXCEPT ![{localPeer, remotePeer}] = @ + 1]
    /\ rewards' = rewards + 1
    /\ UNCHANGED <<trustVars, groupVars, acks>>

\* getConsensusGroup sorts the nodes and takes the best.
getConsensusGroup_mut ==
    /\ trustVector' \in {order \in Orders : Descending(order, globalTrust)}
    /\ consensusGroup' = SubSeq(trustVector', 1, ConsensusSize)

getConsensusGroup ==
    /\ trustVector' \in {order \in Orders : Descending(order, globalTrust')}
    /\ consensusGroup' = SubSeq(trustVector', 1, ConsensusSize)

\* getPrimaryGroup sorts the consensus group, which is sorted, and takes the
\* best.
getPrimaryGroup == primaryGroup' = SubSeq(consensusGroup', 1, PrimarySize)

\* What ack_handler does to trust and groups.  The other handlers that cut
\* the groups anew cut them as they are, nothing having changed the trust.
ack_handler ==
    /\ acks < MaxAcks
    /\ Direct_Trust' = DirectTrust
    /\ LET g == GlobalTrust([unit |-> unit, of |-> globalTrust], Direct_Trust') IN
          /\ globalTrust' = g.of
          /\ unit' = g.unit
    /\ getConsensusGroup
    /\ getPrimaryGroup
    /\ acks' = acks + 1
    /\ UNCHANGED <<balance, rewards>>

Next == ack_handler \/ \E m, n \in Nodes : updateTrust(m, n)

Spec == Init /\ [][Next]_vars

----------------------------------------------------------------------------
(* Properties.                                                             *)

\* Every entry is a proper fraction, trust is positive, groups hold nodes.
TypeOK ==
    /\ balance \in [Pairs -> Int]
    /\ \A pair \in Pairs : Direct_Trust[pair].num \in 0..Direct_Trust[pair].den
    /\ globalTrust \in [Nodes -> Nat \ {0}]
    /\ unit \in Nat \ {0}
    /\ trustVector \in Orders

Last_Node == allNodes[NUM_NODES]

\* How much finer the unit became in a step.
Finer_by == unit' \div unit

\* The node built last gains with every acknowledgement, whether it took part
\* in anything or not: at least (NUM_NODES - 1) / NUM_NODES of the least trust
\* there is.  The entries of its pairs are the last to be written, so they are
\* the only ones that add up to one; no finite range holds its trust.
LastNodeAlwaysGains ==
    [][acks' # acks =>
         NUM_NODES * (globalTrust'[Last_Node] - Finer_by * globalTrust[Last_Node])
            >= (NUM_NODES - 1) * Finer_by * Min({globalTrust[n] : n \in Nodes})]_vars

\* With no pair in credit the order in which the nodes were built decides
\* alone, and in reverse: updateGlobalTrust writes in place, so a later node
\* is credited with what the earlier ones have just gained.
NobodyInCreditReverses ==
    (\A pair \in Pairs : balance[pair] <= 0) => trustVector = Reverse(allNodes)

\* The groups hold the best by the trust of this moment, not that before the
\* last acknowledgement.
GroupsAreBest ==
    /\ \A m \in ToSet(primaryGroup), n \in Nodes \ ToSet(primaryGroup) :
          globalTrust[m] >= globalTrust[n]
    /\ \A m \in ToSet(consensusGroup), n \in Nodes \ ToSet(consensusGroup) :
          globalTrust[m] >= globalTrust[n]
============================================================================
