CONSTANTS
    n1 = n1
    n2 = n2
    n3 = n3
    n4 = n4
    n5 = n5
    client = client
    t1 = t1
    t2 = t2
    x = x
    y = y
    z = z
    Nodes <- Three
    Rankings <- ThreeRankings
    Script <- Burst
    Threads = {t1, t2}
    Clients = {client}
    ClientOf <- OfClient
    NoPeer = NoPeer
    Requests = {x, y, z}
    ConsensusSize = 3
    PrimarySize = 2
    PrepareQuorum = 2
    ReplyQuorum = 3
SPECIFICATION FairSpec
INVARIANTS
    TypeOK
    WorksOnFront
    PreparedBelowQuorum
    FailuresAreSilent
    ClosesCountedOnce
    NodesAgreeOnLine
    NothingCountedTwice
PROPERTIES
    ImplementsQueues
    DeafLeadStaysDeaf
    Quiesces
\* Finitely many requests are sent: when they are done nothing moves.
CHECK_DEADLOCK FALSE
