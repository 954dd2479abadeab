CONSTANTS
    n1 = n1
    n2 = n2
    n3 = n3
    n4 = n4
    n5 = n5
    client = client
    t1 = t1
    t2 = t2
    x = x
    y = y
    z = z
    Nodes <- Four
    Rankings <- FourRankings
    Script <- LongBurst
    Threads = {t1}
    Clients = {client}
    ClientOf <- OfClient
    NoPeer = NoPeer
    Requests = {x, y, z}
    ConsensusSize = 3
    PrimarySize = 2
    PrepareQuorum = 2
    ReplyQuorum = 3
SPECIFICATION LockStepSpec
INVARIANTS
    NeverOverclosed
    AbortNeedsOvertaking
    CertifiesRequests
PROPERTIES
    ImplementsService
\* Finitely many requests are sent: when they are done nothing moves.
CHECK_DEADLOCK FALSE
