CONSTANTS
    n1 = n1
    n2 = n2
    n3 = n3
    n4 = n4
    allNodes <- Four
    Balances <- AnyBalance
    ConsensusSize = 3
    PrimarySize = 2
    MaxRewards = 1
    MaxAcks = 1
SPECIFICATION Spec
INVARIANTS
    TypeOK
    NobodyInCreditReverses
    GroupsAreBest
PROPERTIES
    LastNodeAlwaysGains
\* The bounds end every behaviour.
CHECK_DEADLOCK FALSE
