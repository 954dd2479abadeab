CONSTANTS
    MaxNodes = 60
    Requests <- SomeRequests
    MaxOrder = 120
    Base = 2
    Width = 2
    MaxLength = 2
SPECIFICATION PartsSpec
INVARIANTS
    SizesNested
    RepliesFit
    ShippedIsSmallest
    QuorumsOffBoundary
    SignedTextIsPair
    MembersArrive
\* A message is sent once.
CHECK_DEADLOCK FALSE
