CONSTANTS
    SockSize = 1
    MaxMessages = 3
SPECIFICATION FairSpec
INVARIANTS
    TypeOK
    StreamEndDrains
    LosesAtMostOne
    NobodyLeftOut
PROPERTIES
    ImplementsRelay
    DirectionsIndependent
    BothEndsTold
CHECK_DEADLOCK FALSE
