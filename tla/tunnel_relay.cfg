CONSTANTS
    BufSize = 2
    SockSize = 2
    Volume <- TwoEach
    Timeout = 2
    EchoTarget = FALSE
SPECIFICATION FairSpec
INVARIANTS
    TypeOK
    CountsEveryByte
    EofDrains
PROPERTIES
    ImplementsRelay
    FailedWriteNeverCloses
    IdleTunnelCloses
CHECK_DEADLOCK FALSE
