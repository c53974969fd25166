CONSTANTS
    BufSize = 1
    SockSize = 1
    Volume <- SixEach
    Timeout = 2
    EchoTarget = TRUE
SPECIFICATION FairSpec
CHECK_DEADLOCK FALSE
PROPERTY IdleTunnelCloses
