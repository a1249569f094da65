CONSTANTS
    Inputs <- MCInputs
    RecvBufSize = 4096
    MaxInputs = 3
    MaxHeartbeats = 2
SPECIFICATION FairSpec
INVARIANTS
    TypeOK
    FramedUntilTorn
    TornTouchIsRead
    TornTouchIsLocal
PROPERTIES
    ImplementsChannel
    EverythingHandled
CHECK_DEADLOCK FALSE
