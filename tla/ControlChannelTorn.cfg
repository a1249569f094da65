CONSTANTS
    Inputs <- MCInputs
    RecvBufSize = 4096
    MaxInputs = 3
    MaxHeartbeats = 2
SPECIFICATION FairSpec
INVARIANTS
    NoInputLost
CHECK_DEADLOCK FALSE
