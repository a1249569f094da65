CONSTANTS
    MaxAttempts = 3
    Backlog = 2
    CloseWakesRecv = FALSE
    MaxSessions = 2
    MaxHdcFails = 1
SPECIFICATION FairSpec
INVARIANTS
    TypeOK
    SameConnections
    SameControl
    CleanExit
PROPERTIES
    HandshakeDecides
    ExitCompletes
CHECK_DEADLOCK FALSE
