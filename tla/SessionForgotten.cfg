CONSTANTS
    MaxAttempts = 3
    Backlog = 2
    CloseWakesRecv = FALSE
    MaxSessions = 1
    MaxHdcFails = 0
SPECIFICATION FairSpec
PROPERTY ServerNotices
CHECK_DEADLOCK FALSE
