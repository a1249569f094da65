CONSTANTS
    Points = {p1, p2}
    Edge = p1
    SoftKey = softkey
    None = none
    MaxActs = 5
    MaxFails = 1
SPECIFICATION FairSpec
INVARIANTS
    TypeOK
    StuckOnlyByToolbarRelease
    DragFollows
    TouchingIfFinger
PROPERTIES
    ReleaseLifts
CHECK_DEADLOCK FALSE
