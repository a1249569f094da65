CONSTANTS
    Points = {p1, p2}
    Edge = p1
    SoftKey = softkey
    None = none
    MaxActs = 4
    MaxFails = 0
SPECIFICATION Spec
INVARIANT NoFingerLeftDown
CHECK_DEADLOCK FALSE
