CHECK_DEADLOCK FALSE
SPECIFICATION Spec
CONSTANTS
    Sizes <- MCSizes
    ConfigSize <- MCConfigSize
    FirstCap = 1
    MaxFrame = 3
    MaxMessages = 3
    MaxResizes = 1
INVARIANT
    NotFreedInUse
