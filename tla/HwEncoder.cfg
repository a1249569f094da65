CONSTANTS
    Buffers = {b1, b2, b3}
    NoBuffer = NoBuffer
SPECIFICATION FairSpec
INVARIANTS
    TypeOK
    CleanUntilRaced
PROPERTIES
    
    StarvesOnlyWhenAllLost
CHECK_DEADLOCK FALSE
