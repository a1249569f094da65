\* The server stops when it exits.
CHECK_DEADLOCK FALSE
SPECIFICATION FairSpec
CONSTANTS
    Radix = 4
    AccessUnits <- MCAccessUnits
    CodecParams <- MCCodecParams
    Gaps = {1, 3}
    ClockMod = 4
    Interval = 3
    Pieces = 1
    MaxPictures = 2
    MaxChanges = 1
    MaxFails = 1
INVARIANTS
    TypeOK
    WholeMessages
    DecoderReady
    RawFresh
    SafeShutdown
PROPERTIES
    ShutdownCompletes
