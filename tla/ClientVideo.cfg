\* The client stops when it exits.
CHECK_DEADLOCK FALSE
SPECIFICATION Spec
CONSTANTS
    Sizes <- MCSizes
    ConfigSize <- MCConfigSize
    FirstCap = 1
    MaxFrame = 3
    MaxMessages = 3
    MaxResizes = 1
INVARIANTS
    TypeOK
    InStep
    BufferFits
    DrawnSize
PROPERTIES
    WholePictures
    PictureShown
    ResizeRedrawn
