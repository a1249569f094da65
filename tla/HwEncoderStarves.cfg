CONSTANTS
    Buffers = {b1, b2, b3}
    NoBuffer = NoBuffer
SPECIFICATION CalmSpec
PROPERTIES
    KeepsSubmitting
CHECK_DEADLOCK FALSE
