SPECIFICATION Spec
CONSTANTS
    HeadLen = 4
    BodyLens = {0, 1, 2, 5}
    Trailing = {0}
    ReadSize = 6
    Capacity = 7
INVARIANTS
    TypeOK
    MessageExact
    WaitsForFrameOnly
    Aligned
PROPERTIES
    FrameAnswered
    CloseNoticed
CHECK_DEADLOCK FALSE
