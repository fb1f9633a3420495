SPECIFICATION Spec
CONSTANTS
    HeadLen = 4
    BodyLens = {0, 1, 2, 5}
    Trailing = {0, 1}
    ReadSize = 6
    Capacity = 7
PROPERTY DecodeReturns
CHECK_DEADLOCK FALSE
