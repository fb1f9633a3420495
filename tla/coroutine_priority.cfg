SPECIFICATION Spec
CONSTANTS
    coroutineCnt = 2
    MAX_BATCH_RUN_SIZE = 1
    MAX_RELEASE = 1
    Priorities = {0, 1}
    Keys = {}
    PctValues = {}
    Usage = {}
PROPERTY BarrierHolds
CHECK_DEADLOCK FALSE
