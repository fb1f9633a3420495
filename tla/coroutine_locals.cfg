SPECIFICATION Spec
CONSTANTS
    coroutineCnt = 2
    MAX_BATCH_RUN_SIZE = 1
    MAX_RELEASE = 1
    Priorities = {0}
    Keys = {"key"}
    PctValues = {}
    Usage = {}
INVARIANT BatchSharesLocals
CHECK_DEADLOCK FALSE
