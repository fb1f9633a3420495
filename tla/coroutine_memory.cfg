SPECIFICATION MemorySpec
CONSTANTS
    coroutineCnt = 3
    MAX_BATCH_RUN_SIZE = 1
    MAX_RELEASE = 1
    Priorities = {0}
    Keys = {"key"}
    PctValues = {}
    max_stat_data_len_ = 3
    Significand = 128
    Spacings = {1, 2, 4, 8, 16, 32, 64, 128}
    PctNum = 2
    PctDen = 3
    Usage = {}
CONSTRAINT NoBatch
INVARIANT PercentileOfWindow
PROPERTIES
    ReleaseKeepsP99
CHECK_DEADLOCK FALSE
