SPECIFICATION Spec
CONSTANTS
    ListBound = 1
    coroutineCnt = 3
    MAX_BATCH_RUN_SIZE = 2
    MAX_RELEASE = 1
    Priorities = {0}
    Keys = {}
    PctValues = {1}
    Usage = {"nestedBatch", "yieldInBatch", "abandonBatch", "resumeListed", "restartBatch", "reResumeBatch", "unguardedAdd", "overrun", "disableCheck", "clean"}
CONSTRAINTS
    ShortList
    StacksOrBatches
INVARIANTS
    TypeOK
    ActivityCountOK
    RunningIdLive
    LiveStacks
    NoOverrunStackPooled
CHECK_DEADLOCK FALSE
