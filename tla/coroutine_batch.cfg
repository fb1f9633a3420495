SPECIFICATION Spec
CONSTANTS
    coroutineCnt = 4
    MAX_BATCH_RUN_SIZE = 2
    MAX_RELEASE = 1
    Priorities = {0}
    Keys = {}
    PctValues = {}
    Usage = {}
INVARIANTS
    NoFault
    FinishListExact
PROPERTIES
    BarrierHolds
    ImplementsForkJoin
