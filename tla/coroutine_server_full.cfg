SPECIFICATION ServerSpec
CONSTANTS
    coroutineCnt = 1
    MAX_BATCH_RUN_SIZE = 1
    MAX_RELEASE = 25
    Priorities = {0}
    Keys = {}
    PctValues = {}
    Usage = {}
    Conns = {k1, k2, k3}
    ReqLen = 2
    RespLen = 1
    SendBuf = 1
    Listen = listen
    DynamicMsec = FALSE
PROPERTY Served
CHECK_DEADLOCK FALSE
