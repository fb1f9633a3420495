SPECIFICATION ServerSpec
CONSTANTS
    coroutineCnt = 2
    MAX_BATCH_RUN_SIZE = 1
    MAX_RELEASE = 25
    Priorities = {0}
    Keys = {}
    PctValues = {0, 1}
    Usage = {}
    Conns = {k1, k2}
    ReqLen = 2
    RespLen = 2
    SendBuf = 1
    Listen = listen
    DynamicMsec = TRUE
INVARIANTS
    ServerTypeOK
    CidBinding
    EventsLive
    WaitsForItsEvent
    ReplyUnlessGone
CHECK_DEADLOCK FALSE
