SPECIFICATION FairSpec
CONSTANTS
    Conns = {k1, k2}
    ReqLen = 2
    RespLen = 2
    SendBuf = 1
    Threads = {0, 1, 2, 3}
    NProcs = 2
    mainReactorCnt = 2
    Listen = listen
    NoConn = noconn
    MaxFailures = 1
    MaxEarly = 1
    MaxLeaving = 1
INVARIANTS
    TypeOK
    OneHome
    NoMissedEdge
    ReplyUnlessDropped
    Balanced
PROPERTIES
    BarrierOpens
    Served
CHECK_DEADLOCK FALSE
