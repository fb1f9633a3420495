SPECIFICATION FairSpec
CONSTANTS
    Conns = {k1, k2}
    ReqLen = 2
    RespLen = 2
    SendBuf = 1
    IoThreads = {t1, t2}
    Workers = {w1, w2}
    Listen = listen
    NoConn = noconn
INVARIANTS
    TypeOK
    OneOwner
    NoDeletedConn
    NoLostWakeup
    ReplyToOpenClient
PROPERTY Served
CHECK_DEADLOCK FALSE
