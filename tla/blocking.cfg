SPECIFICATION FairSpec
CONSTANTS
    concurrency = 2
    MaxRefused = 1
    Others = {other}
    Conns = {1, 2, other}
    Workers = {w1, w2}
    Procs = {w1, w2, 1, 2, other}
    Len = 2
    Bufs = {1, 2}
    MaxFd = 2
    Free = free
    NoOne = noone
INVARIANTS
    TypeOK
    OwnDescriptor
    NoDescriptorLost
PROPERTY BenchmarkEnds
CHECK_DEADLOCK FALSE
