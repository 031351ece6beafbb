SPECIFICATION Spec
CONSTANTS
    a = a
    b = b
    NoTm = NoTm
    Producers = {p1, p2}
    MaxTm = 7
    MaxTc = 2
    PoolSize = 3
    FunnelLen = 1
    ServerLen = 1
    TcQueueLen = 1
    MaxSeqCount = 1
    MaxMsgCount = 2
    MaxPacketsStored = 1
    ApidOf <- MCApidOf
    ServiceOf <- MCServiceOf
INVARIANTS
    NothingLostOnTheWay
    BlocksInUse
    ClientSeesCounters
    TcpKeepsNewest
PROPERTY
    ImplementsStream
CHECK_DEADLOCK FALSE
