SPECIFICATION FairSpec
CONSTANTS
    a = a
    b = b
    NoTm = NoTm
    Producers = {p1}
    MaxTm = 5
    MaxTc = 1
    PoolSize = 5
    FunnelLen = 5
    ServerLen = 1
    TcQueueLen = 1
    MaxSeqCount = 1
    MaxMsgCount = 2
    MaxPacketsStored = 1
    ApidOf <- MCApidOf
    ServiceOf <- MCServiceOf
PROPERTY
    ArrivedIsSent
CHECK_DEADLOCK FALSE
