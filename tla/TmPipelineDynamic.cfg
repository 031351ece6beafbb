SPECIFICATION FairSpec
CONSTANTS
    a = a
    b = b
    NoTm = NoTm
    MaxTm = 7
    MaxTc = 2
    MaxSeqCount = 1
    MaxMsgCount = 2
    MaxPacketsStored = 1
    ApidOf <- MCApidOf
    ServiceOf <- MCServiceOf
INVARIANTS
    ReceiversSeeCounters
PROPERTIES
    ImplementsStream
    ArrivedIsSent
