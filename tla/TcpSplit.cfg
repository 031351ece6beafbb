SPECIFICATION Spec
CONSTANTS
    Packets <- MCPackets
    PacketLen <- MCPacketLen
    ValidIds <- MCValidIds
    BrokenIds <- MCBrokenIds
    HeaderLen = 2
    TcBufferSize = 7
    TmBufferSize = 6
    Telecommands <- MCTelecommands
    MaxTcLen = 10
    TmQueueLen = 5
    SeqCountMod = 4
    Data <- MCData
    LenOf <- MCLenOf
    STORE_FREE = STORE_FREE
    MAX_NUM_SUBPOOLS = 3
    Growth <- MCGrowth
    ChannelDepth = 2
    ReadBufLen = 3
    RxDatagrams = 3
    CycleMod = 4
    Servers <- SpacepacketsOnly
INVARIANTS
    SplitPacketsRebuilt
CHECK_DEADLOCK FALSE
