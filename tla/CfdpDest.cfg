SPECIFICATION FairSpec
CONSTANTS
    t1 = t1
    t2 = t2
    NoTx = NoTx
    NoFile = NoFile
    Dir = Dir
    NoName = ""
    WordModulus = 4
    MaxPackets = 6
    MaxFailures = 1
    Txs <- MCTxs
    Names <- MCNames
    Paths <- MCPaths
    Utf8Names <- MCUtf8Names
    Join <- MCJoin
    FileName <- MCFileName
    InitFiles <- MCInitFiles
    Configs <- MCConfigs
INVARIANTS
    TypeOK
    IntactFile
    SizeErrorHasCause
    StatusMatchesStore
PROPERTIES
    ReportedOnce
    TransferEnds
CHECK_DEADLOCK FALSE
