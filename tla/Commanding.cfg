SPECIFICATION Spec
CONSTANTS
    VersionBits = 1
    PacketIdBits = 1
    PscBits = 1
    NoTc = NoTc
    Plans <- MCPlans
    Answers <- MCAnswers
    Targets = {"mgm", "pcdu"}
    GoneTargets = {"pcdu"}
    PoolSize = 2
    SourceLen = 1
    RequestLen = 1
    GroupBits = 1
    UniqueBits = 1
    EventLen = 2
    ListenerLen = 2
    MapLen = 2
    Setups <- MCSetups
    MaxLoops = 2
    MaxTmFailures = 1
INVARIANTS BlocksOwned EndsOnce EventsAccounted
PROPERTIES NoSilentEnd RequestsEnd DisabledIsSilent
CHECK_DEADLOCK FALSE
