SPECIFICATION Spec
CONSTANTS
    tc1 = tc1
    tc2 = tc2
    tc3 = tc3
    nested = nested
    Cfg <- MCCfg
    Spill = TRUE
    Data <- MCTcs
    LenOf <- MCLenOf
    STORE_FREE = STORE_FREE
    Times <- MCTimes
    TimeMargin = 1
    ReqIdOf <- MCReqIdOf
    Unschedulable <- MCUnschedulable
    BufLen = 8
    NoTime = NoTime
INVARIANTS
    ScheduleSound
    EveryBlockOwned
    AtMostOnce
PROPERTIES
    NotBeforeItsTime
    ImplementsSchedule
