SPECIFICATION FillSpec
CONSTANTS
    a4 = a4
    b4 = b4
    c5 = c5
    d8 = d8
    e16 = e16
    f17 = f17
    Cfg <- WideCfg
    Spill = FALSE
    Data <- WideData
    LenOf <- WideLenOf
    STORE_FREE = STORE_FREE
INVARIANT ReadYourWrites
CHECK_DEADLOCK FALSE
