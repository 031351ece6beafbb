SPECIFICATION Spec
CONSTANTS
    a4 = a4
    b4 = b4
    c5 = c5
    d8 = d8
    e16 = e16
    f17 = f17
    Cfg <- MCCfg
    Spill = TRUE
    Data <- MCData
    LenOf <- MCLenOf
    STORE_FREE = STORE_FREE
INVARIANTS
    AddressesExact
    FitsBlock
    FullOnlyWhenFull
