SPECIFICATION MCSpec
CONSTANTS
    Kinds <- AllKinds
    Sectors = 3
    SectorBytes = 2
    Latency = 1
    SdTicks = 1
    CartTicks = 1
    JoyTicks = 1
    ResponseTries = 2
    InitTries = 2
    TokenTries = 2
    Wanted = 1
INVARIANTS ReadsRight SwapsInCart
PROPERTIES OnceEach Responds
CHECK_DEADLOCK FALSE
