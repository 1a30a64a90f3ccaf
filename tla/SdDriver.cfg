SPECIFICATION Spec
CONSTANTS
    Kinds <- AllKinds
    Sectors = 4
    SectorBytes = 2
    Latency = 1
    ReadyTries = 2
    ResponseTries = 2
    TokenTries = 2
    InitTries = 2
    MaxCount = 3
INVARIANTS TypeKnown ReadsRight
PROPERTIES CardRules CallsEnd
