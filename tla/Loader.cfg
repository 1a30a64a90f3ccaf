SPECIFICATION Spec
CONSTANTS
    Cards <- MCCards
    Blocks <- MCBlocks
    AnyLink <- MCAnyLink
    ClusterSize = 2
    PerTable = 4
    End = 12
    EraseBlocks = 2
    BlockPages = 4
    MaxFails = 2
    MaxResets = 1
INVARIANTS UpdatesWhole StartsWhole OpensRight
PROPERTY Ends
CHECK_DEADLOCK FALSE
