SPECIFICATION MCSpec
CONSTANTS
    Cards <- MCCards
    Names = {"a", "b", "c", "d", "e", "f", ".h", "long", "COLECO"}
    Tree <- MCTree
    COLECO = "COLECO"
    Hidden = {".h"}
    Order <- MCOrder
    NameLen <- MCNameLen
    Junk <- MCJunk
    MaxPath = 9
    MaxFile = 6
    MaxTitles = 4
    BlankTime = 3
INVARIANTS  OpensSelected
PROPERTIES ColecoFromRoot Responds
CHECK_DEADLOCK FALSE
