SPECIFICATION CursorSpec
CONSTANTS
    Rows = 4
    Width = 32
    ListSizes <- AllSizes
INVARIANTS CursorOnScreen OneBar
PROPERTIES RightReachesEnd
