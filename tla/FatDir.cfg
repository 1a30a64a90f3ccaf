SPECIFICATION DirSpec
CONSTANTS
    Dirs <- MCDirs
    Sought <- MCSought
    Byte <- MCByte
    Segment = 2
    MaxLfn = 5
    MaxShort = 1
    MaxDir = 6
INVARIANTS ReadsNext FindsNamed
PROPERTY CallsEnd
