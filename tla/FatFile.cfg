SPECIFICATION Spec
CONSTANTS
    Cards <- MCCards
    Layout <- MCLayout
    Base <- MCBase
    Geometry <- MCGeometry
    Fat <- MCFat
    Entry <- MCEntry
    Chain <- MCChain
    SS = 2
    PerSector = 4
    MaxRead = 4
    MaxSeek = 10
    MaxMounts = 2
INVARIANTS CachesTrue ClusterTrue
PROPERTIES ReadsTheFile CallsEnd
