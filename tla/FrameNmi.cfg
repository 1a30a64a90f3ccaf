SPECIFICATION NmiSpec
CONSTANTS
    Routines <- MCRoutines
    Args <- MCArgs
    Saved <- MCSaved
    Spills <- MCSpills
    Frames = 3
INVARIANTS WaitsFrames Survives
PROPERTIES WaitEnds
