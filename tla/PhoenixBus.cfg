SPECIFICATION MCSpec
CONSTANTS
    MemAddr <- MCAddr
    IoPort <- MCPort
    Byte <- MCByte
    ExtCell <- MCExt
    CvCell <- MCCv
INVARIANTS MapAgrees BankSettled
PROPERTIES TrampolineSurvives RomStable SgmPrivate
