SPECIFICATION LiveSpec
CONSTANTS
    HMax = 2
    BufferOn = TRUE
    BufferMax = 1
    AckFreq = 3
    ResumeTimeout = 2
    CheckTimeout = 1
    MaxOut = 4
    MaxIn = 0
    MaxStops = 1
    MaxCuts = 1
    MaxBadAcks = 2
    WireMax = 0
INVARIANTS
    TypeOK
    BufferIsTail
    DetachedTimeBound
PROPERTIES
    DetachedEnds
CHECK_DEADLOCK FALSE
