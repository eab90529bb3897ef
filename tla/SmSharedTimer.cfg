SPECIFICATION Spec
CONSTANTS
    HMax = 3
    BufferOn = TRUE
    BufferMax = 1
    AckFreq = 1
    ResumeTimeout = 3
    CheckTimeout = 2
    MaxOut = 3
    MaxIn = 0
    MaxStops = 0
    MaxCuts = 2
    MaxBadAcks = 0
    WireMax = 2
INVARIANTS
    DetachedTimeLimit
CHECK_DEADLOCK FALSE
