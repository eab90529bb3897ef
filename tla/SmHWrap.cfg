SPECIFICATION Spec
CONSTANTS
    HMax = 2
    BufferOn = TRUE
    BufferMax = 1
    AckFreq = 1
    ResumeTimeout = 2
    CheckTimeout = 1
    MaxOut = 0
    MaxIn = 3
    MaxStops = 1
    MaxCuts = 2
    MaxBadAcks = 0
    WireMax = 2
INVARIANTS
    CounterInIsReceived
CHECK_DEADLOCK FALSE
