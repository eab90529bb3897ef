SPECIFICATION Spec
CONSTANTS
    m1 = m1
    Procs <- ThreeProcs
    Messages <- OneMessage
    Senders <- FirstProc
    Backend = "cets"
    MaxTimeouts = 1
    MaxBadH = 0
    MaxStops = 0
INVARIANTS
    ExactlyOneCopy
    OwnMessagesPass
    OneHolder
    NoDanglingSmid
CHECK_DEADLOCK FALSE
