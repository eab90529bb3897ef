SPECIFICATION LiveSpec
CONSTANTS
    m1 = m1
    Procs <- TwoProcs
    Messages <- OneMessage
    Senders <- AnyOfTwo
    Backend = "mnesia"
    MaxTimeouts = 1
    MaxBadH = 1
    MaxStops = 2
INVARIANTS
    TypeOK
    ExactlyOneCopy
    OneHolder
PROPERTIES
    CallEnds
CHECK_DEADLOCK FALSE
