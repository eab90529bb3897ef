SPECIFICATION Spec
CONSTANTS
    m1 = m1
    Procs <- TwoProcs
    Messages <- OneMessage
    Senders <- OtherJid
    Backend = "cets"
    MaxTimeouts = 0
    MaxBadH = 0
    MaxStops = 2
INVARIANTS
    ResumableStays
CHECK_DEADLOCK FALSE
