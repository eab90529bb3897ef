SPECIFICATION Spec
CONSTANTS
    HMax = 3
    BufferOn = TRUE
    BufferMax = 1
    AckFreq = 2
    ResumeTimeout = 1
    CheckTimeout = 1
    MaxOut = 5
    MaxIn = 2
    MaxStops = 1
    MaxCuts = 2
    MaxBadAcks = 0
    WireMax = 1
INVARIANTS
    CounterOutIsAcked
    NoSilentLoss
    InOrderOnce
    HonestAckAccepted
    OverfullIsTimed
    InboundInOrderOnce
    NoInboundLoss
PROPERTIES
    ImplementsReliableStream
CHECK_DEADLOCK FALSE
