SPECIFICATION Spec
CONSTANTS
    MaxRid = 4
    MaxControl = 1
    MaxBreaks = 1
    MaxOut = 2
    MaxFires = 1
INVARIANTS
    TypeOK
    InboundOnce
    NoStanzaLost
    RepeatIsSafe
    IdleIsTimed
    PromptDelivery
    HeldIsTimed
PROPERTIES
    WrapFails
CHECK_DEADLOCK FALSE
