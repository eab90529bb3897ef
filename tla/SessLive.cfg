SPECIFICATION LiveSpec
CONSTANTS
    p1 = p1
    p2 = p2
    p3 = p3
    n1 = n1
    n2 = n2
    r1 = r1
    r2 = r2
    Procs <- TwoProcs
    Nodes <- BothNodes
    NodeOf <- NodeOfTwo
    Resources <- TwoResources
    Messages = {m1}
    Priorities = {1}
    MaxSessions = 1
    MaxSent = 1
    MaxStops = 2
    MaxCrashes = 0
    MaxPresences = 1
PROPERTIES
    ConflictEnds
    MessagesSettle
CHECK_DEADLOCK FALSE
