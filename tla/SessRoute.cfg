SPECIFICATION Spec
CONSTANTS
    p1 = p1
    p2 = p2
    p3 = p3
    n1 = n1
    n2 = n2
    r1 = r1
    r2 = r2
    Procs <- ThreeProcs
    Nodes <- BothNodes
    NodeOf <- NodeOfThree
    Resources <- TwoResources
    Messages = {m1}
    Priorities = {1}
    MaxSessions = 2
    MaxSent = 1
    MaxStops = 0
    MaxCrashes = 1
    MaxPresences = 0
SYMMETRY SameNode
INVARIANTS
    TypeOK
    OneSessionPerResource
    OpenIsRegistered
    NoMessageVanishes
CHECK_DEADLOCK FALSE
