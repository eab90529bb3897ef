SPECIFICATION Spec
CONSTANTS
    Domains = {d1, d2}
    HostTypes = {h1}
    Nodes = {n1}
    Clients = {c1, c2}
    None = None
    Dummy = Dummy
    PageSize = 2
    Retries = 1
    FaultsAnywhere = FALSE
    MaxEventId = 3
    MaxFailures = 1
    MaxRemovals = 1
INVARIANTS
    TypeOK
    InSync
    RangeIsFinal
PROPERTIES
    EventuallyInSync
CHECK_DEADLOCK FALSE
