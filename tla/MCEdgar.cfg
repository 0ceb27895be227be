SPECIFICATION MCFairSpec
CONSTANTS
    p1 = p1
    p2 = p2
    p3 = p3
    b1 = b1
    b2 = b2
    e1 = e1
    e2 = e2
    k1 = k1
    x1 = x1
    Peers = {p1, p2, p3}
    Self = p1
    Ports = {1, 2, 3}
    MaxGeneration = 2
    MaxCrashes = 1
    Executors = {x1}
    WithUrl = {x1}
    MaxManagers = 2
    MaxSignals = 2
    MaxFailures = 1
    Bridges = {b1, b2}
    Ethernet = {e1, e2}
    Can = {k1}
    Descriptors <- MCDescriptors
    Assignments <- MCAssignments
    None = None
    QueueCapacity = 1
    MaxAssignments = 2
    MaxRestarts = 1
    MaxFaults = 1
INVARIANTS
    TypeOK
    BridgeIsolated
    ResultsKept
PROPERTIES
    Converges
    ToldContainersStop
CHECK_DEADLOCK FALSE
