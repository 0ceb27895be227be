SPECIFICATION MCFairSpec
CONSTANTS
    Descriptors = "PeerDescriptor"
    ConnStates = "PeerConnectionState"
    Kinds = {"PeerDescriptor", "PeerConnectionState"}
    Persistent = {"PeerDescriptor"}
    Ids = {p1, p2}
    Values = {"Online", "Offline", "descriptor"}
    NoValue = NoValue
    Subscribers = {o1}
    KindOf <- MCKindOf
    ValuesOf <- MCValuesOf
    Legacy <- MCLegacy
    Capacity = 1
    OutCapacity = 1
    Durations = {29, 30, 3600, 3601}
    MaxEvents <- MCMaxEvents
INVARIANT
    ObserverFollowsStore
PROPERTIES
    StoreImplemented
    AwaitEnds
CHECK_DEADLOCK FALSE
