SPECIFICATION Spec
CONSTANTS
    Peers = {p1}
    Removable = {}
    Sessions = {s1, s2}
    NoSession = NoSession
    PeerOf <- MCOnePeer
    EventCapacity = 1
    OutboundCapacity = 2
    MaxVersion = 0
INVARIANT
    RunningStreamRegistered
