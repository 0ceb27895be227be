SPECIFICATION MCFairSpec
CONSTANTS
    Peers = {p1}
    Removable = {p1}
    Sessions = {s1, s2}
    NoSession = NoSession
    PeerOf <- MCOnePeer
    EventCapacity = 1
    OutboundCapacity = 1
    MaxVersion = 1
PROPERTIES
    OnlyPingingStreamsSurvive
    DisconnectHonoured
CHECK_DEADLOCK FALSE
