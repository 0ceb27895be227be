SPECIFICATION MCFairSpec
CONSTANTS
    p1 = p1
    d1 = d1
    d2 = d2
    Peers = {p1, p2}
    Removable = {}
    Devices = {d1, d2}
    Clusters = {c1}
    Topologies <- MCDeviceEach
    Configs <- MCBothDevices
    None = None
    DatabaseEnabled = TRUE
    VpnEnabled = FALSE
    PortStart = 10
    PortEnd = 13
    EventCapacity = 1
INVARIANTS
    MutualMembersAgree
PROPERTY
    NoLostWakeup
