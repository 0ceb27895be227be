SPECIFICATION Spec
CONSTANTS
    p1 = p1
    d1 = d1
    d2 = d2
    Peers = {p1}
    Removable = {p1}
    Devices = {d1, d2}
    Clusters = {c1, c2}
    Topologies <- MCTwoDevices
    Configs <- MCEitherDevice
    None = None
    DatabaseEnabled = TRUE
    VpnEnabled = TRUE
    PortStart = 10
    PortEnd = 13
    EventCapacity = 1
INVARIANTS
    TypeOK
    DeployedClustersDisjoint
    DeployedClustersConfigured
SYMMETRY MCSymmetry
VIEW MCView
