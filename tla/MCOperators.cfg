SPECIFICATION Spec
CONSTANTS
    p1 = p1
    k1 = k1
    i1 = i1
    i2 = i2
    d1 = d1
    d2 = d2
    e1 = e1
    None = None
    Peers = {p1}
    Clusters = {k1}
    Clients = {c1, c2}
    InterfaceIds = {i1, i2}
    DeviceIds = {d1, d2}
    ExecutorIds = {e1}
    Names = {"can0"}
    SamplePoints = {999, 1000}
    Images = {"image"}
    Texts = {"text"}
    Files <- MCFiles
    MaxOps = 5
INVARIANTS InterfacesResolve ClusterDevicesExist
PROPERTY DeployedConfigurationKept
CHECK_DEADLOCK FALSE
SYMMETRY MCSymmetry
