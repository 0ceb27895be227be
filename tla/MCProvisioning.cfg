CONSTANTS
    p1 = p1
    k1 = k1
    Peers = {p1}
    Clusters = {k1}
    Members <- MCMembers
    Calls = {1, 2}
    NoName = NoName
    NoSetup = NoSetup
    Hosts = {1}
    MaxFaults = 1
    MaxCalls = 6
    MaxSetups = 2
    MaxRestarts = 1
SPECIFICATION MCFairSpec
INVARIANTS TypeOK NothingLeftBehind LastSetupUsable PolicyOnlyWhileDeployed
PROPERTY ClusterConnects
CHECK_DEADLOCK FALSE
