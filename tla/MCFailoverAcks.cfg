CONSTANTS
    Node = {"a", "b"}
    Shard = {s1}
    Data = {d1}
    NoGroup = NoGroup
    Layouts <- MCLayouts
    SyncStates = {}
    Policies = {"synchronous", "quorum"}
    Caller = {}
    Threshold = 1
    NoHistory = NoHistory
    NoTarget = NoTarget
    MaxMonitors = 1
SPECIFICATION Spec
PROPERTY
    AckMeansStored
CHECK_DEADLOCK FALSE
