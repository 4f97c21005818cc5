CONSTANTS
    Node = {"a", "b"}
    Shard = {s1}
    Data = {}
    NoGroup = NoGroup
    Layouts <- MCLayouts
    SyncStates = {}
    Policies = {"quorum"}
    Caller = {c1}
    Threshold = 1
    NoHistory = NoHistory
    NoTarget = NoTarget
    MaxMonitors = 1
SPECIFICATION Spec
PROPERTY
    FailedNodeNeverChosen
CHECK_DEADLOCK FALSE
