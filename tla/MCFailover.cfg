CONSTANTS
    Node = {"a", "b"}
    Shard = {s1, s2}
    Data = {}
    NoGroup = NoGroup
    Layouts <- MCLayouts
    SyncStates = {}
    Policies = {"quorum"}
    Caller = {c1, c2}
    Threshold = 1
    NoHistory = NoHistory
    NoTarget = NoTarget
    MaxMonitors = 1
SPECIFICATION Spec
SYMMETRY Interchangeable
INVARIANT
    NoTaskIsLost
PROPERTY
    ReturnMeansRecovered
CHECK_DEADLOCK FALSE
