CONSTANTS
    Thread = {t1, t2}
    a = a
    b = b
    Id = {a, b}
    Batch <- MCBatch
    Doomed <- MCDoomed
    MaxOps = 5
    MaxJournal = 4
    CallTask = {c1, c2}
    Resource = {r1}
    NoResource = NoResource
    FailureThreshold = 50
    MinimumRequests = 2
    HalfOpenMax = 1
    Capacity = 1
    AcquireAttempts = 2
    MaxAttempts = 2
    PoolSize = 1
    MaxCalls = 3
    MaxTicks = 1
    Worker = {w1, w2, w3}
    PoolThread = {p1, p2}
    BatchSize = 2
    QueueSize = 2
    MaxJobs = 3
    MaxPieces = 5
    l1 = l1
    Task = {l1, l2}
    Name = {"user"}
    Password = {"right", "wrong"}
    Role = {"SuperAdmin", "ReadOnlyUser"}
    Permission = {"ReadData", "WriteData"}
    Grants <- MCGrants
    Default = "right"
    Policies = {1, 2}
    LogSize = 3
    LogDrop = 2
    MaxUsers = 2
    MaxKeys = 1
    MaxLogged = 6
    Engine = {"e1", "e2"}
    Text = {"text"}
    Limits = {1, 2}
    Absent = Absent
    MaxWrites = 2
    SavedId = {"i1", "i2"}
    SavedVec = {"v1", "v2"}
    FileThread = {"s1", "s2"}
    NoFile = NoFile
    Torn = Torn
    MaxSaved = 2
    Peer = {"p1", "p2"}
    Caller = {"c1"}
    Monitor = "monitor"
    MaxConnects = 2
    Command <- MCCommand
    MaxEntries = 2
    MaxErrors = 3
SPECIFICATION LocalSpec
INVARIANTS
    CloseIsExact
    CallsShareNothing
    EveryJobOnce
    CommandsTakeEffectInOrder
    LoginsLeaveBounds
PROPERTIES
    EverythingGetsThrough
    CachedAnswersHonourCall
    LoadRestoresSnapshot
    FailureIsFresh
CHECK_DEADLOCK FALSE
