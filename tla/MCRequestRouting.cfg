CONSTANTS
    Member = {n1, n2, n3}
    Seed = {n1}
    Request = {r1, r2}
    MaxRetries = 1
    SeedFailures = 1
    Caller = {c1}
    Server = {n1, n2, n3}
    Id = {i1}
    NoEntry = NoEntry
    CacheEnabled = TRUE
    Ttl = 1
    Timeout = 1
    RetryAttempts = 2
    TargetRetries = 1
    MaxNow = 3
    MaxSearches = 2
    Router = {b1, b2}
    Balanced = {"m1", "m2", "m3"}
    NoNode = none
    Strategies = {"RoundRobin", "LeastConnections", "LocationAware"}
    Tier <- MCTier
    Center <- MCCenter
    MaxRouted = 3
    Node = {"a", "b", "c", "d"}
    Shard = {"s1"}
    Data = {d1, d2}
    NoGroup = NoGroup
    Policies = {"synchronous", "asynchronous", "quorum"}
    Layouts <- MCLayouts
    SyncStates = {"synced"}
    Candidate = {k1, k2}
    None = none
    Self = self
    LeaderTerm = {1, 3}
    LeaderLog <- MCLeaderLog
    LeaderCommit <- MCLeaderCommit
    MaxTerm = 3
    MaxLog = 2
SPECIFICATION ClusterSpec
SYMMETRY Interchangeable
INVARIANTS
    RequestsAccountedFor
    BalancingIsFair
    OneVotePerTerm
    AppliedOnceAndCommitted
PROPERTIES
    OutcomesAreRight
    DeliveryIsSound
    AckKeepsPromise
    AcceptedEntriesMatchLeader
CHECK_DEADLOCK FALSE
