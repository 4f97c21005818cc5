CONSTANTS
    n1 = n1
    n2 = n2
    n3 = n3
    p1 = p1
    p2 = p2
    p3 = p3
    seed = seed
    local = local
    m1 = m1
    Me = n1
    Cluster <- MCCluster
    ShardCount = 3
    ReplicationFactor = 1
    MaxVectorsPerShard = 1
    Point = {p1, p2, p3}
    HashAlgorithm = "RangeHash"
    MaxHash = 15
    HashOf <- MCHashOf
    Task = {t1, t2, t3}
    RingNode = {n1, n2, n3}
    Key = {1, 4, 8}
    RingSize = 12
    PerWeight = 2
    MaxWeight = 2
    CacheMax = 2
    EvictedAtOnce = 1
    VirtualHash <- MCVirtualHash
    KeyHash <- MCKeyHash
    MaxCount = 2
    ClusterNode = {n1, n2, n3}
    Seed = {seed}
    Local = local
    TableShard = {0, 1}
    MaxNodes = 3
    SeedInfo <- MCSeedInfo
    ServiceTask = {m1}
    Id = {1, 2}
    Vec = {"u", "v", "wide"}
    Client = {t1, t2, t3}
    NoVec = NoVec
    NoDoc = NoDoc
    NoDim = NoDim
    Batches = {}
    DimOf <- MCDimOf
    DocBatches <- SafetyBatches
SPECIFICATION PlacementSpec
SYMMETRY Interchangeable
INVARIANTS
    CountCoversStored
    EveryShardIsServed
    CachedRouteIsCurrent
    IndexAgreesWithStore
    RebuildIsExact
PROPERTIES
    OnlyOwnKeysMove
    RemovalsLoseNothing
