CONSTANTS
    Id = {"a", "b"}
    Vec = {"p0", "p1", "p4", "q"}
    NoVec = NoVec
    NoDim = NoDim
    MaxSlots = 4
    DimOf <- MCDimOf
    Dist <- MCDist
    Batches <- MCBatches
    IndexTypes = {"Flat", "IvfFlat"}
    FaissSlots = 4
    DocId = {d1, d2}
    Document <- MCDocument
    ForeignKey = {Foreign}
    TreeKey = {Elsewhere}
    KeyOrder <- MCKeyOrder
    MaxSecond = 2
    MaxWrites = 3
    d1 = d1
    d2 = d2
    Foreign = Foreign
    Elsewhere = Elsewhere
    None = None
    Empty = Empty
    Doc = {x1, x2, x3}
    Word = {w1, w2}
    Limit = 2
    RrfK = 60
    Unit = 15249024
    MaxAdds = 3
    Recorder = {"r1", "r2"}
    FusedDoc = {"x", "y"}
    Query = {{1, 2, 3, 4}, {1, 2, 3}, {7}}
    Ratings = {1, 3, 5}
    Rate = 20
    MaxHistory = 2
    Lists <- MCLists
    MaxScore = 2
    One = 12
    TextLengths = {5, 10, 20, 21}
    MaxRecorded = 3
    f1 = f1
    f2 = f2
    title = title
    size = size
    idPath = idPath
    unknown = unknown
    u = u
    v = v
SPECIFICATION RetrievalSpec
SYMMETRY Alike
INVARIANTS
    SlotsWellFormed
    NearestIsFoundInBoth
    RestoreIsSafe
    WaysToReadAgree
    SparseIndexSound
    AnswersMatchContents
    LearningIsBounded
PROPERTIES
    RemovalCleansUp
    ImplementsContract
    FusionKeepsOrder
CHECK_DEADLOCK FALSE
