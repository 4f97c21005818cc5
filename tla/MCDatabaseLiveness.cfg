CONSTANTS
    Id = {1, 2}
    Vec = {"u", "v", "wide"}
    Client = {t1, t2}
    NoVec = NoVec
    NoDoc = NoDoc
    NoDim = NoDim
    Batches = {}
    DimOf <- MCDimOf
    DocBatches <- MixedBatches
SPECIFICATION FairSpec
PROPERTY
    EveryCallReturns
