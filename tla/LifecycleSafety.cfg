CONSTANTS
    w1 = w1
    w2 = w2
    d1 = d1
    r1 = r1
    r2 = r2
    Docs <- OneDoc
    Deleters <- TwoDeleters
    Workers <- BothWorkers
    Host <- Placement
    MaxChunks = 2
    Faults <- AllFaults
SPECIFICATION FairSpec
INVARIANTS
    ChunksMatchStatus
    BlobBehindRow
PROPERTIES
    ContractSpec
    PollingEnds
    EverythingSettles
