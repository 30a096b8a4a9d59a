CONSTANTS
    w1 = w1
    w2 = w2
    d1 = d1
    r1 = r1
    r2 = r2
    Docs <- OneDoc
    Deleters <- OneDeleter
    Workers <- BothWorkers
    Host <- Placement
    MaxChunks = 1
    Faults <- ErrorsOnly
SPECIFICATION Spec
INVARIANT DeleteLeavesNoBrokenDocument
