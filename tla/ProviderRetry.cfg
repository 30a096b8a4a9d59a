SPECIFICATION FairSpec
CONSTANTS
    Callers = {c1, c2}
    Limit = 1
    MaxAttempts = 3
    MaxPieces = 1
INVARIANT
    TransientRetried
