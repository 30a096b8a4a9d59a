SPECIFICATION FairSpec
CONSTANTS
    Callers = {c1, c2, c3}
    Limit = 2
    MaxAttempts = 3
    MaxPieces = 1
INVARIANTS
    NoLeak
    OneVoice
    NeverSilent
PROPERTIES
    PoolRecovers
