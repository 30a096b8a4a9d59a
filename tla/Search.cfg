CONSTANTS
    alice = alice
    bob = bob
    None = None
    MaxDocs = 3
    Created = 2
    Owner <- Owners
    Searcher = alice
    Length <- Lengths
    RRF_K = 60
    ListLimit = 2
    Limit = 1
    TopK = 1
    Multiplier = 3
SPECIFICATION Spec
INVARIANTS
    OwnDocumentsOnly
    Warranted
    ClearlyBetterFirst
    KeywordsSurvive
    AgreementOutranks
