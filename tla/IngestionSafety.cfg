CONSTANTS
    Documents <- SmallDocuments
    CharsPerToken = 2
    Target = 3
    Overlap = 2
    BatchSize = 2
    SectionSize = 2
    PassBudget = 4
    NoteSizes <- ShortNotes
SPECIFICATION Spec
INVARIANTS
    TypeOK
    NothingLost
    ChunkBudget
    OwnVectors
    SummaryOfAll
