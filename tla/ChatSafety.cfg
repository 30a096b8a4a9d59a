CONSTANTS
    a = a
    b = b
    c1 = c1
    c2 = c2
    q1 = q1
    q2 = q2
    None = None
    Principals <- Two
    Convs <- TwoConvs
    Slots <- TwoSlots
    MaxTurns = 3
    Window = 2
SPECIFICATION Spec
SYMMETRY Interchangeable
INVARIANTS
    HistoryIsOwn
    HistoryInOrder
    NoNeedlessConversation
    AnsweredMeansSaved
PROPERTY
    TranscriptSpec
