CONSTANTS
    d1 = d1
    d2 = d2
    u1 = u1
    u2 = u2
    s1 = s1
    s2 = s2
    g1 = g1
    g2 = g2
    q1 = q1
    q2 = q2
    None = None
    Docs <- OneDoc
    Users <- OneUser
    Shares <- OneShare
    Guests <- OneGuest
    Owner <- Owners
    Slots <- TwoSlots
    Grants <- CommentOnly
    Lifetimes <- OneHour
    GuestTTL = 1
    LinkTTL = 1
    Horizon = 1
    MaxLinks = 0
SPECIFICATION FairSpec
INVARIANTS
    NoLateGrant
    NothingOutlivesDocument
PROPERTY
    EveryRequestEnds
