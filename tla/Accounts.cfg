CONSTANTS
    e1 = e1
    e2 = e2
    e3 = e3
    u1 = u1
    u2 = u2
    u3 = u3
    u4 = u4
    t1 = t1
    t2 = t2
    p1 = p1
    p2 = p2
    q1 = q1
    q2 = q2
    None = None
    Users <- FourUsers
    Emails <- ThreeEmails
    Tokens <- TwoTokens
    Passwords <- TwoPasswords
    Starts <- ResetsOrSignups
    Slots <- TwoSlots
    ResetTTL = 1
    Horizon = 1
SPECIFICATION FairSpec
INVARIANTS
    TypeOK
    OneAccountPerEmail
    NoLateRedemption
    NewestLinkOnly
    ChosenPasswordOpens
PROPERTY
    EveryRequestEnds
