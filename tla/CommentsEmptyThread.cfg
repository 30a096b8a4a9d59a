CONSTANTS
    owner = owner
    guest = guest
    other = other
    q1 = q1
    q2 = q2
    None = None
    Principals <- OwnerAndGuest
    Owner = owner
    Slots <- OneSlot
    MaxComments = 2
SPECIFICATION Spec
INVARIANT NoEmptyThread
