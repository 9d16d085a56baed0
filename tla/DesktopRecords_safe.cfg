SPECIFICATION Spec
CONSTANTS
    None = None
    Torn = Torn
    Other = Other
    Orphan = Orphan
    a1 = a1
    a2 = a2
    k1 = k1
    k1b = k1b
    k2 = k2
    k3 = k3
    x = x
    y = y
    z = z
    e1 = e1
    e2 = e2
SYMMETRY Symmetry
CHECK_DEADLOCK FALSE
INVARIANTS
    LeaseIsExclusive
    RecordIsSound
PROPERTIES
    StoreIsARegister
    TreeIsTransactional
    CommandsAreOnce
    BindingFollows
