SPECIFICATION Spec
CONSTANTS
    None = None
    Torn = Torn
    Empty = Empty
    Sessions = {claim}
    Renewals = {}
    Bindings = {}
    MaxSequence = 1
    MaxFaults = 1
CHECK_DEADLOCK FALSE
INVARIANT PendingHeadIsRestored
