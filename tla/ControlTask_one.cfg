\* One process, two tasks: crashes, restarts and requests in every order.
SPECIFICATION Spec
CONSTANTS
    Instances = {i1}
    Tasks = {t1, t2}
    Sessions = {}
    NoOne = NoOne
    MaxRevision = 3
    MaxConfigRevision = 2
    MaxFaults = 2
SYMMETRY Symmetry
CHECK_DEADLOCK FALSE
INVARIANTS
    TypeOK
    WithinCounter
    ActiveIsCurrent
    CurrentOnDisk
    FencedBeforeMoved
    OneCandidate
    ClaimedIsLeased
PROPERTIES
    FencedSwitch
    ImplementsFence
