\* A task whose expired lease an authorization took is never reconciled.
SPECIFICATION FairControlSpec
CONSTANTS
    Instances = {i1}
    Service = i1
    ClockSkew = FALSE
    Tasks = {t1}
    Sessions = {s1}
    NoOne = NoOne
    MaxRevision = 2
    MaxConfigRevision = 1
    MaxFaults = 1
CHECK_DEADLOCK FALSE
PROPERTIES
    EveryTaskEnds
