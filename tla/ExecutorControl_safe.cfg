\* A control task and a re-authorization contend for one executor.
SPECIFICATION ControlSpec
CONSTANTS
    Instances = {i1}
    Service = i1
    ClockSkew = FALSE
    Tasks = {t1}
    Sessions = {s1}
    NoOne = NoOne
    MaxRevision = 3
    MaxConfigRevision = 1
    MaxFaults = 1
CHECK_DEADLOCK FALSE
PROPERTIES
    ImplementsSharedFence
    RevisionsAreOnce
