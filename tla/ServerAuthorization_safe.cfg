\* Two sessions, from a fresh or an authorized executor, with failures, when
\* the process's clock and the database's may disagree about expiry.
SPECIFICATION AuthSpec
CONSTANTS
    Instances = {i1}
    Service = i1
    ClockSkew = TRUE
    Tasks = {}
    Sessions = {s1, s2}
    NoOne = NoOne
    MaxRevision = 3
    MaxConfigRevision = 1
    MaxFaults = 2
SYMMETRY Symmetry
CHECK_DEADLOCK FALSE
INVARIANTS
    AuthTypeOK
    SessionOutcome
    RecoveryConsistent
    CandidateKeepsFence
