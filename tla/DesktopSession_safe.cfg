SPECIFICATION FairSpec
CONSTANTS
    None = None
    c1 = c1
    c2 = c2
    t1 = t1
    t2 = t2
    succeeded = succeeded
    failed = failed
    stale = stale
CHECK_DEADLOCK FALSE
INVARIANTS
    TerminalIsClean
    AckIsTrue
PROPERTIES
    ActivatedIsKept
    CallsAreAnswered
