SPECIFICATION Spec
CONSTANTS
    None = None
    MaxFaults = 0
    MaxRestarts = 1
INVARIANT EveryStartGoesOn
CHECK_DEADLOCK FALSE
