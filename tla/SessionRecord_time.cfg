SPECIFICATION Spec
CONSTANTS
    None = None
    MaxFaults = 0
    MaxRestarts = 0
INVARIANTS HappyPathCompletes
CHECK_DEADLOCK FALSE
