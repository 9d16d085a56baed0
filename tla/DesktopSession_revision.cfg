SPECIFICATION FairSpec
CONSTANTS
    MaxFaults = 1
    MaxRestarts = 1
PROPERTIES
    AckedIsInPlace
CHECK_DEADLOCK FALSE
