SPECIFICATION FairSpec
CONSTANTS
    NoOne = NoOne
    i1 = i1
    t1 = t1
    t2 = t2
    s1 = s1
    s2 = s2
CHECK_DEADLOCK FALSE
PROPERTIES
    EverythingSettles
