SPECIFICATION FairSpec
CONSTANTS
    Nobody = nobody
    nobody = nobody
    t1 = t1
    t2 = t2
    t3 = t3
    Eols <- MCEols
    Scenarios <- MCScenarios
INVARIANTS
    Consistent
    BytesKept
PROPERTIES
    CallsReturn
CHECK_DEADLOCK FALSE
