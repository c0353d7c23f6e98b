SPECIFICATION FairSpec
CONSTANTS
    NUM_PRE_SUPPRESSION_PACKETS = 2
    Terminations = 2
    SequenceNumbers = 4
    MaxUniversesPerPage = 1
    Scenarios <- MCScenarios
INVARIANTS
    Consistent
    SuppressedIsShown
PROPERTIES
    PacketsExact
    LatestLevelsShown
    DeinitReturns
CHECK_DEADLOCK FALSE
