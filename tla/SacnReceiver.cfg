\* A unit is about 1.2 s.
SPECIFICATION Spec
CONSTANTS
    Networks <- MCNetworks
    Seqs = {0, 10}
    FilterPreview = TRUE
    SourceLossTimeout = 2
    WaitForPriority = 1
    SampleTime = 1
    ExpiredWait = 1
INVARIANTS
    Consistent
    LossesTold
PROPERTIES
    LossIsReal
    WaitsEnd
    KeepsPromises
