\* Four scenarios of one object, see MCFadeEngine.
SPECIFICATION MCSpec
CONSTANTS
    t1 = t1
    t2 = t2
    NoThread = NoThread
    Threads <- MCThreads
    Universes = {1, 2, 3}
    Channels = {1, 2}
    MaxValue = 3
    Inputs = {0, 3}
    Durations = {0, 1, 2}
    MaxUniverses = 2
    SourceMayFail = TRUE
    FadeUntil = 1
    MaxTime = 3
    Scenarios <- MCScenarios
INVARIANTS
    Consistent
    SoundAlone
PROPERTIES
    FadesYield
    FadesEnd
