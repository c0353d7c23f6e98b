\* Four scenarios of one object, see MCDMXInstance.
SPECIFICATION MCSpec
CONSTANTS
    t1 = t1
    t2 = t2
    NoThread = NoThread
    Threads <- MCThreads
    Universes = {1, 2, 3, 17}
    Created = {2, 17}
    MaxUniverses = 3
    ArtNetMaxPorts = 2
    Protocols = {"Serial", "sACN", "ArtNet"}
    Ports = {"A"}
    NoPort = ""
    Priorities = {100, 50}
    DefaultPriority = 100
    Names = {"short", "long"}
    LongNames = {"long"}
    DefaultName = "short"
    MayFail = TRUE
    Scenarios <- MCScenarios
INVARIANTS
    DevicesAgree
    FramesRightAlone
    SourceRightAlone
PROPERTIES
    CallsReturn
    SerialRetried
