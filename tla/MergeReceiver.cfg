\* Two sources, of which one may be heard on two interfaces.
SPECIFICATION Spec
CONSTANTS
    Handles = {1, 2}
    Previewers = {2}
    MaxSources = 2
    Movers = {1}
    LevelValues <- MCLevelValues
    PapValues <- MCPapValues
    UniversePriorities = {1}
    MaxSlots = 1
INVARIANTS
    Consistent
    LatestShown
PROPERTIES
    TransferExact
