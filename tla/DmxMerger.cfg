\* Three sources on two slots; the fourth add is refused.
CONSTANTS
    Handles = {1, 2, 3}
    MaxSlots = 2
    MaxSources = 3
    LevelBuffers <- MCLevelBuffers
    PapBuffers <- MCPapBuffers
    Priorities = {1, 2}
INIT Init
NEXT Next
INVARIANTS
    Consistent
    MergedFromScratch
