\* Nodes with two ports; each scenario tries one of their parts.
SPECIFICATION FairSpec
CONSTANTS
    MERGE_TIMEOUT_SECONDS = 1
    ARTNET_DMX_LENGTH = 2
    Levels = {0, 1}
    NoIp = 0
    ARTNET_TOD_INITIAL_SIZE = 2
    ARTNET_TOD_INCREMENT = 1
    Uids = {1, 2, 3}
    ARTNET_FIRMWARE_SIZE = 2
    BlockIds = 3
    FIRMWARE_TIMEOUT_SECONDS = 2
    NoPeer = 0
    Words <- MCWords
    ARTNET_MAX_PORTS = 2
    SequenceNumbers = 2
    Nodes = {1, 2, 3}
    Broadcast = 255
    Garbage = 254
    Sockets = {1, 2, 3}
    MaxWire = 1
    MaxBlocks = 6
    Scenarios <- MCScenarios
INVARIANTS
    Consistent
    NodesAreKnown
    FirmwareIsGiven
PROPERTIES
    PlacesAreShown
    ChangesAreTold
    TransfersEnd
CHECK_DEADLOCK FALSE
