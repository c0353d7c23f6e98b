\* Three receivers and the source detector; two at most share a socket.
SPECIFICATION Spec
CONSTANTS
    Handles = {1, 2, 3}
    Detector = detector
    Universes = {1, 2, 3}
    DiscoveryUniverse = 64214
    IpTypes <- MCIpTypes
    Netints <- MCNetints
    Sockets = {1, 2, 3, 4, 5}
    NoSocket = none
    MaxSubs = 2
    MaxDead = 1
    MaxLeaving = 2
    Scenarios <- MCScenarios
INVARIANTS
    Consistent
    OneIsBound
    HearsExactly
CHECK_DEADLOCK FALSE
