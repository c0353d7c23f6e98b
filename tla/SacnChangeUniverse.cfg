\* Two receivers on one socket, one is changed to another universe.
SPECIFICATION Spec
CONSTANTS
    Handles = {1, 2}
    Detector = detector
    Universes = {1, 2, 3}
    DiscoveryUniverse = 64214
    IpTypes <- MCIpTypes
    Netints <- MCNetints
    Sockets = {1, 2, 3, 4, 5}
    NoSocket = none
    MaxSubs = 2
    MaxDead = 1
    MaxLeaving = 2
    Scenarios <- MCChanging
INVARIANTS
    ChangedIsHeard
CHECK_DEADLOCK FALSE
