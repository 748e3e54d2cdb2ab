SPECIFICATION EvSpec
CONSTANTS
    Source = {s1, s2}
    MaxPackets = 6
    MaxConts = 2
    MaxLasts = 2
    MaxConnections = 1
INVARIANTS
    NoUseAfterFree
CHECK_DEADLOCK FALSE
