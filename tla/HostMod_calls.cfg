SPECIFICATION HostModSpec
CONSTANTS
    Module = {m1, m2}
    Handlers = {TRUE, FALSE}
    MaxSessions = 2
    MaxAccesses = 2
    MaxEvents = 1
    MaxTimeouts = 1
    MaxStatusTimeouts = 1
    Lossy = TRUE
    Source = {s1, s2}
    MaxPackets = 5
    MaxConts = 3
    MaxLasts = 3
    MaxConnections = 2
INVARIANTS
    AnswerMatches
    NoAssertFails
    AddressIsCurrent
    BufferOwnsPackets
PROPERTIES
    AccessReturns
    Reassembles
CHECK_DEADLOCK FALSE
