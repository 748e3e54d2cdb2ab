SPECIFICATION Spec
CONSTANTS
    Module = {m1, m2}
    Handlers = {TRUE}
    MaxSessions = 1
    MaxAccesses = 2
    MaxEvents = 0
    MaxTimeouts = 1
    MaxStatusTimeouts = 0
    Lossy = TRUE
INVARIANTS
    ReadReturnsRegister
CHECK_DEADLOCK FALSE
