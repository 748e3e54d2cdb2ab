SPECIFICATION ApplicationsSpec
CONSTANTS
    Tools <- AllTools
    OptionSets <- AllOptions
    EventKinds = {"char", "nl", "trace"}
    MaxEvents = 3
    MaxToolFails = 2
    BUF = 2
    MaxTyped = 4
    MaxStarts = 2
    MaxTermFails = 2
    Classes <- AllClasses
    PyThread = {"a", "b"}
    MainThread = "a"
    PENDING = 2
    MaxPyCalls = 4
    MaxPyEvents = 3
    MaxPyFails = 1
    SIZE_MOD = 6
    Obj = {1, 2}
    Index <- Indices
    Value <- Words
    SubTypes = {1, 15}
    MaxPktCalls = 4
INVARIANTS
    
    TracesKept
    TerminalIsClean
    
    ReturnedIsDone
    PacketFormatKept
PROPERTIES
    ToolsEnd
    PyCallsReturn
    IsSequence
CHECK_DEADLOCK FALSE
