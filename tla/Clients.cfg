SPECIFICATION ClientsSpec
CONSTANTS
    DW_B = 4
    AW_B = 2
    MAX_BURST_WORDS = 2
    MAX_EVENT_WORDS = 3
    ELF_WORD = 65536
    MEM_SIZE = 16
    Accesses <- AllAccesses
    Images <- ThreeImages
    MaxCalls = 2
    MayFail = TRUE
    Host = {h1, h2}
    Subnet = {0, 1}
    LOCALS = 4
    WORD = 16
    REGION_WORDS = 2
    SPR_PAGE = 2
    Device <- TwoSubnets
    MemoryMap <- TwoMemories
    Target = {1, 2}
    MaxRegCalls = 3
    MaxFails = 1
INVARIANTS
    
    RegisterReached
    
PROPERTIES
    
    OtherBitsKept
CHECK_DEADLOCK FALSE
