SPECIFICATION FairSpec
CONSTANTS
    h1 = h1
    h2 = h2
    NULL = NULL
    Host <- TwoHosts
    LOCAL_MAX = 2
    SUBNET_MAX = 3
    SUBNET_ADDR = 1
    Inputs <- AllTraffic
    MaxMsgs = 2
    MaxStarts = 2
    MaxTimeouts = 1
    MayVanish = FALSE
CHECK_DEADLOCK FALSE
PROPERTIES
    RequestAnswered
