SPECIFICATION Spec
CONSTANTS
    h1 = h1
    h2 = h2
    NULL = NULL
    Host <- TwoHosts
    LOCAL_MAX = 2
    SUBNET_MAX = 2
    SUBNET_ADDR = 1
    Inputs <- RegularTraffic
    MaxMsgs = 3
    MaxStarts = 1
    MaxTimeouts = 0
    MayVanish = TRUE
SYMMETRY HostSymmetry
CHECK_DEADLOCK FALSE
INVARIANTS
    AddressHeldIsRouted
    GatewayAckIsRouted
    PacketsReachAddressee
    OneReplyPerRequest
    RoutingNeverAborts
PROPERTIES
    OnlyOwnerFreesEntry
