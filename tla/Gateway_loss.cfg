SPECIFICATION GatewaySpec
CONSTANTS
    MaxConnects = 2
    MaxFromDevice = 2
    MaxToDevice = 2
    MaxStatusTimeouts = 1
    MaxReplyTimeouts = 1
    WriteMayFail = TRUE
    BYTE = 3
    Packets <- TwoPackets
    MaxLinks = 2
    MaxDatagrams = 2
    MaxFailures = 1
INVARIANTS
    RxThreadHasSocket
    
    RegistrationFollowsConnection
    ForwardedInOrder
    LossFlagIsCurrent
    StreamsAreKept
PROPERTIES
    DisconnectReturns
    LossIsCleanedUp
    EverythingArrives
CHECK_DEADLOCK FALSE
