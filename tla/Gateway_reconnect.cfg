SPECIFICATION FairSpec
CONSTANTS
    MaxConnects = 2
    MaxFromDevice = 1
    MaxToDevice = 0
    MaxStatusTimeouts = 0
    MaxReplyTimeouts = 0
    WriteMayFail = FALSE
PROPERTIES
    DataIsForwarded
CHECK_DEADLOCK FALSE
