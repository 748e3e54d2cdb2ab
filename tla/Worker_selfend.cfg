SPECIFICATION FairSpec
CONSTANTS
    Cmd = {"CONNECT"}
    MaxCmds = 1
    MaxData = 0
    MaxTimeouts = 0
    InitMayFail = FALSE
    MayEnd = TRUE
    MayHang = FALSE
    SlowInit = FALSE
PROPERTIES
    FreeCompletes
CHECK_DEADLOCK FALSE
