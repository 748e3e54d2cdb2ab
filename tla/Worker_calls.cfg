SPECIFICATION FairSpec
CONSTANTS
    Cmd = {"CONNECT", "DISCONNECT"}
    MaxCmds = 3
    MaxData = 2
    MaxTimeouts = 2
    InitMayFail = TRUE
    MayEnd = TRUE
    MayHang = TRUE
    SlowInit = TRUE
INVARIANTS
    ThreadEndsBeforeFree
    FreedCleanly
    AnswerMatches
PROPERTIES
    ShutdownCompletes
CHECK_DEADLOCK FALSE
