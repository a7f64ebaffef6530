CONSTANTS
    MaxBytes = 0
    HasDb = TRUE
    SizeBits = 16
    OtherBytes = {"a"}
    ReadTimeout = 2
    WriteTimeout = 2
    Script <- GetOnly
    Pipelined = FALSE
    MaxCmds = 2
    MaxTime = 3
    SlowReader = FALSE
SPECIFICATION FairSpec
PROPERTY TimeoutOnlyAfterIdle
CHECK_DEADLOCK FALSE
