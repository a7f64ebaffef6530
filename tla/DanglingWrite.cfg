CONSTANTS
    MaxBytes = 0
    HasDb = TRUE
    SizeBits = 16
    OtherBytes = {"a"}
    ReadTimeout = 0
    WriteTimeout = 0
    Script <- GetOnly
    Pipelined = FALSE
    MaxCmds = 1
    MaxTime = 0
    SlowReader = TRUE
SPECIFICATION FairSpec
INVARIANT ResponsesMatchRequests
CHECK_DEADLOCK FALSE
