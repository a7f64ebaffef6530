CONSTANTS
    MaxBytes = 0
    HasDb = TRUE
    SizeBits = 16
    OtherBytes = {"a"}
    ReadTimeout = 2
    WriteTimeout = 2
    Script <- WholeScript
    Pipelined = FALSE
    MaxCmds = 2
    MaxTime = 3
    SlowReader = FALSE
SPECIFICATION FairSpec
INVARIANT ResponsesMatchRequests
INVARIANT OneOperationAtATime
PROPERTY ConnectionReleased
CHECK_DEADLOCK FALSE
