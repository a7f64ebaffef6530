CONSTANTS
    MaxBytes = 12
    HasDb = TRUE
    SizeBits = 16
    OtherBytes = {"a", "b", "x"}
    MaxChunk = 24
    Wires <- MCWires
SPECIFICATION Spec
INVARIANT SizeLimitEnforced
CHECK_DEADLOCK FALSE
