CONSTANTS
    MaxBytes = 0
    HasDb = TRUE
    SizeBits = 16
    OtherBytes = {"a", "x"}
    MaxChunk = 16
    Wires <- MalformedWires
SPECIFICATION Spec
INVARIANT MalformedRejected
CHECK_DEADLOCK FALSE
