CONSTANTS
    MaxBytes = 0
    HasDb = TRUE
    SizeBits = 16
    OtherBytes = {"a", "b", "x"}
    MaxChunk = 24
    Wires <- MCWires
SPECIFICATION Spec
INVARIANT ParseMatchesRequest
INVARIANT CompleteRequestAnswered
CHECK_DEADLOCK FALSE
