CONSTANTS
    Flags = {}
    IntArgs = {}
    AddressArgs = {9}
    PrefixArgs = {}
    MaxIncs = 1
    NameLen = 19
    Unresolvable = FALSE
    SendFails = FALSE
    GaugeDigits = {1}
SPECIFICATION Spec
INVARIANT DbPointerSafe
CHECK_DEADLOCK FALSE
