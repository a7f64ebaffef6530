CONSTANTS
    Flags = {}
    IntArgs = {}
    AddressArgs = {9}
    PrefixArgs = {226}
    MaxIncs = 2
    NameLen = 19
    Unresolvable = FALSE
    SendFails = FALSE
    GaugeDigits = {1}
SPECIFICATION FairSpec
INVARIANT StatsdNeverTerminates
CHECK_DEADLOCK FALSE
