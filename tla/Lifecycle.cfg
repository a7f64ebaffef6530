CONSTANTS
    Flags = {"help", "db_restore_backup"}
    IntArgs = {0, 2}
    AddressArgs = {0, 9}
    PrefixArgs = {8}
    MaxIncs = 3
    NameLen = 19
    Unresolvable = TRUE
    SendFails = TRUE
    GaugeDigits = {1, 5}
SPECIFICATION FairSpec
INVARIANT CountersConserved OptionsApplied
PROPERTY ShutdownCompletes
CHECK_DEADLOCK FALSE
