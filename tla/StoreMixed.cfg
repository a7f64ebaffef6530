CONSTANTS
    c1 = c1  c2 = c2  c3 = c3  k1 = k1  k2 = k2
    Clients = {c1, c2, c3}
    Keys = {k1, k2}
    Values = {v1, v2}
    Absent = Absent  NoCmd = NoCmd  NoResult = NoResult  NoOwner = NoOwner
    Roles <- MixedRoles
    MaxCmds = 2
    Faults = {"put", "del"}
    Throws = TRUE
SPECIFICATION FairSpec
INVARIANT TypeOK
PROPERTY Linearizable
CHECK_DEADLOCK FALSE
