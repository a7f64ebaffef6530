CONSTANTS
    c1 = c1  c2 = c2  c3 = c3  k1 = k1  k2 = k2
    Clients = {c1, c2, c3}
    Keys = {k1}
    Values = {v1, v2}
    Absent = Absent  NoCmd = NoCmd  NoResult = NoResult  NoOwner = NoOwner
    Roles <- SetAddRoles
    MaxCmds = 2
    Faults = {}
    Throws = FALSE
SPECIFICATION FairSpec
PROPERTY Linearizable
CHECK_DEADLOCK FALSE
