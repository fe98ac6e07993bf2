SPECIFICATION PairSpec
CONSTANTS
    s1 = s1
    s2 = s2
    u1 = u1
    u2 = u2
    Sessions = {s1, s2}
    Users = {u1}
    PrefixOf <- IdPrefix
    Colocated = TRUE
    Configured = {s1, s2}
    MaxOps = 1
    MaxRetries = 1
    MaxFaults = 1
CONSTRAINT TwoRows
CHECK_DEADLOCK FALSE
PROPERTIES
    ScheduledMovesOn
    FailedMovesOn
