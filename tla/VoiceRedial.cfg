SPECIFICATION Spec
CONSTANTS
    s1 = s1
    s2 = s2
    u1 = u1
    u2 = u2
    Sessions = {s1}
    Users = {u1}
    PrefixOf <- NoPrefix
    Colocated = FALSE
    Configured = {s1}
    MaxOps = 2
    MaxRetries = 1
    MaxFaults = 0
CHECK_DEADLOCK FALSE
INVARIANT DialledOnce
