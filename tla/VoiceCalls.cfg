SPECIFICATION Spec
CONSTANTS
    s1 = s1
    s2 = s2
    u1 = u1
    u2 = u2
    Sessions = {s1}
    Users = {u1, u2}
    PrefixOf <- NoPrefix
    Colocated = TRUE
    Configured = {s1}
    MaxOps = 2
    MaxRetries = 1
    MaxFaults = 1
SYMMETRY Symmetry
CONSTRAINT Followed
CHECK_DEADLOCK FALSE
INVARIANTS
    TypeOK
    OneDialPerAttempt
    AssessmentOfAttempt
    RingingIsServed
PROPERTIES EndedStaysEnded AttemptsAsPromised
