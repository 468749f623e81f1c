SPECIFICATION Spec
CONSTANTS
    Workers = {w1, w2}
    Secrets = {s1, s2}
    Names = {"", "client_id"}
    Endpoints = {e1, e2}
    Values = {1, 2}
    MaxRevision = 2
INVARIANTS
    TypeOK
    ClientMatchesConfig
    TokenSourceShared
CHECK_DEADLOCK FALSE
