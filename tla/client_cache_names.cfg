SPECIFICATION Spec
CONSTANTS
    Workers = {w1, w2}
    Secrets = {s1}
    Names = {"", "token_id"}
    Endpoints = {e1}
    Values = {1, 2}
    MaxRevision = 1
INVARIANTS
    ClientMatchesConfig
CHECK_DEADLOCK FALSE
