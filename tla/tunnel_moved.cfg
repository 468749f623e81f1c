SPECIFICATION Spec
CONSTANTS
    Accounts = {1, 2}
    MaxObjects = 1
    MaxEdits = 1
    MaxFaults = 0
    MaxIssued = 3
    PanelDeletes = FALSE
    StaleSecrets = FALSE
    LateCreates = FALSE
    BareNotFounds = FALSE
    AgentRuns = FALSE
INVARIANT NoOrphan
CHECK_DEADLOCK FALSE
