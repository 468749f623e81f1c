SPECIFICATION FairSpec
CONSTANTS
    Accounts = {1}
    MaxObjects = 1
    MaxEdits = 0
    MaxFaults = 0
    MaxIssued = 3
    PanelDeletes = FALSE
    StaleSecrets = TRUE
    LateCreates = FALSE
    BareNotFounds = FALSE
    AgentRuns = FALSE
PROPERTIES
    StoredTokenBecomesLive
CHECK_DEADLOCK FALSE
