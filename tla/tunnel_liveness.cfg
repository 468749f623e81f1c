SPECIFICATION FairSpec
CONSTANTS
    Accounts = {1}
    MaxObjects = 1
    MaxEdits = 1
    MaxFaults = 1
    MaxIssued = 3
    PanelDeletes = FALSE
    StaleSecrets = FALSE
    LateCreates = FALSE
    BareNotFounds = FALSE
    AgentRuns = TRUE
INVARIANTS
    TypeOK
PROPERTIES
    EventuallyConnected
    DeletionCompletes
CHECK_DEADLOCK FALSE
