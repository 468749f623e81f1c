SPECIFICATION FairSpec
CONSTANTS
    Accounts = {1}
    MaxObjects = 1
    MaxEdits = 0
    MaxFaults = 2
    MaxIssued = 1
    PanelDeletes = TRUE
    StaleSecrets = TRUE
    LateCreates = TRUE
    BareNotFounds = TRUE
    AgentRuns = FALSE
INVARIANTS
    FinalizerGuardsRemote
PROPERTIES
    TunnelComesBack
    DeletionCompletes
CHECK_DEADLOCK FALSE
