SPECIFICATION Spec
CONSTANTS
    Accounts = {1}
    MaxObjects = 2
    MaxEdits = 1
    MaxFaults = 1
    MaxIssued = 3
    PanelDeletes = FALSE
    StaleSecrets = FALSE
    LateCreates = FALSE
    BareNotFounds = FALSE
    AgentRuns = FALSE
INVARIANTS
    NoOrphan
    StoredCredentialIsLive
    NeverForgotten
    DeployedSpecIsObserved
PROPERTIES
    RotationOnlyWhenNothingStored
    ImplementsLifecycle
CHECK_DEADLOCK FALSE
