SPECIFICATION Spec
CONSTANTS
    Refs = {"t1"}
    Names = {"r1"}
    Services = {"web"}
    SpecsOf <- MCOneIdentity
    PortSets <- MCOnePort
    MaxRoutes = 2
    MaxTunnels = 1
    MaxDisturbances = 2
    PanelDeletes = FALSE
    LateCreates = FALSE
    BareNotFounds = FALSE
INVARIANTS
    NoRouteOutlives
    SyncedMeansPublished
    PairIsUnique
    NeverForgotten
CHECK_DEADLOCK FALSE
