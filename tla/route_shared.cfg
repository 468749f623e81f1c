SPECIFICATION Spec
CONSTANTS
    Refs = {"t1"}
    Names = {"r1", "r2"}
    Services = {"web"}
    SpecsOf <- MCSameHost
    PortSets <- MCOnePort
    MaxRoutes = 2
    MaxTunnels = 1
    MaxDisturbances = 0
    PanelDeletes = FALSE
    LateCreates = FALSE
    BareNotFounds = FALSE
INVARIANTS
    SyncedMeansPublished
CHECK_DEADLOCK FALSE
