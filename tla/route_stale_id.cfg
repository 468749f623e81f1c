SPECIFICATION Spec
CONSTANTS
    Refs = {"t1"}
    Names = {"r1"}
    Services = {"web"}
    SpecsOf <- MCSameHost
    PortSets <- MCOnePort
    MaxRoutes = 1
    MaxTunnels = 2
    MaxDisturbances = 0
    PanelDeletes = FALSE
    LateCreates = FALSE
    BareNotFounds = FALSE
INVARIANTS
    NoRouteOutlives
CHECK_DEADLOCK FALSE
