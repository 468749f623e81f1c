SPECIFICATION Spec
CONSTANTS
    Refs = {"t1", "t2"}
    Names = {"r1"}
    Services = {"web"}
    SpecsOf <- MCTwoTunnels
    PortSets <- MCOnePort
    MaxRoutes = 1
    MaxTunnels = 1
    MaxDisturbances = 1
    PanelDeletes = FALSE
    LateCreates = FALSE
    BareNotFounds = FALSE
INVARIANTS
    NoRouteOutlives
CHECK_DEADLOCK FALSE
