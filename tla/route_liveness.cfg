SPECIFICATION FairSpec
CONSTANTS
    Refs = {"t1"}
    Names = {"r1"}
    Services = {"web"}
    SpecsOf <- MCTwoIdentities
    PortSets <- MCTwoPorts
    MaxRoutes = 1
    MaxTunnels = 1
    MaxDisturbances = 1
    PanelDeletes = TRUE
    LateCreates = TRUE
    BareNotFounds = TRUE
INVARIANTS
    TypeOK
    FinalizerGuardsRoute
PROPERTIES
    EventuallyPublished
    DeletionCompletes
CHECK_DEADLOCK FALSE
