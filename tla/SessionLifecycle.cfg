SPECIFICATION FairSpec
CONSTANTS
    m1 = m1
    m2 = m2
    d1 = d1
    d2 = d2
    None = None
    Managers <- TwoManagers
    Daemons <- TwoDaemons
    Operations = {"start", "stop", "list", "ensure", "resume"}
    MayCrash = TRUE
    MayBeSlow = TRUE
INVARIANTS
    NamedDaemonBound
PROPERTIES
    OperationsEnd
    DaemonsSettle
