SPECIFICATION Spec
CONSTANTS
    m1 = m1
    m2 = m2
    d1 = d1
    d2 = d2
    None = None
    Managers <- TwoManagers
    Daemons <- TwoDaemons
    Operations = {"ensure"}
    MayCrash = FALSE
    MayBeSlow = FALSE
INVARIANTS
    OneDaemonServes
