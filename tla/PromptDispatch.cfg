SPECIFICATION FairSpec
CONSTANTS
    MaxRetries = 2
    Runs = {1, 2, 3}
    StallTimeout = 3
    MayRaise = TRUE
INVARIANTS
    NoRunLeftBehind
    RetriesMend
    CancelStopsRuns
    ResultTruthful
PROPERTIES
    DispatchEnds
CHECK_DEADLOCK FALSE
