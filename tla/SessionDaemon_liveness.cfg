SPECIFICATION FairSpec
CONSTANTS
    c1 = c1
    c2 = c2
    c3 = c3
    None = None
    Conns <- TwoConns
    HangUps <- TwoConns
    Actions = {"ping", "send", "cancel", "shutdown", "result"}
    MaxQueueDepth = 1
    MaxCompletedResults = 1
PROPERTIES
    EveryRequestAnswered
    StopsWhenTold
    LookupTruthful
CHECK_DEADLOCK FALSE
