SPECIFICATION Spec
CONSTANTS
    c1 = c1
    c2 = c2
    c3 = c3
    None = None
    Conns <- ThreeConns
    HangUps <- NoConns
    Actions = {"send", "cancel", "shutdown"}
    MaxQueueDepth = 2
    MaxCompletedResults = 1
SYMMETRY Symmetry
INVARIANTS
    RequestsAccounted
    CancelIsolated
    TranscriptMatchesAnswers
PROPERTIES
    LatestResultKept
    ImplementsService
CHECK_DEADLOCK FALSE
