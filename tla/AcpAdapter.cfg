SPECIFICATION FairSpec
CONSTANTS
    Requests = {"initialize", "session", "prompt"}
    Handshake <- TwoRequests
    AgentIds = {9}
    Updates = {"more", "last"}
    MaxId = 3
    MaxSent = 4
INVARIANTS
    AnswersMatch
    NothingLeftBehind
    AnswerIsWhole
    NoAgentLeft
PROPERTIES
    CallsReturn
CHECK_DEADLOCK FALSE
