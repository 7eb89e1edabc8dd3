SPECIFICATION FairSpec
CONSTANTS
    Requests = {"initialize", "session", "prompt"}
    Handshake <- TwoRequests
    AgentIds = {3}
    Updates = {"more", "last"}
    MaxId = 3
    MaxSent = 3
INVARIANTS
    AnswersMatch
CHECK_DEADLOCK FALSE
