SPECIFICATION FairSpec
CONSTANTS
    Keys <- NumberKeys
    Defaults <- PolicyDefaults
    Files <- SomeFiles
    Excluded <- SomeExcluded
    DefaultId <- Ids
    Catalog <- Models
    Interval = 2
    Patience = 4
    ConfigFiles <- SomeConfigFiles
    AgentFiles <- SomeAgentFiles
    Options <- SomeOptions
    Requests <- SomeRequests
    ToolCalls <- SomeToolCalls
INVARIANTS
    SameDeadlines
    WithinMode
    FilesDividedOnce
PROPERTIES
    GivenUpInSilence
    ReportTruthful
    CallEnds
CHECK_DEADLOCK FALSE
