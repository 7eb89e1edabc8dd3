SPECIFICATION FairSpec
CONSTANTS
    Count = 2
    MaxOutput <- SecondWrites
    Faulty = {2}
    Ends <- SecondSucceeds
INVARIANTS
    NoProviderLeft
    SuccessIsWhole
    StoppedForAReason
PROPERTIES
    RunReturns
    ImplementsStage
CHECK_DEADLOCK FALSE
