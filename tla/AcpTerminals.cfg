SPECIFICATION Spec
CONSTANTS
    Paths <- SomePaths
    Dirs <- SomeDirs
    Contexts <- SomeContexts
    MaxAsked = 3
    MaxLines = 2
INVARIANTS
    NoTerminalLeft
    OutputOnce
    ContextUntouched
CHECK_DEADLOCK FALSE
