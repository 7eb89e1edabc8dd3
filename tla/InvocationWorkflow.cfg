SPECIFICATION Spec
CONSTANTS
    Invocations = {"first", "second", "third"}
    Order <- Declared
    Provider <- Providers
    Readers = {"first", "second"}
    None = None
    Requested = {None, "claude"}
INVARIANTS NothingDropped BuiltOnSuccess SourcesWhole
PROPERTY RootKeepsItsWord
CHECK_DEADLOCK FALSE
