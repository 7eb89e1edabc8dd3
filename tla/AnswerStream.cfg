SPECIFICATION StreamSpec
CONSTANTS
    Pieces = {"a", "b"}
    Texts <- SomeTexts
    MaxLines = 3
INVARIANTS
    AnswerIsShown
CHECK_DEADLOCK FALSE
