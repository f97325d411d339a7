SPECIFICATION Spec
CHECK_DEADLOCK FALSE
CONSTANTS
    Words <- MCWords
    Rows <- SomeRows
    StaticFlags <- SomeFlags
    NonString = NonString
    None = None
INVARIANTS
    PartsAreShown
    FailsOnFlagOnly
PROPERTIES
    ProcessEnds
