SPECIFICATION Spec
CHECK_DEADLOCK FALSE
CONSTANTS
    Words <- MCWords
    Rows <- SomeRows
    StaticFlags <- DollarFlags
    NonString = NonString
    None = None
INVARIANTS
    FlagIsShown
