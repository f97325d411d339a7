SPECIFICATION OrderlySpec
CONSTANTS
    c1 = c1
    c2 = c2
    c3 = c3
    ada = ada
    bunni = bunni
    t1 = t1
    t2 = t2
    t3 = t3
    right = right
    wrong = wrong
    Conns = {c1, c2, c3}
    Users = {ada}
    UserOf <- StudentUserOf
    SpecialUsers = {}
    TaskIds = {t1, t2, t3}
    Tasks = {t1, t2}
    FirstTask = t1
    Unlocks <- ChainUnlocks
    HintCount <- TwoHints
    HintAsks = {0, 1, 2, 3}
    Flags = {right, wrong}
    FlagOf <- SameFlag
    SessionIds = {1, 2, 3, 4, 5}
    None = None
INVARIANTS
    ActiveHasSession
    RegisteredWhileServed
PROPERTIES
    SolvedIsUnlocked
    ImplementsProtocol
