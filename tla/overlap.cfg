SPECIFICATION FairSpec
CONSTANTS
    c1 = c1
    c2 = c2
    c3 = c3
    ada = ada
    bunni = bunni
    t1 = t1
    t2 = t2
    t3 = t3
    right = right
    wrong = wrong
    Conns = {c1, c2}
    Users = {ada}
    UserOf <- StudentUserOf
    SpecialUsers = {}
    TaskIds = {t1, t2, t3}
    Tasks = {t1, t2}
    FirstTask = t1
    Unlocks <- ChainUnlocks
    HintCount <- OneHint
    HintAsks = {1, 2}
    Flags = {right, wrong}
    FlagOf <- SameFlag
    SessionIds = {1, 2, 3, 4}
    None = None
INVARIANTS
    RegistryLive
    SessionAuthorised
    AccessChain
    HintsOfOwnTask
    IInv
PROPERTIES
    DocumentedTransitions
    HandlerReturns
    ClosedIsForgotten
    CloseEndsSession
