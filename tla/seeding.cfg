SPECIFICATION FairSpec
CONSTANTS
    v1 = v1
    v2 = v2
    t1 = t1
    t2 = t2
    t3 = t3
    TaskIds = {t1, t2, t3}
    Versions = {v1, v2}
    Files <- TwoDeployments
    MaxHints = 2
    StaticUsers <- AdminAndDebugUser
    None = None
INVARIANTS
    SeedingComplete
    HintsFollowTask
    RowsAreCurrent
PROPERTIES
    RowsAreKept
    StartupEnds
