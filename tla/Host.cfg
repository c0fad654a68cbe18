CONSTANTS
    Applications = {1, 3}
    Machines = {m1, m2}
    Demands = {1}
    MaxApplications = 2
    MaxTracked = 1
    MaxCached = 2
    Expiry = 2
    MaxTime = 3
    Capacity = 2
    Retention = 2
    MaxRecorded = 3
    Products <- MCProducts
    Skus = {s1}
    RefuseNonVolume = TRUE
    RefusePreview = TRUE
    RefuseSkew = TRUE
    ClockKnown = TRUE
    MaxPerHandle = 2
    Worlds <- MCWorlds
    U32 = 15
    MILLION = 4
    Todays <- MCTodays
    Asked = {4, 5, 6, 10, 12, 19}
    Counted = {windows, office, other}
    Cmids = {c1, c2, c3}
    Demanded = {2, 3}
    Tracked = 2
    Keys = {c1, c2, c3}
    Burst = 2
    Refill = 1
    MaxSources = 2
    Second = 3
    MaxTicks = 8
SPECIFICATION MCSpec
SYMMETRY Symmetric
INVARIANTS
    LogExplainsCounts
    SourceIsOldest
    KeyDrawIsUniform
    EPidIsPlausible
    AnswersAsKeyHolder
PROPERTIES
    CountsRefined
    EveryRequestLogged
    CountsKept
    RateKept
CHECK_DEADLOCK FALSE
