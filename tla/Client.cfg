CONSTANTS
    MaxContextItems = 16
    MaxTransferSyntaxes = 4
    Workers = {w1, w2}
    Requests = 3
    CommandLines <- MCCommandLines
    AllVersions = {4, 5, 6}
    DefaultDemand = 3
    DefaultLimit = 3
    Traits <- MCTraits
    Zones <- MCZones
    Addresses = {"a", "b", "c"}
    MaxTracked = 2
    MaxCached = 5
    StallRounds = 3
    AbsurdDemand = 6
    MaxBreaks = 2
    TIME_C1 = 9
    TIME_C2 = 7
    TIME_C3 = 100
    U64 = 1048576
    Fillers = {0, 14, 16}
    Shapes <- MC_Shapes
    MaxTail = 3
    Excess = {0, 1}
    Units = {0, 1, 22, 63, 64}
    NameUnits = {0, 63, 64}
    Times = {0, 8, 9}
    Declared <- MC_Declared
    Deviations <- Mistake
SPECIFICATION MCSpec
INVARIANTS
    OwnAnswer
    ReportIsTrue
    AcceptsOne
    HonestHostPasses
    DeviationDiagnosed
PROPERTIES
    RunEnds
CHECK_DEADLOCK FALSE
