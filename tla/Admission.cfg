CONSTANTS
    p1 = p1
    p2 = p2
    f1 = f1
    f2 = f2
    f3 = f3
    k1 = k1
    c1 = c1
    c2 = c2
    c3 = c3
    NoKey = NoKey
    NoRun = NoRun
    Seed = Seed
    SeedOf = f1
    Projects <- TwoProjects
    Workflows <- ThreeWorkflows
    Project <- TheirProjects
    Keys <- OneKey
    Requests <- ThreeRequests
    MaxFaults = 1
SYMMETRY RequestsAreAlike
SPECIFICATION Spec
CHECK_DEADLOCK FALSE
INVARIANTS OneRunPerKey RacesDoNotFail VersionsAreOwn
