CONSTANTS
    e1 = e1
    e2 = e2
    NoLimit = NoLimit
    Evals <- TwoEvals
    Pool = 1
    Results <- SomeResults
    Limits <- SomeLimits
    MaxCases = 2
    MaxCrashes = 1
SPECIFICATION FairSpec
CHECK_DEADLOCK FALSE
INVARIANTS CompletedIsWhole CancelStopsWork PassedGateHolds
PROPERTIES JobsSettle
