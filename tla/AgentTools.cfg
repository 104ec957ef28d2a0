CONSTANTS
    w1 = w1
    w2 = w2
    Workflows <- TwoWorkflows
    Programs <- FivePrograms
    Threads = 1
    Retries = 1
    HttpRetries = 1
    Pieces = 2
    MaxRuns = 4
    MaxRows <- ManyRows
    MaxStarts <- Starts
    MaxCrashes = 1
SPECIFICATION FairSpec
CHECK_DEADLOCK FALSE
INVARIANTS TypeOK OutputIsPublished HandoffsDoNotLoop ParentFollowsChild
PROPERTIES AbandonedNeverStarts EveryRunRests
