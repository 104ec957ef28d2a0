CONSTANTS
    r1 = r1
    r2 = r2
    w1 = w1
    w2 = w2
    q1 = q1
    q2 = q2
    NoRun = NoRun
    Runs <- TwoRuns
    Workers <- OneWorker
    Requests <- OneRequest
    N = 2
    Approvals <- First
    Expiring <- Nowhere
    Denied <- Barred
    Budget <- Ample
    Retries = 0
    Durable = FALSE
    Separate = FALSE
    MaxCrashes = 1
SPECIFICATION FairSpec
CHECK_DEADLOCK FALSE
PROPERTIES QueuedIsTakenOn RunningComesToRest CompletionIsAnnounced
