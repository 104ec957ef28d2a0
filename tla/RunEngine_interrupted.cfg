CONSTANTS
    r1 = r1
    r2 = r2
    w1 = w1
    w2 = w2
    q1 = q1
    q2 = q2
    NoRun = NoRun
    Runs <- OneRun
    Workers <- OneWorker
    Requests <- OneRequest
    N = 2
    Approvals <- Nowhere
    Expiring <- Nowhere
    Denied <- Nowhere
    Budget <- Ample
    Retries = 0
    Durable = FALSE
    Separate = FALSE
    MaxCrashes = 1
SPECIFICATION FairSpec
CHECK_DEADLOCK FALSE
PROPERTIES InterruptedRunsRecover
