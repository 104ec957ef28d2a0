CONSTANTS
    r1 = r1
    r2 = r2
    w1 = w1
    w2 = w2
    q1 = q1
    q2 = q2
    NoRun = NoRun
    Runs <- TwoRuns
    Workers <- TwoWorkers
    Requests <- OneRequest
    N = 2
    Approvals <- First
    Expiring <- Nowhere
    Denied <- Nowhere
    Budget <- Tight
    Retries = 1
    Durable = FALSE
    Separate = FALSE
    MaxCrashes = 1
SPECIFICATION Spec
CHECK_DEADLOCK FALSE
SYMMETRY Interchangeable
INVARIANTS SingleExecutor TraceIsContinuous WaitingIsDecidable QueuedIsHeld GovernedSteps
PROPERTIES RewrittenOnlyAroundCancel
