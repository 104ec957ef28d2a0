CONSTANTS
    r1 = r1
    r2 = r2
    w1 = w1
    w2 = w2
    q1 = q1
    q2 = q2
    NoRun = NoRun
    Runs <- OneRun
    Workers <- OneWorker
    Requests <- TwoRequests
    N = 2
    Approvals <- First
    Expiring <- First
    Denied <- Nowhere
    Budget <- Ample
    Retries = 1
    Durable = TRUE
    Separate = FALSE
    MaxCrashes = 1
SPECIFICATION Spec
CHECK_DEADLOCK FALSE
SYMMETRY Interchangeable
INVARIANTS CompletedIsFullyTraced ResumesBehindTrace
PROPERTIES GateOpensOnlyByApproval ImplementsFlightRecorder
