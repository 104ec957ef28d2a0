CONSTANTS
    k1 = k1
    k2 = k2
    w1 = w1
    w2 = w2
    NoKey = NoKey
    Keys <- TwoKeys
    Webhooks <- Hooked
    Workers <- TwoWorkers
    MaxAttempts = 2
    Limit = 2
    MaxFaults = 1
SPECIFICATION FairSpec
CHECK_DEADLOCK FALSE
INVARIANTS DeliveredIsProven DeadIsJustified OneSender
PROPERTIES SettledIsFinal EveryEventSettles
