CONSTANTS
    s1 = s1
    s2 = s2
    cron = cron
    manual = manual
    NoSchedule = NoSchedule
    Schedules <- TwoSchedules
    Sweepers <- TwoSweepers
    Scheduler = cron
    Interval = 1
    MaxClock = 1
    MaxFaults = 1
SPECIFICATION FairSpec
CHECK_DEADLOCK FALSE
INVARIANTS FiringsAreSpaced
PROPERTIES PassedOnlyByRun DueIsFired
