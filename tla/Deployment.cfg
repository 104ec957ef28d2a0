CONSTANTS
    p1 = p1
    p2 = p2
    c1 = c1
    c2 = c2
    c3 = c3
    c4 = c4
    c5 = c5
    Nobody = Nobody
    Procs <- TwoProcs
    Heads <- TwoHeads
    Table <- FourMigrations
    Dialect = "sqlite"
    MaxFaults = 1
    Calls <- FiveCalls
    What <- Mixed
    Limit = 2
    Window = 1
    MaxClock = 2
SPECIFICATION FairSpec
CHECK_DEADLOCK FALSE
INVARIANTS TypeOK LedgerIsTrue AnsweredIsAudited
PROPERTIES AllOrNothing WindowIsExact EveryProcessServes
