CONSTANTS
    p1 = p1
    p2 = p2
    c1 = c1
    c2 = c2
    c3 = c3
    c4 = c4
    c5 = c5
    Nobody = Nobody
    Procs <- OneProc
    Heads <- TwoHeads
    Table <- FourMigrations
    Dialect = "postgres"
    MaxFaults = 0
    Calls <- NoCalls
    What <- NoWhat
    Limit = 2
    Window = 1
    MaxClock = 2
SPECIFICATION FairSpec
CHECK_DEADLOCK FALSE

PROPERTIES EveryProcessServes
