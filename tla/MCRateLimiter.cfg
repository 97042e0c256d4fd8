SPECIFICATION FairSpec
CHECK_DEADLOCK FALSE
CONSTANTS
    r1 = r1
    r2 = r2
    r3 = r3
    ip1 = ip1
    ip2 = ip2
    Requests <- MCRequests
    ClientIP <- MCClientIP
    ConfiguredRPM = 3
    ConfiguredBurst = 1
    DefaultRPM = 7
    MaxTime = 1
    MaxCleanups = 1
INVARIANTS
    ClientBudget
    RefusedSpentItsBurst
PROPERTIES
    ShutdownStopsAll
