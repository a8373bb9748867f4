SPECIFICATION FairSpec
CONSTANTS
    Deploy = 2
    LastDay = 4
    MaxPerDay = 2
    MaxOld = 1
    Retention = 1
    MaxCrashes = 1
    MaxFailures = 1
INVARIANT EveryFixCounted
PROPERTY EventuallyReady
CHECK_DEADLOCK FALSE
