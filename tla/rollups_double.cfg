SPECIFICATION Spec
CONSTANTS
    Deploy = 1
    LastDay = 3
    MaxPerDay = 2
    MaxOld = 1
    Retention = 0
    MaxCrashes = 0
    MaxFailures = 0
INVARIANT AtMostOnePollTwice
CHECK_DEADLOCK FALSE
