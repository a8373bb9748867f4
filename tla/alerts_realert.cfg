SPECIFICATION AlertsSpec
CONSTANTS
    Aircraft = {a1}
    None = None
    Sentinel = Sentinel
    QueueSize = 1
    MaxIds = 2
    MaxStarts = 2
    MayFail = FALSE
    MayCrash = TRUE
INVARIANT SquawkOncePerFlight
CHECK_DEADLOCK FALSE
