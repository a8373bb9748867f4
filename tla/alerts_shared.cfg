SPECIFICATION AlertsSpec
CONSTANTS
    Aircraft = {a1, a2}
    None = None
    Sentinel = Sentinel
    QueueSize = 1
    MaxIds = 2
    MaxStarts = 1
    MayFail = TRUE
    MayCrash = FALSE
INVARIANT SquawkOncePerFlight
SYMMETRY Symmetric
CHECK_DEADLOCK FALSE
