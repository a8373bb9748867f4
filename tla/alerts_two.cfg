SPECIFICATION AlertsSpec
CONSTANTS
    Aircraft = {a1, a2}
    None = None
    Sentinel = Sentinel
    QueueSize = 1
    MaxIds = 2
    MaxStarts = 2
    MayFail = TRUE
    MayCrash = TRUE
INVARIANT AlertedOnce
SYMMETRY Symmetric
CHECK_DEADLOCK FALSE
