SPECIFICATION AlertsFairSpec
CONSTANTS
    Aircraft = {a1}
    None = None
    Sentinel = Sentinel
    QueueSize = 2
    MaxIds = 3
    MaxStarts = 2
    MayFail = TRUE
    MayCrash = TRUE
INVARIANT AlertedOnce
PROPERTY QueuedIsGiven
CHECK_DEADLOCK FALSE
