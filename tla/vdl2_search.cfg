SPECIFICATION Spec
CONSTANTS
    Bodies <- MCBodies
    MaxMessages = 3
    OldMessages = 1
    MaxClock = 2
    Window = 1
    Retention = 1
    PruneBatch = 1
    Batch = 2
    MaxPending = 2
    MaxLines = 2
    MaxFaults = 2
INVARIANT SearchComplete
CHECK_DEADLOCK FALSE
