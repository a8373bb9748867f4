SPECIFICATION Spec
CONSTANTS
    None = None
    MaxFlights = 2
    Values = {1, 2}
    Keep = 1
    Batch = 1
    IdBatch = 1
    MinKeep = 2
    MaxClock = 2
    MaxFaults = 1
    MaxScripts = 1
INVARIANT GsCoversFixes
CHECK_DEADLOCK FALSE
