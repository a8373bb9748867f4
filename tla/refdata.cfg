SPECIFICATION Spec
CONSTANTS
    x1 = x1
    x2 = x2
    r1 = r1
    None = None
    Airframes = {x1, x2}
    Regs = {r1}
    Tables = {"aircraft_db", "airlines"}
    Upstream <- MCUpstream
    Codes = {"LOT"}
    CacheSize = 1
    TTL = 1
    MaxFlights = 2
    MaxPolls = 2
    MaxUpdates = 1
    MaxCrashes = 1
SYMMETRY Symmetric
INVARIANTS LookUpsTrue
PROPERTY ConfirmedKept
CHECK_DEADLOCK FALSE
