SPECIFICATION Spec
CONSTANTS
    Aircraft = {a1}
    Places = {0}
    Sources = {"adsb"}
    None = None
    Gap = 1
    MaxSeen = 1
    MinKeep = 2
    MaxSpeed = 1
    MaxFlights = 2
    MaxClock = 3
    MayFail = TRUE
    MayCrash = FALSE
    MayStop = FALSE
INVARIANT NoPhantomFlight
CHECK_DEADLOCK FALSE
