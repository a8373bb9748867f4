SPECIFICATION Spec
CONSTANTS
    Aircraft = {a1}
    Places = {0}
    Sources = {"adsb"}
    None = None
    Gap = 2
    MaxSeen = 0
    MinKeep = 2
    MaxSpeed = 1
    MaxFlights = 3
    MaxClock = 6
    MayFail = FALSE
    MayCrash = TRUE
    MayStop = FALSE
INVARIANT RestartKeepsFlight
CHECK_DEADLOCK FALSE
