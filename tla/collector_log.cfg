SPECIFICATION Spec
CONSTANTS
    Aircraft = {a1, a2}
    Places = {0, 2}
    Sources = {"adsb"}
    None = None
    Gap = 1
    MaxSeen = 1
    MinKeep = 2
    MaxSpeed = 1
    MaxFlights = 2
    MaxClock = 4
    MayFail = FALSE
    MayCrash = TRUE
    MayStop = TRUE
SYMMETRY Symmetric
INVARIANTS PlausibleTrack SplitOnlyOnSilence
PROPERTY ImplementsFlightLog
CHECK_DEADLOCK FALSE
