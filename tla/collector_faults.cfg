SPECIFICATION Spec
CONSTANTS
    Aircraft = {a1, a2}
    Places = {0}
    Sources = {"adsb"}
    None = None
    Gap = 1
    MaxSeen = 1
    MinKeep = 2
    MaxSpeed = 1
    MaxFlights = 2
    MaxClock = 3
    MayFail = TRUE
    MayCrash = TRUE
    MayStop = TRUE
SYMMETRY Symmetric
INVARIANTS CountsMatchPositions MemoryMirrorsTable
PROPERTIES OwnFlightOnly FinishedFlightsFrozen NoOrphanCommitted
CHECK_DEADLOCK FALSE
