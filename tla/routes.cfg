SPECIFICATION FairSpec
CONSTANTS
    Callsigns <- MCCallsigns
    Unavailable <- MCUnavailable
    MaxFlights = 3
    BatchSize = 2
    CacheTime = 1
    Cooldown = 1
    MaxFaults = 1
PROPERTIES NoFlightLeftOut RouteNeverForgotten EventuallyLookedUp
CHECK_DEADLOCK FALSE
