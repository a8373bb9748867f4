SPECIFICATION Spec
CONSTANTS
    Callsigns <- MCCallsigns
    Unavailable <- MCUnavailable
    MaxFlights = 3
    BatchSize = 2
    CacheTime = 1
    Cooldown = 1
    MaxFaults = 1
INVARIANT RoutePerFlight
CHECK_DEADLOCK FALSE
