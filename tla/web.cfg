SPECIFICATION WebSpec
CONSTANTS
    None = None
    Threads = {t1, t2}
    Stats = stats
    Maps = {heatmap}
    Windows = {w1}
    Ttl <- MCTtl
    Cap = 2
    Cool = 0
    Retry = 3
    MaxCompute = 1
    MaxClock = 6
    MaxFailures = 1
    Flights = {f1, f2}
    Places = {2, 9}
    Unit = 12
    Step = 3
    Short <- MCShort
    Fine = 2
    Coarse = 1
    DistNm <- MCDist
    Bearing <- MCBearing
    Circle = 4
    BucketDeg = 2
    Day = 2
    Week = 1
    Month = 2
    FineRetention = 2
    Retention = 1
    FlightGap = 1
    MinKeep = 2
    MaxSeen = 1
    MapWindow = 1
    TrailWindow = 2
    History = 2
    LiveSlack = 0
    Lead = 1
    Trail = 2
    LastMoment = 6
    MaxFixes = 3
SYMMETRY MCSymmetry
INVARIANTS WarmAndFresh MapFaithful
PROPERTIES SingleFlight ReplayIsStable
CHECK_DEADLOCK FALSE
