SPECIFICATION ServicesSpec
CONSTANTS
    None = None
    LastDay = 3
    MaxLives = 4
    Calls = {c1, c2}
    Concurrency = 2
    ListMax = 1
    MaxIds = 2
    MaxUpdates = 1
    MaxSlips = 1
    Web = {r1, r2}
    Bots = {b1}
    Hexes = {h1}
    Types = {ta, tb, tc}
    TypeA = ta
    TypeOf <- MCTypeOf
    Asks <- MCAsks
    LocksMax = 2
    Ttl = 1
    Grace = 1
    Sources = 2
    MaxNow = 3
    MaxAsks = 4
    Config <- MCConfig
    Readings <- MCReadings
    Good <- MCGood
    ConnectMayFail = FALSE
    MaxClock = 14
    MaxTroubles = 2
    FixReports <- MCReports
    Gaps = {2}
    Limits <- MCLimits
    MaxFixes = 5
    Below <- MCBelow
    OooiReports <- MCOooi
    PositionReports <- MCPositions
    SeriesReports <- MCSeries
    ScanLimit = 4
    ScanCap = 2
    PosCap = 1
    TopFreqs = 1
    Width <- MCWidth
    Unit = 2
    Slots = 2
    MaxTs <- MCTimes
    MaxLate = 1
    MaxRows <- MCRows
    MaxSuperseded <- MCSuperseded
    MaxPruned <- MCPruned
SYMMETRY MCSymmetry
INVARIANTS SummaryOnTime CallersHeeded PicturesShared OutagesSeenAndOver TracksKept BlockTimesRight NewestFixesShown CountsAddUp
PROPERTY OutageKeepsPhotos
CHECK_DEADLOCK FALSE
