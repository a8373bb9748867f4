SPECIFICATION FairSpec
CONSTANTS
    None = None
    MaxFaults = 3
    MaxStarts = 3
INVARIANTS DamageIsChecked HistoryKept
PROPERTY EventuallyReady
CHECK_DEADLOCK FALSE
