SPECIFICATION LiveSpec
CONSTANTS
    t1 = t1
    t2 = t2
    v1 = v1
    v2 = v2
    v3 = v3
    Tasks = {t1, t2}
    Videos = {v1, v2, v3}
    BatchSize = 2
    MaxChannels = 1
    MaxCuts = 1
INVARIANTS
    FetchingHasTask
PROPERTIES
    CountsKept
    ThoroughRefresh
    FetchingEnds
    CancelTakesEffect
CHECK_DEADLOCK FALSE
