\* Two terminals at once: the session is written back from what was read before
\* the usage call, and an outcome lands at a place it was not validated for.
SPECIFICATION Spec
CHECK_DEADLOCK FALSE
CONSTANTS
    Terminals = {t1, t2}
    t1 = t1
    t2 = t2
    BucketCount = 2
    DailyCap = 3
    MaxOutside = 0
    MaxWrites = 0
    MaxCycles = 0
    MaxDays = 0
PROPERTIES
    LookupsNeedASettledSession
