\* One terminal, every interruption.  A session whose operation stays authorized
\* can do nothing more: deadlock is not an error.
SPECIFICATION Spec
CHECK_DEADLOCK FALSE
CONSTANTS
    Terminals = {t1}
    t1 = t1
    BucketCount = 3
    DailyCap = 3
    MaxOutside = 1
    MaxWrites = 1
    MaxCycles = 1
    MaxDays = 1
INVARIANTS
    OneCallPerBucket
    UseIsExplained
PROPERTIES
    LookupsNeedASettledSession
