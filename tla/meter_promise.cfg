SPECIFICATION FairSpec
CONSTANTS
    Sessions = {s1, s2}
    s1 = s1
    s2 = s2
    MaxDelta = 2
    MaxEntries = 2
    Quota = 2
    Trialing = TRUE
    MaxUsage = 2
    MaxFaults = 1
    MaxMonth = 1
    MaxReads = 0
INVARIANT NoOvercharge
PROPERTY LedgerSpec
PROPERTY PendingIsFlushed
CHECK_DEADLOCK FALSE
