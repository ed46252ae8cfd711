SPECIFICATION Spec
CONSTANTS
    Sessions = {s1}
    s1 = s1
    MaxDelta = 2
    MaxEntries = 2
    Quota = 3
    Trialing = FALSE
    MaxUsage = 3
    MaxFaults = 2
    MaxMonth = 2
    MaxReads = 1
INVARIANT Ledger
PROPERTY UsageReadIsBounded
CHECK_DEADLOCK FALSE
