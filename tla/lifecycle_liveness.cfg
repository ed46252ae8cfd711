SPECIFICATION FairSpec
CONSTANTS
    Requests = {r1, r2}
    r1 = r1
    r2 = r2
    Ops = {"start", "stop"}
    Events = {"crash", "vanish", "evict"}
    MaxEvents = 2
    MaxRuns = 2
PROPERTY CrashConverges
PROPERTY LoopNotices
PROPERTY SelfHeal
PROPERTY TeardownEnds
CHECK_DEADLOCK FALSE
