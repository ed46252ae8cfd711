SPECIFICATION Spec
CONSTANTS
    Requests = {r1, r2}
    r1 = r1
    r2 = r2
    Ops = {"start", "stop", "delete", "touch", "destroy"}
    Events = {"crash", "vanish", "blip", "evict", "idle", "quota", "bootfail"}
    MaxEvents = 2
    MaxRuns = 2
SYMMETRY RequestSymmetry
PROPERTY TeardownIsSilent
PROPERTY ConfirmNeedsStreak
PROPERTY RecordSpec
CHECK_DEADLOCK FALSE
