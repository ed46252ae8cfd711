SPECIFICATION Spec
CONSTANTS
    Requests = {r1, r2}
    r1 = r1
    r2 = r2
    Ops = {"start", "delete"}
    Events = {"idle"}
    MaxEvents = 1
    MaxRuns = 1
SYMMETRY RequestSymmetry
PROPERTY OnStopCannotResurrect
CHECK_DEADLOCK FALSE
