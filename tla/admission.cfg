SPECIFICATION Spec
CONSTANTS
    Sessions = {s1, s2}
    s1 = s1
    s2 = s2
    Requests = {r1, r2}
    r1 = r1
    r2 = r2
    None = None
    MaxSessions = 1
    Limit = 2
    Window = 2
    MaxNow = 2
    MaxArrivals = 3
    MaxFaults = 3
INVARIANT CountsAreHonest
INVARIANT LimitHolds
INVARIANT CapHolds
CHECK_DEADLOCK FALSE
SYMMETRY Symmetry
