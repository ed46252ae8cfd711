SPECIFICATION PathSpec
CONSTANTS
    Sockets = {k1, k2}
    k1 = k1
    k2 = k2
    None = None
    MaxLoops = 2
INVARIANT OneLoop
INVARIANT ShownIsTrue
INVARIANT KeysOnce
INVARIANT ClaimIsKept
PROPERTY WakeLoopEnds
PROPERTY Reconnects
CHECK_DEADLOCK FALSE
