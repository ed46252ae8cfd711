SPECIFICATION FairSpec
CONSTANTS
    Calls = {c1, c2, c3}
    c1 = c1
    c2 = c2
    c3 = c3
    Threshold = 3
    HalfOpenMax = 2
    Reset = 2
PROPERTY OpensOnStreak
PROPERTY ReopensOnRelapse
PROPERTY Recovers
PROPERTY Shields
CHECK_DEADLOCK FALSE
