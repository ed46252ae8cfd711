SPECIFICATION FairSpec
CONSTANTS
    Ids = {tab1, tab2}
    tab1 = tab1
    tab2 = tab2
    FirstTabs = {tab1}
    Prewarm = prewarm
    Objs = {o1, o2}
    o1 = o1
    o2 = o2
    Conns = {c1, c2, c3}
    c1 = c1
    c2 = c2
    c3 = c3
    MaxSessions = 1
    None = None
INVARIANT UnattendedIsLeased
INVARIANT AttachedBothWays
PROPERTY SizedByOwner
PROPERTY OnlyItsUsersEndIt
PROPERTY UnattendedSettles
CHECK_DEADLOCK FALSE
