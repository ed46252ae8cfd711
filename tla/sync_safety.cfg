SPECIFICATION FairSpec
CONSTANTS
    Callers = {c1}
    c1 = c1
    MaxEdits = 2
    MaxClock = 3
PROPERTY SaveSpec
PROPERTY TriggerIsServed
CHECK_DEADLOCK FALSE
