SPECIFICATION FairSpec
CONSTANTS
    RemovalThreshold = 2
    MaxStartupPollErrors = 1
    MaxStopPollAttempts = 2
    MaxStopPollErrors = 1
    MaxStarts = 1
    MaxStops = 1
    MaxRefreshes = 1
    MaxEvents = 1
PROPERTY Converges
PROPERTY Forgets
PROPERTY StopLeavesStopping
PROPERTY ReadyIsNoticed
CHECK_DEADLOCK FALSE
