SPECIFICATION FairSpec
CONSTANTS
    AppThreads = {t1, t2}
    Watchdog = Watchdog
    NoThread = NoThread
    Actions = {a1}
    NoAction = NoAction
    Tags = {u1}
    NoTag = NoTag
    MaxSessions = 2
    MaxEvents = 1
    SplitByTime = TRUE
INVARIANTS NoLockCycle SplitOffIsWatched WatchdogForgetsClosed FinishedHasNoOpenAction EndLeavesNothing
PROPERTIES EveryCallReturns SplitOffSessionsEnd
CHECK_DEADLOCK FALSE
