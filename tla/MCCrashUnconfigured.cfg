SPECIFICATION Spec
CONSTANTS
    AppThreads = {t1, t2}
    Watchdog = Watchdog
    NoThread = NoThread
    Actions = {a1, a2}
    NoAction = NoAction
    Tags = {u1}
    NoTag = NoTag
    MaxSessions = 3
    MaxEvents = 1
    SplitByTime = TRUE
SYMMETRY Symmetry
INVARIANTS CrashAlwaysSplits
CHECK_DEADLOCK FALSE
