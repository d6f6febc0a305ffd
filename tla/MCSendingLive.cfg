SPECIFICATION ResponsiveSpec
CONSTANTS
    Sessions = {s1}
    MaxNewRequests = 1
    StatusRetries = 1
    MaxLeaving = 1
    Eviction = TRUE
PROPERTIES ShutdownTerminates FinishedSessionsLeave
CHECK_DEADLOCK FALSE
