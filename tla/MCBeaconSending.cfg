SPECIFICATION Spec
CONSTANTS
    Sessions = {s1, s2}
    MaxNewRequests = 1
    StatusRetries = 0
    MaxLeaving = 1
    Eviction = TRUE
SYMMETRY Symmetry
PROPERTIES OnlyFinishedLeave DroppedOnlyWhenOff
CHECK_DEADLOCK FALSE
