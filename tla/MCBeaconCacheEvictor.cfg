SPECIFICATION FairEvictorSpec
CONSTANTS
    MaxSize = 2
    PrefixLength = 1
    MaxChunkSize = 2
    Keys = {k1}
    NoKey = NoKey
    AppThreads = {t1}
    MaxRecords = 2
    MaxTime = 2
    MaxEvents = 4
    MaxRecordAge = 1
    LowerBound = 1
    UpperBound = 2
PROPERTIES StopRequestEndsThread ImplementsCache
INVARIANTS SleepsOnlyWithinBound
CHECK_DEADLOCK FALSE
