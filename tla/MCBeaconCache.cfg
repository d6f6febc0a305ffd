SPECIFICATION FairSpec
CONSTANTS
    MaxSize = 1
    PrefixLength = 1
    MaxChunkSize = 1
    Keys = {k1, k2}
    NoKey = NoKey
    AppThreads = {t1, t2}
    MaxRecords = 2
    MaxTime = 1
    MaxEvents = 5
INVARIANTS EmptyMeansNoData NothingLost CounterAgrees NothingStuckBeingSent KeptOrder
PROPERTIES SendReturns
CHECK_DEADLOCK FALSE
