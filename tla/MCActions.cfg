SPECIFICATION Spec
CONSTANTS
    IntBits = 3
    Threads = {t1, t2}
    MaxActions = 2
    MaxTracers = 1
    Bounds <- SmallBounds
    Privacies <- Settings
    ServerConfigurations <- CaptureOff
    UserAttributes <- SomeAttributes
    ByteCounts <- Counts
SYMMETRY Symmetry
INVARIANTS RecordedOnce NoOrphans WebRequestsWithinAction PrivacyKept NobodyStuck
CHECK_DEADLOCK FALSE
