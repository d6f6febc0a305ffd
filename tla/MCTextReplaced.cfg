SPECIFICATION TextSpec
CONSTANTS
    Values <- JsonValues
    MaxLength = 2
    MaxCalls = 2
    Bytes = {37, 95, 195, 240, 192, 128, 248}
    MaxBytes = 5
INVARIANTS InvalidIsReplaced
CHECK_DEADLOCK FALSE
