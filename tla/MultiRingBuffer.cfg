SPECIFICATION RingSpec
CONSTANTS
    maxSize = 5
    HighWaterMark = 2
    Chunks = {0, 1, 2, 3, 5, 6}
    Continues = {3, 8, 9, 12}
    MaxBytes = 16
    MaxStreams = 2
INVARIANTS RingTypeOK RingHoldsLast StreamsMissNothing
CHECK_DEADLOCK FALSE
