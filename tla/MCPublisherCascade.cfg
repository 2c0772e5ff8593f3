SPECIFICATION Spec
CONSTANTS
    w1 = w1
    w2 = w2
    SegIds = {1, 2}
    Workers = {w1}
    MaxBulk = 1
    MaxEntries = 1
    MaxRecordings = 2
    MaxCuts = 0
INVARIANTS
    SegmentsGoWithRecording
CHECK_DEADLOCK FALSE
