SPECIFICATION Spec
CONSTANTS
    w1 = w1
    w2 = w2
    SegIds = {1, 2}
    Workers = {w1, w2}
    MaxBulk = 1
    MaxEntries = 1
    MaxRecordings = 2
    MaxCuts = 1
SYMMETRY WorkerSymmetry
INVARIANTS
    PublishingHasWorker
    PublishedHasOutput
PROPERTIES
    SourceGoesLast
CHECK_DEADLOCK FALSE
