SPECIFICATION Spec
CONSTANTS
    v1 = v1
    v2 = v2
    p1 = p1
    p2 = p2
    w1 = w1
    w2 = w2
    NoVideo = NoVideo
    NoRow = NoRow
    Videos = {v1, v2}
    Producers = {p1, p2}
    Poller = p2
    Workers = {w1, w2}
    Rows = {1, 2, 3}
    MaxDeletes = 1
    MaxRestarts = 1
SYMMETRY IngestSymmetry
INVARIANTS
    QueuedReachesQueue
    OneRecordingPerVideo
    OneWriterPerFile
PROPERTIES
    ImplementsJobs
CHECK_DEADLOCK FALSE
