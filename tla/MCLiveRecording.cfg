SPECIFICATION Spec
CONSTANTS
    r1 = r1
    r2 = r2
    u1 = u1
    u2 = u2
    v1 = v1
    v2 = v2
    NoRecorder = NoRecorder
    NoStream = NoStream
    NoVideo = NoVideo
    Free = Free
    Streams = {1}
    Recorders = {r1, r2}
    Runners = {u1, u2}
    Videos = {v1}
    Rows = {1, 2}
    Schedules = {1}
    MaxConcurrent = 1
    Lead = 1
    MaxTime = 2
    MaxIssues = 1
    MaxRestarts = 1
SYMMETRY LiveSymmetry
INVARIANTS
    TypeOK
    RecordingIsOfThisRun
    JobsArePending
    OneRunPerSchedule
PROPERTIES
    CompleteIsClosed
CHECK_DEADLOCK FALSE
