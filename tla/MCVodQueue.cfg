SPECIFICATION LiveSpec
CONSTANTS
    w1 = w1
    w2 = w2
    Workers = {w1, w2}
    NoProc = NoProc
    MaxId = 2
    MaxIssues = 1
    MaxRestarts = 1
INVARIANTS
    QueuedIsScheduled
    DownloadingHasWorker
    ExclusiveDownload
    RegistryExact
    NoStaleFlag
    QueuedCancelHonoured
PROPERTIES
    ImplementsJobs
    CancelledIsTerminal
    EverySettles
CHECK_DEADLOCK FALSE
