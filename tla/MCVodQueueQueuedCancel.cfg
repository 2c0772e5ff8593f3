SPECIFICATION Spec
CONSTANTS
    w1 = w1
    w2 = w2
    Workers = {w1}
    NoProc = NoProc
    MaxId = 2
    MaxIssues = 1
    MaxRestarts = 1
INVARIANTS
    QueuedCancelSurvives
CHECK_DEADLOCK FALSE
