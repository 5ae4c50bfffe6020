SPECIFICATION FairSpec
CONSTANTS
    n1 = n1
    n2 = n2
    r1 = r1
    Negotiations = {n1, n2}
    Resumes = {r1}
    Thresholds <- MCThresholds
    Day = 2
    MaxTime = 4
    MaxChanges = 1
    MaxExecutions = 2
    None = None
CHECK_DEADLOCK FALSE
INVARIANTS TypeOK RepliesMatchMessages
PROPERTIES ClearsWhatWasAsked EveryExecutionEnds
