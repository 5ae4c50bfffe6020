SPECIFICATION FairSpec
CONSTANTS
    v1 = v1
    v2 = v2
    v3 = v3
    Vacancies = {v1, v2, v3}
    MaxResumes = 2
    Pages = 2
    PageSize = 2
    Batch = 2
    MaxExecutions = 2
INVARIANTS TypeOK NoDoubleApply CancelLatencyBounded
PROPERTIES LimitStops EveryExecutionEnds
