SPECIFICATION FairSpec
CONSTANTS
    None = None
    Users = {u1}
    Operations = {apply}
    Tasks = {t1, t2}
    Handlers = {h1, h2}
    Workers = {w1, w2}
    HEAVY_TASK_GLOBAL_LIMIT = 4
    HEAVY_TASK_COOLDOWN_SECONDS = 0
    MaxTime = 0
    Budget <- CancelAndCrash
    MaxKinds = 2
CHECK_DEADLOCK FALSE
PROPERTY EveryTaskEnds
