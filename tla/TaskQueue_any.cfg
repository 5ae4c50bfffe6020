SPECIFICATION Spec
CONSTANTS
    None = None
    Users = {u1}
    Operations = {apply}
    Tasks = {t1, t2}
    Handlers = {h1, h2}
    Workers = {w1, w2}
    HEAVY_TASK_GLOBAL_LIMIT = 2
    HEAVY_TASK_COOLDOWN_SECONDS = 1
    MaxTime = 1
    Budget <- AnyDisturbance
    MaxKinds = 2
SYMMETRY Symmetry
CHECK_DEADLOCK FALSE
INVARIANTS TypeOK LateStartNeverSucceeds OrphansAreCounted CancelFreesUnstarted
INVARIANTS OneActivePerUser CooldownBoundsBursts LimitOvershootBounded
PROPERTY CancelledBeforeStartNeverRuns
