SPECIFICATION FairSpec
CONSTANTS
    None = None
    Users = {u1, u2, u3}
    Operations = {apply}
    Callers = {c1, c2, c3}
    max_global_heavy_tasks = 2
    operation_cooldown_seconds = 1
    MaxTime = 2
INVARIANT TypeOK
INVARIANT SlotsConserved
INVARIANT SomebodyMoves
PROPERTY ImplementsExclusiveHeavy
PROPERTY EveryCallReturns
