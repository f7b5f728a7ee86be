CONSTANTS
    f1 = f1
    f2 = f2
    Future = {f1, f2}
    Mobile = {f1}
    PoolSizes = {1, 2}
    NoFuture = NoFuture
SPECIFICATION MCSpec
INVARIANTS TypeOK ReleasedAfterWork SlotsConserved NoLateFlagWrite SleepsOnlyWhenIdle
PROPERTY PendingResolves
CHECK_DEADLOCK FALSE
