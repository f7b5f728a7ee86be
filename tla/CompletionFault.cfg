CONSTANTS
    f1 = f1
    f2 = f2
    Future = {f1}
    Mobile = {f1}
    PoolSizes = {1}
    NoFuture = NoFuture
SPECIFICATION FairSpec
PROPERTY FaultReachesFuture
CHECK_DEADLOCK FALSE
