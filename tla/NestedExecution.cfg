CONSTANTS
    t1 = t1
    t2 = t2
    s1 = s1
    s2 = s2
    Thread = {t1, t2}
    Future = {f1}
    Stream = {s1, s2}
    Buffer = {b1}
    Memo = {o1, o2}
    StreamOf <- MCStreamOf
    Nests = {t1}
    Budget <- MCBudget
    Backlog = 2
    NoOwner = NoOwner
SPECIFICATION MCSpec
INVARIANTS TypeOK LocalsMatchScopes ReleasedAfterWork
PROPERTY TerminalsEnd
CHECK_DEADLOCK FALSE
