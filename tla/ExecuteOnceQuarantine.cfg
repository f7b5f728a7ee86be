CONSTANTS
    t1 = t1
    t2 = t2
    t3 = t3
    s1 = s1
    s2 = s2
    Executor = {t1, t2, t3}
    First = t1
    Second = t2
    Stream = {s1, s2}
    StreamOf <- MCStreamOf
    NoStream = NoStream
SPECIFICATION Spec
INVARIANT ReleasedAfterWork
CHECK_DEADLOCK FALSE
