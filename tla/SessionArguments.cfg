CONSTANTS
    s1 = s1
    s2 = s2
    Source = h
    Field = {f1, f2}
    Private = {p}
    Buf = {h, f1, f2, p}
    NoBuf = NoBuf
    Caller = {c1, c2}
    Worker = {c1}
    Leaks = {}
    Shape = {s1, s2}
    HaloSize <- MCHaloSize
    FieldSize <- MCFieldSize
    OtherSession = TRUE
    MaxUsize = 6
    BufferBytes = 3
    TotalBytes = 6
    Buffers = 4
    Operations = 2
SPECIFICATION MCFairSpec
INVARIANTS TypeOK ArgumentsOfOneSession
PROPERTY CallsReturn
CHECK_DEADLOCK FALSE
