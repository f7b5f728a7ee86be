CONSTANTS
    s1 = s1
    s2 = s2
    Source = h
    Field = {f1, f2}
    Private = {}
    Buf = {h, f1, f2}
    NoBuf = NoBuf
    Caller = {c1, c2}
    Worker = {c1, c2}
    Leaks = {h, f1, f2}
    Shape = {s1}
    HaloSize <- MCHaloSize
    FieldSize <- MCFieldSize
    OtherSession = FALSE
    MaxUsize = 7
    BufferBytes = 3
    TotalBytes = 5
    Buffers = 3
    Operations = 1
SYMMETRY Symmetry
SPECIFICATION MCSpec
INVARIANT ChargeOutlivesStorage
CHECK_DEADLOCK FALSE
