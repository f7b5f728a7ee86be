CONSTANTS
    s1 = s1
    s2 = s2
    Source = h
    Field = {f1, f2, f3}
    Private = {}
    Buf = {h, f1, f2, f3}
    NoBuf = NoBuf
    Caller = {c1, c2, c3}
    Worker = {c1, c2, c3}
    Leaks = {h}
    Shape = {s1}
    HaloSize <- MCHaloSize
    FieldSize <- MCFieldSize
    OtherSession = FALSE
    MaxUsize = 10
    BufferBytes = 3
    TotalBytes = 6
    Buffers = 4
    Operations = 2
SYMMETRY Symmetry
SPECIFICATION MCSpec
INVARIANTS NoUseAfterFree NoConflict ReadyIsWhole
    StreamWithinAdmission ChargeOutlivesStorageElsewhere
PROPERTIES InvalidatedForGood BudgetSpec
CHECK_DEADLOCK FALSE
