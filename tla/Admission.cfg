CONSTANTS
    Guard = {g1, g2, g3, g4}
    MaxUsize = 7
    BufferBytes = 4
    TotalBytes = 6
    Buffers = 2
    Operations = 2
    Request <- MCRequest
SYMMETRY Symmetry
SPECIFICATION Spec
INVARIANTS TypeOK Accounting WithinLimits
CHECK_DEADLOCK FALSE
