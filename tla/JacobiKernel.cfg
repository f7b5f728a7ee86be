CONSTANTS
    MaxUsize = 1023
    MaxIsize = 511
    MaxI32 = 100
    MaxBlocks = 10
    Tile = 2
    ElementBytes = 4
    Extents <- MCExtents
    Heights = {1, 2, 3, 5}
    Widths = {1, 2, 3, 4}
    Value <- MCValue
    Source <- MCSource
    Rhs <- MCRhs
    Relax <- MCRelax
    Unwritten = Unwritten
    Digits = 3
    UnitBits = 6
    Exponents = 9
SPECIFICATION MCSpec
INVARIANTS ShapesValidated ResultIsReference
    ViewsInBounds CoefficientsUsable
CHECK_DEADLOCK FALSE
