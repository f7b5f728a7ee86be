CONSTANTS
    Height = 1
    Width = 2
    Value <- MCValue
    Relax <- MCRelax
    Initial <- MCInitial
    Rhs <- MCRhs
    MaxUsize = 2
    Batch = {0, 2}
    Resident = 1
SPECIFICATION FairSpec
INVARIANTS TypeOK NoUseAfterFree ReadyIsWhole GoneReleasesAll HaloPreserved
CHECK_DEADLOCK FALSE
PROPERTIES CallsEnd TimestepsSpec
