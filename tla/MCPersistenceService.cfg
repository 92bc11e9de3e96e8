CONSTANTS
    m1 = m1
    m2 = m2
    Ids <- MCIds
    MaxRetries = 3
    Unset = Unset
SPECIFICATION PersistFairSpec
INVARIANTS
    OkMeansStored
    ErrMeansExhausted
    PersistInv
PROPERTIES
    NothingSentAfterReturn
    ListMovesBackOnlyLate
    EveryPersistReturns
    ImplementsDurableWrite
CHECK_DEADLOCK FALSE
