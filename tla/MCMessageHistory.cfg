SPECIFICATION HistoryFairSpec
CONSTANTS
    PageSize <- MCPageSize
    Wrap <- MCWrap
    MaxIds <- MCMaxIds
INVARIANTS EachOnceInOrder WalkIsComplete MissedOnlyIfLate
PROPERTIES WalkEnds
CHECK_DEADLOCK FALSE
