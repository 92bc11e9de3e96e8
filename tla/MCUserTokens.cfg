CONSTANTS
    acme = acme
    globex = globex
    ann = ann
    t1 = t1
    t2 = t2
    v1 = v1
    Nothing = Nothing
    Projects <- MCProjects
    People <- MCPeople
    Requests <- MCRequests
    Verifications <- MCVerifications
    TicksPerSecond <- MCTicksPerSecond
    Ttl <- MCTtl
    MaxTime <- MCMaxTime
SYMMETRY Symmetric
SPECIFICATION TokenSpec
INVARIANTS
    GoodForItsLifetime
    AcceptedOnlyInLifetime
    ConnectedMeansVouched
CHECK_DEADLOCK FALSE
