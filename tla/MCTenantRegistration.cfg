SPECIFICATION TenantFairSpec
CONSTANTS
    q1 = q1
    q2 = q2
    q3 = q3
    q4 = q4
    Requests <- MCRequests
    MaxPerWindow <- MCMaxPerWindow
INVARIANTS TenantQuota RefusedOverQuota
PROPERTIES WindowEnds
CHECK_DEADLOCK FALSE
