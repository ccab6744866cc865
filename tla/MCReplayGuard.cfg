CONSTANTS
    Deliveries = {d1, d2, d3}
    s1 = s1
    s2 = s2
    Unsigned = Unsigned
    Requests <- MCRequests
    Configs <- MCConfigs
    MaxTime = 4
    MaxRestarts = 1
SPECIFICATION Spec
SYMMETRY Symmetry
INVARIANTS
    
    RefusalFollowsAdmission
CHECK_DEADLOCK FALSE
