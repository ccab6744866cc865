CONSTANTS
    Deliveries = {d1, d2}
    s1 = s1
    s2 = s2
    Unsigned = Unsigned
    Requests <- MCOneRequest
    Configs <- MCOneConfig
    MaxTime = 4
    MaxRestarts = 0
SPECIFICATION Spec
INVARIANTS
    ChargeMintedOnce
CHECK_DEADLOCK FALSE
