CONSTANTS
    alice = alice
    bob = bob
    BadKey = BadKey
    Users <- MCUsers
    ParameterSets <- MCParameterSets
    SeedFiles <- MCSeedFiles
    Amounts = {2}
    MaxU64 = 60
    Scale = 4
    LogSteps = 12
    MaxTick = 4
    MaxCrashes = 0
    MaxFailures = 0
SPECIFICATION NodeSpec
INVARIANTS
    IdleNodeIsCommitted
PROPERTIES
    ImplementsLedger
    StoredLockReleased
CHECK_DEADLOCK FALSE
