CONSTANTS
    alice = alice
    bob = bob
    BadKey = BadKey
    Users <- MCUsers
    ParameterSets <- MCParameterSets
    SeedFiles <- MCSeedFiles
    Amounts = {2}
    MaxU64 = 60
    Scale = 4
    LogSteps = 12
    MaxTick = 3
    MaxCrashes = 1
    MaxFailures = 0
SPECIFICATION NodeSpec
INVARIANT
    NoLockWithoutIteration
CHECK_DEADLOCK FALSE
