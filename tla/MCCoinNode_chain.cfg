CONSTANTS
    alice = alice
    bob = bob
    BadKey = BadKey
    Users <- MCUsers
    ParameterSets <- MCParameterSets
    SeedFiles <- MCSeedFiles
    Amounts = {2}
    MaxU64 = 60
    Scale = 4
    LogSteps = 12
    MaxTick = 3
    MaxCrashes = 0
    MaxFailures = 1
SPECIFICATION NodeSpec
INVARIANT
    StoredChainValid
CHECK_DEADLOCK FALSE
