CONSTANTS
    alice = alice
    bob = bob
    BadKey = BadKey
    Users <- MCOneUser
    ParameterSets <- MCDisordered
    SeedFiles <- MCOneSeedFile
    Amounts = {2}
    MaxU64 = 60
    Scale = 4
    LogSteps = 12
    MaxTick = 3
    MaxCrashes = 1
    MaxFailures = 1
SPECIFICATION NodeSpec
INVARIANTS
    CrashKeepsChain
    StoredIterationsComplete
    TornTransferMintsNothing
    PanicTearsNothing
    ReferencesResolve
    TornIterationFenced

    
CHECK_DEADLOCK FALSE
