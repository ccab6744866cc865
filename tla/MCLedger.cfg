CONSTANTS
    alice = alice
    bob = bob
    Users <- MCUsers
    ParameterSets <- MCParameterSets
    Amounts = {0, 1, 4}
    MaxU64 = 15
    Scale = 4
    LogSteps = 12
    MaxTick = 5
SPECIFICATION Spec
SYMMETRY Symmetry
INVARIANTS
    TypeOK
    
    
    PohChainValid
    AppliedOnce
    SpendsFollowNonces
    
    
    IterationsAnchored
PROPERTIES
    OnlyOwnerOrIterationDebits
    HistoryIsAppendOnly
CHECK_DEADLOCK FALSE
