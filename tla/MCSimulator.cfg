CONSTANTS
    SimParameters <- MCSimParameters
    Scripts <- MCScripts
    Populations <- MCPopulations
    Fractions = {1, 3}
    MaxTransfers = 3
    MaxIterations = 2
    MaxU64 = 200
    Scale = 4
    LogSteps = 12
SPECIFICATION Spec
INVARIANTS
    RowsFollowScript
    InflationFollowsRows
    NamesAreUnique
    TransfersCountTwice
    RowDescribesPopulation
PROPERTIES
    Returns
CHECK_DEADLOCK FALSE
