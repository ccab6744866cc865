CONSTANTS
    Updates = {u1, u2}
    Runs = {r1, r2}
    Snapshots = {s1}
    Settings = {p1, p2}
    NumWallets = 2
    Batches = {0, 2}
    MaxRequests = 3
    MaxTick = 1
    MaxFailures = 1
SPECIFICATION Spec
SYMMETRY Symmetry
INVARIANTS
    SerialUpdatesAgree
    ExecutedMatchesIterations
    SnapshotCoversItsTick
    SnapshotInItsIteration
    RunningHasCause
CHECK_DEADLOCK FALSE
