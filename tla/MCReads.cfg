CONSTANTS
    alice = alice
    bob = bob
    BadKey = BadKey
    Users <- MCOneUser
    ParameterSets <- MCDoubling
    SeedFiles <- MCOneSeedFile
    Amounts = {2}
    MaxU64 = 60
    Scale = 4
    LogSteps = 12
    MaxTick = 4
    MaxCrashes = 0
    MaxFailures = 0
    HistoryLimit = 2
SPECIFICATION ReadsSpec
PROPERTIES
    WalletAnswerInWindow
    HistoryShowsAccepted
    SummariesFollowLog
    EveryReadAnswered
CHECK_DEADLOCK FALSE
