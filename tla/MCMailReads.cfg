\* Transactions that race, and walks through the lists next to writers.
SPECIFICATION ReadSpec
CHECK_DEADLOCK FALSE
CONSTANTS
    IdsPerMs = 4
    MaxAliasIdBytes = 50
    Writers <- MCWriters
    Mail <- MCMail
    Labels <- MCLabels
    Keys = {1}
    Scenarios <- MCScenarios
    MaxTxnRetries = 1
    MaxBatchGetAttempts = 2
    MaxExpired = 1
    Strangers <- MCStrangers
    MaxLimit = 2
    DefaultLimit = 1
    MaxFillPages = 2
    MaxFaults = 1
INVARIANTS
    ListsMissNothing
    ListedAsAsked
PROPERTIES
    DecisionsAreTrue
    WalkEnds
