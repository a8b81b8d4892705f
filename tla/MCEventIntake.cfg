\* Events of one message in any order, some delivered twice, by two workers; or two
\* requests at a time, whose refreshes interleave.
SPECIFICATION BothSpec
CONSTANTS
    r1 = r1
    r2 = r2
    Keys = {"k1", "k2"}
    Documents <- DocumentsOf
    Requests = {r1, r2}
    RefreshInterval = 3
    MissRefreshFloor = 2
    FailureBackoff = 2
    Timeout = 1
    MaxTime = 6
    MaxChanges = 1
    w1 = w1
    w2 = w2
    Notes = {"send", "dlv", "bnc", "cpl", "open", "soft"}
    Kind <- KindOf
    Recipients <- RecipientsOf
    Workers = {w1, w2}
    Deliveries <- DeliveriesOf
SYMMETRY PairSymmetry
CHECK_DEADLOCK FALSE
INVARIANTS
    KeysAreJudgedFairly
    StatusConverges
    AnsweredMeansSuppressed
PROPERTIES
    FetchesSpaced
