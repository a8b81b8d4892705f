\* An event that SES reports before the sender has recorded the send.
SPECIFICATION EventSpec
CONSTANTS
    r1 = r1
    r2 = r2
    Keys = {"k1", "k2"}
    Documents <- DocumentsOf
    Requests = {r1, r2}
    RefreshInterval = 3
    MissRefreshFloor = 2
    FailureBackoff = 2
    Timeout = 1
    MaxTime = 6
    MaxChanges = 1
    w1 = w1
    w2 = w2
    Notes = {"send", "dlv", "bnc", "cpl", "open", "soft"}
    Kind <- KindOf
    Recipients <- RecipientsOf
    Workers = {w1, w2}
    Deliveries <- BounceOnly
INVARIANTS
    EarlyEventsAreTraced
CHECK_DEADLOCK FALSE
