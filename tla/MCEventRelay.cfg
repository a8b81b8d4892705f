\* A send and a delivery, batches of up to four, one retry; five scripts of writes.
SPECIFICATION BothSpec
CONSTANTS
    w1 = w1
    Notes = {"dlv", "send"}
    Kind <- KindOf
    Recipients <- NoRecipients
    Workers = {w1}
    Deliveries <- Once
    MaxBatch = 4
    MaxTries = 2
    MaxFaults = 1
    Letters <- MCLetters
    WriteScripts <- MCWriteScripts
    EntryCap = 10
    MaxDetailSize = 9
    MaxContent = 20
    PointerSize = 1
    MaxAttempts = 2
    MaxBusFaults = 3
CHECK_DEADLOCK FALSE
INVARIANTS
    RelayedFaithfully
    ConsumersSettleOnStatus
    DetailsFit
    SettledMeansAnnounced
    IdsTellHappeningsApart
PROPERTIES
    EventuallyAnnounced
