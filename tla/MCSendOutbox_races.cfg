\* Two concurrent senders and a sweep that may judge a live claim stale.
SPECIFICATION Spec
CONSTANTS
    Senders = {s1, s2}
    Sweep = sweep
    Operator = operator
    MaxTransientFailures = 3
    MaxResends = 0
    MaxDeadLetters = 1
    SlowSenders = TRUE
SYMMETRY Symmetry
CHECK_DEADLOCK FALSE
INVARIANTS
    TypeOK
    AtMostOncePerAuthorisation
    NotHeldWhenOpenOrFailed
    OutboxKeptUntilSettled
    NoLostWakeup
