\* Progress, with claims that outlive the senders holding them.
SPECIFICATION FairSpec
CONSTANTS
    Senders = {s1, s2}
    Sweep = sweep
    Operator = operator
    MaxTransientFailures = 2
    MaxResends = 0
    MaxDeadLetters = 1
    SlowSenders = FALSE
PROPERTIES
    EventuallyResolved
CHECK_DEADLOCK FALSE
