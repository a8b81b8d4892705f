\* An operator resend while a sender of the first authorisation may still be
\* in its SES call.
SPECIFICATION Spec
CONSTANTS
    Senders = {s1, s2}
    Sweep = sweep
    Operator = operator
    MaxTransientFailures = 1
    MaxResends = 1
    MaxDeadLetters = 0
    SlowSenders = TRUE
CHECK_DEADLOCK FALSE
INVARIANTS
    SesIdMeansAccepted
PROPERTIES
    ImplementsContract
