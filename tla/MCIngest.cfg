\* Eight groups of SNS messages at two environments under five allowlists; and
\* three overlapping deliveries of a message with three parts, two at a time.
SPECIFICATION BothSpec
CONSTANTS
    a1 = a1
    a2 = a2
    a3 = a3
    NParts = 3
    ChunkSize = 2
    Attempts = {a1, a2, a3}
    Envelopes = {"mail", "setup", "ses", "junk", "stop", "start", "chat", "quit", "lost", "got", "dead", "sub", "unsub", "moved", "retopic", "stray", "elsewhere", "versioned", "halved", "bare", "garbage", "oddUrl"}
    Envelope <- MCEnvelope
    Payload <- MCPayload
    Scripts <- MCScripts
    Environments = {"e1", "e2"}
    Allowlists <- MCAllowlists
    OptOutList = TRUE
    Tracked = {"m1", "m2"}
    MaxCachedCerts = 1
    AsyncRetries = 1
    MaxFaults = 2
    MaxDuplicates = 1
CHECK_DEADLOCK FALSE
INVARIANTS
    StoredWhole
    ActsOnSigned
    AnswersAreFinal
    SmsFollowsSender
PROPERTIES
    EventuallyStored
    EventuallySubscribed
