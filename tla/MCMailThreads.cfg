\* The cases of MCMailThreads, each with every interleaving of its calls.
SPECIFICATION CasesSpec
CONSTANTS
    Messages = {"p", "r1", "r2", "s", "c", "a", "b"}
    Mail <- MailOf
    Jobs = {"ip", "ir1", "ir1x", "ir2", "es", "sent", "ic", "ia", "ps", "rej", "eb", "pp", "unk", "fail"}
    Job <- JobOf
    UserLabels = {"u1", "u2"}
    CandidateIdCap = 20
    MessageUserLabelCap = 1
    ThreadUserLabelCap = 1
    MaxTxnRetries = 1
CHECK_DEADLOCK FALSE
INVARIANTS
    RollUpsMatch
    UserLabelsCapped
    SendLabelFollows
    ConversationsHold
