\* A parent is inserted while a reply to it is.
SPECIFICATION Spec
CONSTANTS
    Messages = {"p", "r1"}
    Mail <- MailOf
    Jobs = {"ip", "ir1"}
    Job <- JobOf
    UserLabels = {"u1", "u2"}
    CandidateIdCap = 20
    MessageUserLabelCap = 1
    ThreadUserLabelCap = 1
    MaxTxnRetries = 1
INVARIANTS
    ReplyJoinsParent
CHECK_DEADLOCK FALSE
