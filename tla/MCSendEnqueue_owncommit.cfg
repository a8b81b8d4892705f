\* One request whose commit is reported as TransactionInProgress.
SPECIFICATION KeySpec
CONSTANTS
    Attempts = {a1, a2}
    a1 = a1
    a2 = a2
    Asks <- MCAsks
    UrlOf <- MCUrls
    Resolves <- MCResolves
    Size <- MCSize
    Cut <- MCCut
    AddressMax = 8
    AddressListMax = 3
    HeadersBudget = 3
    Served = {"one", "two"}
    MaxRedirects = 1
    RawMax = 3
    MaxCalls = 2
    RecipientsMax = 2
    ReferencesMax = 3
    RequestLabelCap = 2
    HeadersMax = 1
    AttachmentsMax = 3
    DecodedMax = 2
    ContentMax = 4
    r1 = r1
    r2 = r2
    r3 = r3
    r4 = r4
    Requests = {r1}
    Keyed = {r1}
    Body <- BodyOf
    KeyTtl = 2
    Timeout = 1
    MaxTime = 0
    MaxTxnRetries = 2
    LostAnswers = {"inProgress"}
INVARIANT KeyExistsMeansAnotherRequest
CHECK_DEADLOCK FALSE
