SPECIFICATION FairSpec
CONSTANTS
    a1 = a1
    a2 = a2
    t1 = t1
    p1 = p1
    p2 = p2
    Attempts = {a1}
    Tasks = {t1}
    Workers = {w1}
    Paths = {p1}
    NoAttempt = NoAttempt
    NoWorker = NoWorker
    TaskOf <- OneTask
    Source <- Usenet
    PathOf <- OnePath
    BytesOf <- OwnBytes
    BundleOf <- OwnBundle
    Sweeper = w1
    UnresolvedJobRetries = 1
    Admits = {"retentionExpires", "removedByHand", "stopAtSwitch", "stop", "callFails"}
PROPERTIES CleanCompletion DebtIsDischarged
CHECK_DEADLOCK FALSE
