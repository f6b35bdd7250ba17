SPECIFICATION Spec
CONSTANTS
    a1 = a1
    a2 = a2
    t1 = t1
    p1 = p1
    p2 = p2
    Attempts = {a1, a2}
    Tasks = {t1}
    Workers = {w1}
    Paths = {p1, p2}
    NoAttempt = NoAttempt
    NoWorker = NoWorker
    TaskOf <- OneTask
    Source <- Usenet
    PathOf <- OwnPaths
    BytesOf <- OwnBytes
    BundleOf <- OwnBundle
    Sweeper = w1
    UnresolvedJobRetries = 0
    Admits = {}
CONSTRAINT FailsOnly
SYMMETRY Alike
INVARIANTS NoOrphanedAttempt
PROPERTIES SourceOutlivesPublication
CHECK_DEADLOCK FALSE
