SPECIFICATION RuntimeSpec
CONSTANTS
    Foreground = {f1, f2, f3}
    Background = {b1, b2}
    Burst = 2
    FolderEnds <- ThreeFolders
    QueueSize = 2
    BatchSize = 2
    Admits = {"storeFails"}
    mover = mover
    tagger = tagger
    reader = reader
    walker = walker
    Workers = 4
    Requests = {mover, tagger, reader, walker}
    Mode <- Modes
    Wants <- Wanted
    Callers = {c1, c2, c3}
    Retries = 1
    NoCaller = NoCaller
INVARIANTS TypesOK BoundedOvertaking NoLostWakeup
INVARIANTS CompletedWalkIsComplete LeaseExclusion OneFlight
PROPERTIES LockProgress WalkEnds ThreadEnds RequestsEnd
CHECK_DEADLOCK FALSE
