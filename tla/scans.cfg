SPECIFICATION ScansSpec
CONSTANTS
    rootA = rootA
    rootB = rootB
    s1 = s1
    s2 = s2
    policy0 = policy0
    RunCount = 2
    FileCount = 1
    Roots = {rootA, rootB}
    Scopes = {s1, s2}
    RootOf <- OneRoot
    FilesIn <- WholeRoots
    ScopeRoot <- OwnRoot
    Requests <- OneOrBoth
    Policies = {policy1, policy2}
    NoScope = NoScope
    Admits = {"resumeBeforeUnwind"}
INVARIANTS FilesTypeOK OneActiveRun FilesPendingControlIsHeld
PROPERTIES TerminalIsFinal FilesMarksOnlyAbsent FilesCompletedScanRestores
SYMMETRY PolicySymmetry
CHECK_DEADLOCK FALSE
