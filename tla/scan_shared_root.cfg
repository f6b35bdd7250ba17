SPECIFICATION Spec
CONSTANTS
    rootA = rootA
    rootB = rootB
    s1 = s1
    s2 = s2
    RunCount = 1
    FileCount = 2
    Roots = {rootA}
    Scopes = {s1, s2}
    RootOf <- OneRoot
    FilesIn <- Folders
    ScopeRoot <- SameRoot
    Requests <- BothScopes
    Policies = {1}
    NoScope = NoScope
    Admits = {}
PROPERTIES MarksOnlyAbsent
CHECK_DEADLOCK FALSE
