SPECIFICATION FairSpec
CONSTANTS
    FolderEnds <- ThreeFolders
    QueueSize = 2
    BatchSize = 2
    Admits = {"storeFails", "storeFailsMidWalk"}
PROPERTIES WalkEnds
CHECK_DEADLOCK FALSE
