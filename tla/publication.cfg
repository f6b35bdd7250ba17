SPECIFICATION LanesSpec
CONSTANTS
    Plan <- RetagMoveDelete
    RemovesSource = TRUE
    MaxStops = 2
    MaxFaults = 1
    Admits = {}
    ImportPlan <- Replacements
    MaxCalls = 2
    ImportStops = 1
    ImportAdmits = {}
INVARIANTS TypesOK UndoneIsRestored AdoptedIsWhole ClosedIsWhole
PROPERTIES BytesSurvive BothRefineAtomicPublication BothSettle
CHECK_DEADLOCK FALSE
