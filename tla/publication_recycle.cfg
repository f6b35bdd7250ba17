SPECIFICATION Spec
CONSTANTS
    Plan <- MoveRecycle
    RemovesSource = TRUE
    MaxStops = 1
    MaxFaults = 0
    Admits = {}
INVARIANTS RolledBackIsRestored
CHECK_DEADLOCK FALSE
