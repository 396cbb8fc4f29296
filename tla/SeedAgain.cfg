SPECIFICATION Spec
CONSTANTS
    Scripts = {"seed"}
    Selections = {{"baseline", "burst", "restart"}, {"raw", "restart"}}
    Retries = 1
    Burst = 2
    MaxNotes = 14
    Bounds <- MCBounds
PROPERTIES SavedArePreserved
CHECK_DEADLOCK FALSE
