SPECIFICATION Spec
CONSTANTS
    Keys = {k1}
    Capacity = 1
    MaxEvents = 6
    MaxRuns = 2
INVARIANT NoStuckKey
CHECK_DEADLOCK FALSE
