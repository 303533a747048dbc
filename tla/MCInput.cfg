SPECIFICATION MCSpec
CONSTANTS
    Keys = {k1, k2}
    Capacity = 2
    MaxEvents = 6
    MaxRuns = 2
    None = None
    FixedDelta = 2
    MaxElapsed = 3
    MaxTime = 9
SYMMETRY KeySymmetry
CONSTRAINT LastForOverflow
INVARIANTS
    InputSound
    Accounted
    OverflowReportedOnce
    TimelineSound
PROPERTIES
    OnlyChanges
    ShownNeverOlder
    ShownForward
CHECK_DEADLOCK FALSE
