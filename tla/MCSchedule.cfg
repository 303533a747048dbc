\* Every schedule of three systems over one component, with up to three
\* constraints, those of a system on itself included; three ticks of two
\* systems, with stale and foreign pending entities, and with systems and
\* barriers that throw.
SPECIFICATION MCSpec
CONSTANTS
    System = {1, 2, 3}
    Component = {c}
    Priority = {0, 1}
    MaxConstraints = 3
    Systems = 2
    MaxTicks = 3
    MaxEvents = 2
    MaxSpawns = 2
    MaxCommands = 2
INVARIANTS
    GraphSound
    TickSound
    AsIfImmediate
    EventsOneTickLater
PROPERTY
    Ends
CHECK_DEADLOCK FALSE
