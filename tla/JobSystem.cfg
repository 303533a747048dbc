SPECIFICATION Spec
CONSTANTS
    Workers = {w1, w2}
    Callers = {c1, c2}
    Owner = c1
    NoThread = NoThread
    NoTask = NoTask
    MaxBatches = 2
    MaxTasks = 2
INVARIANTS
    IInv
    EachTaskOnceInOrder
    ShutdownDrains
PROPERTY
    ImplementsBarrier
CHECK_DEADLOCK FALSE
