SPECIFICATION Spec
CONSTANTS
    Entities = {a}
    NoEntity = None
    EditBound = 1
    SelectBound = 1
    QueueBound = 2
INVARIANT AsksBeforeClosing
CHECK_DEADLOCK FALSE
