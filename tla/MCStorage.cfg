SPECIFICATION StorageSpec
CONSTANTS
    SlotLimit = 3
    GenerationLimit = 2
    Null = Null
    intrinsic = intrinsic
    added = added
    Types = {intrinsic, added}
    Base = {intrinsic}
    Values = {1}
    Default = 0
    Queries = {added}
    Required <- RequiredAdded
    HandleBound = 3
    RevisionBound = 3
    TickBound = 1
CONSTRAINT FewMarked
INVARIANTS
    SlotTablesSound
    StorageSound
PROPERTIES
    EntityImplementsTable
    ResourceImplementsTable
    ImplementsMap
CHECK_DEADLOCK FALSE
