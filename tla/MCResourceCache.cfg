SPECIFICATION MCSpec
CONSTANTS
    a = a
    b = b
    c = c
    s = s
    Ids = {a, b, c, s}
    Catalogs <- AllGraphs
    NoHandle = NoHandle
    MaxHandles = 4
    MaxHolds = 1
    MaxAdded = 1
    Scenes = {s}
    SceneRefs <- SceneReferences
CONSTRAINT CacheBounds
INVARIANTS
    CacheSound
    SceneSound
PROPERTIES
    PhaseLoadsAll
    DrainCollects
    CallsReturn
CHECK_DEADLOCK FALSE
