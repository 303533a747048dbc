SPECIFICATION LoadingSpec
CONSTANTS
    a = a
    b = b
    c = c
    s = s
    Ids = {a, b, c, s}
    Catalogs <- AllGraphs
    NoHandle = NoHandle
    MaxHandles = 4
    MaxHolds = 1
    MaxAdded = 1
    Scenes = {s}
    SceneRefs <- SceneReferences
PROPERTY ReferencesReady
CHECK_DEADLOCK FALSE
