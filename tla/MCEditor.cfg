SPECIFICATION EditorSpec
CONSTANTS
    e1 = e1
    e2 = e2
    e3 = e3
    e4 = e4
    nobody = nobody
    mesh = mesh
    noMesh = noMesh
    mainThread = mainThread
    simThread = simThread
    renderThread = renderThread
    Plain = Plain
    Console = Console
INVARIANTS
    LogSound
    EditingSound
    ProjectSound
PROPERTIES
    LogReturns
    EditLands
    MainHears
CHECK_DEADLOCK FALSE
