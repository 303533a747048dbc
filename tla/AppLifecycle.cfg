SPECIFICATION Spec
CONSTANTS
    Main = main
    Sim = sim
    Stoppers = {r1}
    Submitters = {c1}
    Programs = {"server", "editor"}
    Capacity = 1
    MaxCommands = 2
    MaxRuns = 1
INVARIANTS
    RunSound
    NeverAppliedLate
PROPERTIES
    StopEndsRun
    ImplementsLog
