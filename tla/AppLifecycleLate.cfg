SPECIFICATION SafeSpec
CONSTANTS
    Main = main
    Sim = sim
    Stoppers = {r1}
    Submitters = {c1}
    Programs = {"server", "editor"}
    Capacity = 1
    MaxCommands = 1
    MaxRuns = 1
INVARIANTS
    RejectedAfterStop
