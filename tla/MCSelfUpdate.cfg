CONSTANTS
    None = None
    p1 = p1
    p2 = p2
    Procs = {p1, p2}
    MaxVersion = 3
    MaxCommands = 3
    MaxMishaps = 2
SPECIFICATION UpdateFairSpec
CHECK_DEADLOCK FALSE
INVARIANTS
    RestAgrees
PROPERTIES
    RepairSettles
