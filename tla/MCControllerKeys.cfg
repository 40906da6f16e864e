SPECIFICATION Spec
CONSTANTS
    Procs = {p1, p2}
    None = None
    MaxSlots = 2
    MaxKeys = 2
    MaxSecrets = 2
    MaxIds = 3
    MaxFaults = 1
SYMMETRY ProcSymmetry
INVARIANTS
    RootRecoverable
    KeysKept
CHECK_DEADLOCK FALSE
