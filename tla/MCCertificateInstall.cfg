CONSTANTS
    None = None
    b1 = b1
    b2 = b2
    Bindings = {b1, b2}
    MaxGens = 4
    MaxFaults = 4
    MaxExpired = 1
SPECIFICATION FairSpec
CHECK_DEADLOCK FALSE
INVARIANTS
    InstallTrue
    Renewable
PROPERTIES
    RecoverSettles
