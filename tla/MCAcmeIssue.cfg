CONSTANTS
    None = None
    p1 = p1
    p2 = p2
    Procs = {p1, p2}
    MaxTx = 2
    MaxOrders = 3
    MaxKeys = 4
    MaxMishaps = 1
SPECIFICATION AcmeFairSpec
CHECK_DEADLOCK FALSE
INVARIANTS
    MaterialKept
    ChallengeRetired
PROPERTIES
    IssuanceSettles
