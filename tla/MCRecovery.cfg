SPECIFICATION FairSpec
CONSTANTS
    Releases = {r1, r2}
    Latest = r1
    None = None
    MaxIds = 3
    MaxSnaps = 2
    MaxRevision = 2
    MaxResets = 1
    MaxFaults = 2
INVARIANTS
    ServesOneGeneration
    ServesInvalidated
    PlanIsTrue
PROPERTIES
    RecoveryEnds
CHECK_DEADLOCK FALSE
