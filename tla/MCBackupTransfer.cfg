SPECIFICATION FairSpec
CONSTANTS
    None = None
    Chunks <- TwoFiles
    MaxSnaps = 2
    MaxCopies = 2
    MaxFaults = 1
INVARIANTS
    CopyComplete
    EvidenceSound
PROPERTIES
    CopyEnds
CHECK_DEADLOCK FALSE
