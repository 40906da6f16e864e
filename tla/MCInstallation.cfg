SPECIFICATION FairSpec
CONSTANTS
    None = None
    MaxIds = 2
    MaxChanges = 1
    MaxFaults = 3
INVARIANTS
    DatabaseKeyKept
    UninstallClean
PROPERTIES
    OrdersEnd
CHECK_DEADLOCK FALSE
