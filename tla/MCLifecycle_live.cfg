CONSTANTS
    o1 = o1
    o2 = o2
    o3 = o3
    a1 = a1
    a2 = a2
    a3 = a3
    c1 = c1
    c2 = c2
    k1 = k1
    k2 = k2
    None = None
    Controllers = {k1}
    Ops = {o1, o2}
    Artifacts = {a1, a2}
    Configs = {c1, c2}
    SchemaOf <- MCSchemaChanges
    FirstArtifact = a1
    FirstConfig = c1
    MaxCrashes = 1
    MaxFaults = 1
SPECIFICATION FairSpec
CHECK_DEADLOCK FALSE
PROPERTIES
    OrdersResolve
