CONSTANTS
    c1 = c1  c2 = c2  i1 = i1  i2 = i2  m1 = m1  m2 = m2
    None = None
    Ctls = {c1, c2}
    Ids = {i1, i2}
    Cmds = {m1}
    MaxKids = 2
    MaxRevision = 2
    MaxMishaps = 1
SPECIFICATION DispatchFairSpec
CHECK_DEADLOCK FALSE
INVARIANTS NeverReplaced
PROPERTIES SettlesUnlessStuck
