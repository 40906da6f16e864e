CONSTANTS
    p1 = p1
    p2 = p2
    None = None
    Plans = {p1, p2}
    PlanSeq <- MCPlanSeq
    Size <- MCSize
    Workers = {w1, w2}
    MaxFaults = 1
    MaxKills = 1
SPECIFICATION FairSpec
INVARIANTS
    SuiteOwned
    FinishedClean
    PendingMatched
    SuccessTrue
PROPERTIES
    RetainedUntouched
    RunSettles
