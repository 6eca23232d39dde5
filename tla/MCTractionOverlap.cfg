CONSTANTS
    p1 = p1
    p2 = p2
    None = None
    Procs = {p1, p2}
    Observations <- OverlappingObservations
    Settlements <- NoSettlements
    PlanStart <- MCPlanStart
    WindowLength = 1
    PlanUntil = 2
    SettlementLag = 1
    MatureClicks = 2
    MatureWindows = 6
    MinimumEpc = 1
    TargetProfit = 1
    ClockLag = 1
    MaxTime = 2
    MaxRevision = 6
    MaxMishaps = 1
SPECIFICATION Spec
INVARIANT IdentitiesAreUnique
CHECK_DEADLOCK FALSE
