CONSTANTS
    None = None
    Faults <- MCFaults
    Frozen <- MCFrozen
    Expected <- MCExpected
    Settlement <- MCSettlement
    Sales <- MCSales
    SaleOf <- MCSaleOf
    Plan <- MCPlan
    TractionPlan <- MCTraction
    DemandBatch <- MCDemand
    OperationsBatches <- MCOperations
    Activities <- MCActivities
    Flaws = {"none", "payout", "reversal", "stale", "unknown", "index"}
    Lag = 1
    AmendmentTime = 2
    MaxTime = 4
    MaxMoves = 3
    MaxAmendments = 2
SPECIFICATION Spec
INVARIANTS
    SettlementIsTrue
CHECK_DEADLOCK FALSE
