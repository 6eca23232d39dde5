CONSTANTS
    p1 = p1
    p2 = p2
    v1 = v1
    v2 = v2
    None = None
    NoHead = NoHead
    Nothing = Nothing
    Procs = {p1, p2}
    Checks = {"audit"}
    Audit = "audit"
    Floor <- MCFloor
    Ttl <- MCTtl
    AdvisoryAge = 3
    ResultAge = 1
    Least <- MCLeast
    Runs <- MCRuns
    Bundles <- MCBundles
    PinSets <- MCPins
    ClockLag = 1
    MaxTime = 3
    MaxMishaps = 2
    Runners = {v1, v2}
    FileCount = 2
    CheckList <- MCCheckList
    MaxEdits = 2
    AcceptedBundles <- MCAccepted
    Trees = {"tree", "edited"}
    FirstTree = "tree"
    AcceptedAge = 3
    Expiries = {2, 3}
    MaxReceipts = 2
    SignerLag = 1
    Policy <- MCPolicy
    EvidenceBundles <- MCEvidence
    Plan <- MCBootstrap
    Lives = {1, 2}
    MaxArtifacts = 4
    SignedFacts <- MCFacts
    Stops = {"s1", "s2"}
    ReadinessTime = 2
    LedgerMishaps = 1
SYMMETRY Symmetry
SPECIFICATION PartSpec
INVARIANTS
    RunnerStoreIsRecoverable ClockAnswersAreNotShoppedFor ConsumedEvidenceIsOfOneRun
    InventoryIsATree DiagnosticIsHonest GoIsCurrent AcceptanceFollowsProof
    AuthorizationNeverOutlivesItsInputs ResetIsEarned
CHECK_DEADLOCK FALSE
