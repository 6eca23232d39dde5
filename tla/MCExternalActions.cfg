CONSTANTS
    p1 = p1
    p2 = p2
    first = first
    second = second
    None = None
    Procs = {p1, p2}
    Grants = {first, second}
    RequestId <- MCRequest
    Key <- MCRequest
    Issued <- MCIssued
    Expiry <- MCExpiry
    MaxDelay = 1
    MaxTime = 2
    MaxRevision = 2
    MaxIncidents = 2
SPECIFICATION FairSpec
INVARIANTS
    GuardInvariant
    MutationWindowIsClean
PROPERTIES
    PinNeverFallsBack
    AnswersAreCurrent
    ImplementsOnceOnly
    CallsReturn
CHECK_DEADLOCK FALSE
