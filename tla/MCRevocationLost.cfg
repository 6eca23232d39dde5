CONSTANTS
    p1 = p1
    p2 = p2
    first = first
    second = second
    None = None
    Procs = {p1, p2}
    Grants = {first}
    RequestId <- MCRequest
    Key <- MCRequest
    Issued <- MCIssued
    Expiry <- MCExpiry
    MaxDelay = 1
    MaxTime = 2
    MaxRevision = 2
    MaxIncidents = 1
SPECIFICATION Spec
PROPERTIES
    RevocationWaitsForMutation
CHECK_DEADLOCK FALSE
