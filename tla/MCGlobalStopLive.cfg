CONSTANTS
    p1 = p1
    p2 = p2
    activate = activate
    disable = disable
    None = None
    Procs = {p1, p2}
    Requests = {disable}
    Activations <- MCActivations
    Key <- MCKey
    Deadline <- MCDeadline
    Ttl = 1
    Margin = 1
    Lag = 0
    StoreFaults = TRUE
    MaxTime = 1
    MaxIncidents = 1
SPECIFICATION FairSpec
PROPERTIES
    OrphanIsRecovered
    ExecuteEnds
CHECK_DEADLOCK FALSE
