CONSTANTS
    p1 = p1
    p2 = p2
    activate = activate
    disable = disable
    None = None
    Procs = {p1}
    Requests = {activate, disable}
    Activations <- MCActivations
    Key <- MCKey
    Deadline <- MCDeadline
    Ttl = 2
    Margin = 1
    Lag = 0
    StoreFaults = FALSE
    MaxTime = 2
    MaxIncidents = 1
SPECIFICATION Spec
PROPERTY FreshTimeJudgesReceipt
CHECK_DEADLOCK FALSE
