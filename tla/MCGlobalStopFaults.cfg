CONSTANTS
    p1 = p1
    p2 = p2
    activate = activate
    disable = disable
    None = None
    Procs = {p1, p2}
    Requests = {activate, disable}
    Activations <- MCActivations
    Key <- MCSameKey
    Deadline <- MCDeadline
    Ttl = 2
    Margin = 1
    Lag = 1
    StoreFaults = TRUE
    MaxTime = 1
    MaxIncidents = 2
SPECIFICATION Spec
SYMMETRY MCSymmetry
INVARIANTS
    TypeOK
    AtMostOneLaunch
    MutationHasIntent
    OneOwnedInflight
    EvidencePreserved
    ReceiptChronology
CHECK_DEADLOCK FALSE
