CONSTANTS
    p1 = p1
    p2 = p2
    activate = activate
    disable = disable
    None = None
    Procs = {p1, p2}
    Requests = {activate, disable}
    Activations <- MCActivations
    Key <- MCKey
    Deadline <- MCDeadline
    Ttl = 1
    Margin = 1
    Lag = 0
    StoreFaults = FALSE
    MaxTime = 1
    MaxIncidents = 2
SPECIFICATION Spec
SYMMETRY MCSymmetry
INVARIANTS
    RunningUnderAuthority
    SuccessIsProven
    FailureEndsEpoch
    StopKillsActivation
    PhaseFence
PROPERTIES
    OnlyOwnerEndsRow
    ResetFindsNothingPending
    TerminalIsFinal
    ImplementsContract
CHECK_DEADLOCK FALSE
