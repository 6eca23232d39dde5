---------------------------- MODULE MCGlobalStop ----------------------------
(* Small instances of GlobalStop for TLC. *)
EXTENDS GlobalStop, TLC

CONSTANTS p1, p2, activate, disable

\* One activation, which expires at time 1, and one disable, which does not.
MCActivations == {activate} \cap Requests
MCKey == [r \in Requests |-> r]
MCDeadline == [r \in Requests |-> IF r = activate THEN 1 ELSE 3]

\* Both requests reuse one idempotency key.
MCSameKey == [r \in Requests |-> 0]

MCSymmetry == Permutations(Procs)
=============================================================================
