-------------------------- MODULE MCExternalActions --------------------------
(* Small instances of ExternalActions for TLC. *)
EXTENDS ExternalActions

CONSTANTS p1, p2, first, second

\* Two grants of one request: the second is issued later, and both end at time 2.
MCRequest == [g \in Grants |-> 1]
MCIssued == [g \in Grants |-> IF g = first THEN 0 ELSE 1]
MCExpiry == [g \in Grants |-> 2]
=============================================================================
