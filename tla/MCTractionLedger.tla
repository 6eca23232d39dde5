-------------------------- MODULE MCTractionLedger --------------------------
(* Small instances of TractionLedger for TLC. *)
EXTENDS TractionLedger, TLC

CONSTANTS p1, p2

\* Three windows have ended when the ledger is created.
MCPlanStart == -3

Observation(digest, ordinal, predecessor, tokens, expires) ==
    [digest |-> digest, report |-> digest, run |-> digest, ordinal |-> ordinal,
     predecessor |-> predecessor, tokens |-> tokens, issued |-> 0,
     started |-> MCPlanStart + ordinal - 1, ended |-> MCPlanStart + ordinal, expires |-> expires, verified |-> TRUE, settled |-> 2,
     cost |-> 0, bear |-> 2, ctr |-> TRUE, spread |-> TRUE, hard |-> TRUE]

Snapshot(observation, events, covered, expires) ==
    [observation |-> observation, events |-> events, covered |-> covered,
     coverage |-> [id \in DOMAIN events |-> covered],
     issued |-> 0, expires |-> expires, spread |-> TRUE]

First == Observation("first", 1, "none", {"c1", "c3"}, 1)
Rewritten == [First EXCEPT !.digest = "rewritten", !.tokens = {"c1"}]
Second == Observation("second", 2, "first", {"c2"}, 1)

\* A complete snapshot without events, and a later one that expires early.
NoEvents == [id \in {} |-> 0]
Confirmed == [id \in {"confirmation"} |-> 1]

MCObservations == {First, Rewritten, Second}
MCSettlements == {Snapshot("first", NoEvents, 1, 2), Snapshot("first", Confirmed, 1, 1)}

\* Windows one and three share an identity.
Third == Observation("third", 3, "second", {"c1"}, 3)
OverlappingObservations == {First, Second, Third}
NoSettlements == {}

MCSymmetry == Permutations(Procs)
=============================================================================
