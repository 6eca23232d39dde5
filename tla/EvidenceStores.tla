---------------------------- MODULE EvidenceStores ----------------------------
(***************************************************************************)
(* The evidence components of saas_preflight's P15, P18 and P19 side by    *)
(* side, for any values of their constants. They share no state, so that a *)
(* behaviour is one of one component: "part" says which, and the variables *)
(* of the others are idle.                                                 *)
(***************************************************************************)
EXTENDS VerifiedRunner, RepositoryChecks

CONSTANTS
    Nothing,
    Runners, FileCount, CheckList, MaxEdits,                   \* P18, a local run
    AcceptedBundles, Trees, FirstTree, AcceptedAge, Expiries, MaxReceipts,
    SignerLag,                                                 \* P18, acceptance
    Policy, EvidenceBundles, Plan, Lives, MaxArtifacts,        \* P15, authorization
    SignedFacts, Stops, ReadinessTime, LedgerMishaps           \* P15, ledger

VARIABLES part, edits, locked, run, seen, tree, proof, signed, manifest, receipts,
    pinned, bundle, report, tco, human, permit, made

V == INSTANCE RepositoryVerification

A == INSTANCE RepositoryAcceptance WITH Bundles <- AcceptedBundles, Lag <- SignerLag,
    ResultAge <- AcceptedAge

P == INSTANCE ProductionReadiness WITH Lag <- SignerLag, MaxTime <- ReadinessTime

L == INSTANCE ReconciliationLedger WITH Facts <- SignedFacts, MaxTime <- ReadinessTime,
    MaxMishaps <- LedgerMishaps

\* What the checks print are numbers, sums of them included.
ASSUME CountsAreNumbers == \A check \in DOMAIN Least :
    Results(check) \subseteq [assertions : Int, failures : Int, skipped : Int, exit : Int]

ASSUME PartBounds ==
    V!RepositoryBounds /\ A!AcceptanceBounds /\ P!ReadinessBounds /\ L!LedgerBounds

-----------------------------------------------------------------------------

verificationVars == <<edits, locked, run, seen>>
NoVerification == edits = Nothing /\ locked = Nothing /\ run = Nothing /\ seen = Nothing
acceptanceVars == <<proof, signed, manifest, receipts, pinned>>
NoAcceptance == proof = Nothing /\ signed = Nothing /\ manifest = Nothing
    /\ receipts = Nothing /\ pinned = Nothing
readinessVars == <<bundle, report, tco, human, permit, made>>
NoReadiness == bundle = Nothing /\ report = Nothing /\ tco = Nothing
    /\ human = Nothing /\ permit = Nothing /\ made = Nothing
runnerVars == <<revision, frozen, late, asked>>
NoRunner == revision = Nothing /\ frozen = Nothing /\ late = Nothing /\ asked = Nothing
storesVars == <<rows, prior, anchor, holder, pc, job, mishaps>>
NoStores == rows = Nothing /\ prior = Nothing /\ anchor = Nothing /\ holder = Nothing
    /\ pc = Nothing /\ job = Nothing /\ mishaps = Nothing

partVars == <<part, now, tree, runnerVars, storesVars, verificationVars,
    acceptanceVars, readinessVars>>

PartInit ==
    \/ part = "runner" /\ Init
       /\ NoVerification /\ NoAcceptance /\ NoReadiness /\ tree = Nothing
    \/ part = "verification" /\ V!Init
       /\ NoAcceptance /\ NoReadiness /\ NoRunner /\ NoStores /\ now = Nothing
    \/ part = "acceptance" /\ A!Init
       /\ NoVerification /\ NoReadiness /\ NoRunner /\ NoStores
    \/ part = "readiness" /\ P!Init
       /\ NoVerification /\ NoAcceptance /\ NoRunner /\ NoStores /\ tree = Nothing
    \/ part = "ledger" /\ L!Init
       /\ NoVerification /\ NoAcceptance /\ NoReadiness /\ NoRunner /\ tree = Nothing

PartNext == UNCHANGED part /\
    \/ part = "runner" /\ Next
       /\ UNCHANGED <<verificationVars, acceptanceVars, readinessVars, tree>>
    \/ part = "verification" /\ V!Next
       /\ UNCHANGED <<acceptanceVars, readinessVars, runnerVars, storesVars, now>>
    \/ part = "acceptance" /\ A!Next
       /\ UNCHANGED <<verificationVars, readinessVars, runnerVars, storesVars>>
    \/ part = "readiness" /\ P!Next
       /\ UNCHANGED <<verificationVars, acceptanceVars, runnerVars, storesVars, tree>>
    \/ part = "ledger" /\ L!Next
       /\ UNCHANGED <<verificationVars, acceptanceVars, readinessVars, runnerVars, tree>>

PartSpec == PartInit /\ [][PartNext]_partVars

-----------------------------------------------------------------------------
(* Each property is a property of its own component.                          *)

\* The P19 store can always be reopened (VerifiedRunner).
RunnerStoreIsRecoverable == part = "runner" => StoreIsRecoverable

\* No second clock answer replaces one that did not suit (VerifiedRunner).
ClockAnswersAreNotShoppedFor == part = "runner" => AnswersAreNotShoppedFor

\* A consumed bundle is of one run (VerifiedRunner).
ConsumedEvidenceIsOfOneRun == part = "runner" => EvidenceIsOfOneRun

\* Inventories are trees that existed (RepositoryVerification).
InventoryIsATree == part = "verification" => V!InventoryIsATree

\* A passing run says what its checks said (RepositoryVerification).
DiagnosticIsHonest == part = "verification" => V!DiagnosticIsHonest

\* A candidate is accepted only on the newest decision (RepositoryAcceptance).
GoIsCurrent == part = "acceptance" => A!GoIsCurrent

\* An accepted candidate went through its stages in order (RepositoryAcceptance).
AcceptanceFollowsProof == part = "acceptance" => A!AcceptanceFollowsProof

\* A verified authorization rests on evidence that is current (ProductionReadiness).
AuthorizationNeverOutlivesItsInputs ==
    part = "readiness" => P!AuthorizationNeverOutlivesItsInputs

\* A reset rests on the one record of its P13 result (ReconciliationLedger).
ResetIsEarned == part = "ledger" => L!ResetIsEarned
=============================================================================
