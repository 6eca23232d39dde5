--------------------------- MODULE IntegrationFacts ---------------------------
(***************************************************************************)
(* The facts that saas_preflight's P15 collects about the production       *)
(* environment, one kind for each required check, and when they pass.      *)
(*                                                                         *)
(* Of each kind: the fields that the decision reads, with their types, and *)
(* what it demands of them. Two digests that are only compared stand as    *)
(* the outcome of the comparison.                                          *)
(***************************************************************************)
EXTENDS Integers

CONSTANT Policy \* ProductionIntegrationPolicy: its numbers, by name

Positive == Nat \ {0}

ConditionalMutationFields ==
    [k \in {"executed", "accepted", "stale", "fenced", "winners", "replays", "effects"} |-> 0..4]
ConditionalMutationPasses(f) ==
    /\ f.executed = 4 /\ f.effects = 0
    /\ \A k \in {"accepted", "stale", "fenced", "winners", "replays"} : f[k] = 1

IdempotencyFields ==
    [retention |-> Nat, attempts |-> Positive, matching |-> Nat, effects |-> Nat,
     rejected |-> Nat, conflicts |-> Nat, same |-> BOOLEAN]
IdempotencyPasses(f) ==
    /\ f.retention >= Policy.retention /\ f.attempts >= Policy.replays
    /\ f.matching = f.attempts /\ f.rejected >= 1
    /\ f.effects = 0 /\ f.conflicts = 0 /\ f.same

ReceiptLookupFields ==
    [attempts |-> Positive, found |-> Nat, mismatches |-> Nat, unauthorized |-> Nat,
     lag |-> Nat, mutations |-> Nat, same |-> BOOLEAN]
ReceiptLookupPasses(f) ==
    /\ f.attempts >= Policy.lookups /\ f.found = 1 /\ f.same
    /\ f.mismatches = 0 /\ f.unauthorized = 0 /\ f.mutations = 0
    /\ f.lag <= Policy.lookupLag

ReadbackFields ==
    [attempted |-> Positive, matched |-> Nat, mismatches |-> Nat, lag |-> Nat, same |-> BOOLEAN]
ReadbackPasses(f) ==
    /\ f.attempted >= Policy.readbacks /\ f.matched = f.attempted
    /\ f.mismatches = 0 /\ f.same /\ f.lag <= Policy.readbackLag

KmsFields == [checked |-> 0..6, violations |-> 0..6]
KmsPasses(f) == f.checked = 6 /\ f.violations = 0

AnchorFields ==
    [samples |-> Positive, advanced |-> Nat, before |-> Nat, after |-> Positive,
     regressions |-> Nat, replays |-> Nat]
AnchorPasses(f) ==
    /\ f.samples >= Policy.samples /\ f.advanced = f.samples - 1
    /\ f.after > f.before /\ f.regressions = 0 /\ f.replays >= 1

ClockFields ==
    [sources |-> 1..10, domains |-> 1..10, samples |-> Positive, offset |-> Nat,
     uncertainty |-> Nat, backward |-> Nat, outside |-> Nat]
ClockPasses(f) ==
    /\ f.sources >= Policy.sources /\ f.domains >= Policy.clockDomains
    /\ f.samples >= Policy.sources
    /\ f.offset + f.uncertainty <= Policy.offset
    /\ f.backward = 0 /\ f.outside = 0

FencingFields ==
    [workers |-> Positive, identities |-> 2..100, domains |-> 2..20, contenders |-> Positive,
     winners |-> Nat, stale |-> Nat, unfenced |-> Nat]
FencingPasses(f) ==
    /\ f.workers >= Policy.workers /\ f.identities = f.workers
    /\ f.domains >= Policy.storeDomains /\ f.contenders >= f.workers
    /\ f.winners = 1 /\ f.stale >= f.workers - 1 /\ f.unfenced = 0

EgressFields == [same |-> BOOLEAN, blocked |-> Nat, escaped |-> Nat]
EgressPasses(f) == f.same /\ f.blocked >= Policy.egress /\ f.escaped = 0

BackupFields ==
    [same |-> BOOLEAN, isolated |-> BOOLEAN, pointerKept |-> BOOLEAN,
     attempts |-> Positive, restored |-> Nat, mismatches |-> Nat, rejected |-> Nat,
     rpo |-> Nat, rto |-> Nat, age |-> Nat, drillAge |-> Nat, gap |-> Nat]
BackupPasses(f) ==
    /\ f.same /\ f.isolated /\ f.pointerKept
    /\ f.attempts >= Policy.restores /\ f.restored = f.attempts
    /\ f.mismatches = 0 /\ f.rejected >= 1 /\ f.gap = 0
    /\ \A k \in {"rpo", "rto", "age", "drillAge"} : f[k] <= Policy[k]

RollbackFields ==
    [exercises |-> Positive, disables |-> Nat, latency |-> Nat, mutations |-> Nat,
     disabled |-> BOOLEAN, activations |-> Nat, retries |-> Nat]
RollbackPasses(f) ==
    /\ f.exercises >= Policy.exercises /\ f.disables = f.exercises
    /\ f.latency <= Policy.latency /\ f.disabled
    /\ f.mutations = 0 /\ f.activations = 0 /\ f.retries = 0

-----------------------------------------------------------------------------

\* REQUIRED_PRODUCTION_INTEGRATION_CHECKS, each with the fields of its facts
Fields ==
    [backup_restore |-> BackupFields,
     egress_allowlist |-> EgressFields,
     external_monotonic_anchor |-> AnchorFields,
     independent_readback |-> ReadbackFields,
     kms_identity_separation |-> KmsFields,
     provider_conditional_mutation |-> ConditionalMutationFields,
     provider_idempotency_retention |-> IdempotencyFields,
     provider_receipt_lookup |-> ReceiptLookupFields,
     rollback_disable |-> RollbackFields,
     shared_durable_store_fencing |-> FencingFields,
     trusted_clock |-> ClockFields]
Required == DOMAIN Fields

\* _EXPECTED_SIGNING_ROLE
SignerOf ==
    [backup_restore |-> "recovery_auditor",
     egress_allowlist |-> "network_auditor",
     external_monotonic_anchor |-> "storage_auditor",
     independent_readback |-> "provider_probe",
     kms_identity_separation |-> "security_auditor",
     provider_conditional_mutation |-> "provider_conformance",
     provider_idempotency_retention |-> "provider_conformance",
     provider_receipt_lookup |-> "provider_conformance",
     rollback_disable |-> "recovery_auditor",
     shared_durable_store_fencing |-> "storage_auditor",
     trusted_clock |-> "time_auditor"]

FactsHold(check, f) ==
    /\ DOMAIN f = DOMAIN Fields[check]
    /\ \A k \in DOMAIN f : f[k] \in Fields[check][k]

FactsPass(check, f) ==
    CASE check = "backup_restore" -> BackupPasses(f)
      [] check = "egress_allowlist" -> EgressPasses(f)
      [] check = "external_monotonic_anchor" -> AnchorPasses(f)
      [] check = "independent_readback" -> ReadbackPasses(f)
      [] check = "kms_identity_separation" -> KmsPasses(f)
      [] check = "provider_conditional_mutation" -> ConditionalMutationPasses(f)
      [] check = "provider_idempotency_retention" -> IdempotencyPasses(f)
      [] check = "provider_receipt_lookup" -> ReceiptLookupPasses(f)
      [] check = "rollback_disable" -> RollbackPasses(f)
      [] check = "shared_durable_store_fencing" -> FencingPasses(f)
      [] check = "trusted_clock" -> ClockPasses(f)
=============================================================================
