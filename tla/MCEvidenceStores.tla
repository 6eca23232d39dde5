--------------------------- MODULE MCEvidenceStores ---------------------------
(***************************************************************************)
(* EvidenceStores on small instances.                                      *)
(***************************************************************************)
EXTENDS EvidenceStores, TLC

CONSTANTS p1, p2, v1, v2

Symmetry == Permutations({p1, p2}) \cup Permutations({v1, v2})

-----------------------------------------------------------------------------
(* P19: five runs of one check, of which each artifact is shuffled with the   *)
(* others' into bundles                                                       *)

MCFloor == [c \in Checks |-> 2]
MCTtl == [k \in {"challenge", "image", "advisory", "clock", "runner", "result", "manifest",
        "attestation", "acceptance", "age", "live", "recovery", "evidence", "report"} |-> 3]
    @@ [tco |-> 2, human |-> 2, authorization |-> 1]

Challenge(id, sequence, previous, from, until) ==
    [id |-> id, tree |-> "tree", sequence |-> sequence, previous |-> previous,
     issued |-> from, notBefore |-> from, expires |-> until]
Image == [tree |-> "tree", built |-> 0]
Advisories == SealAdvisory("db", 0, 3)
Result(challenge, at, failures) ==
    [tree |-> "tree", image |-> Image, advisory |-> Advisories,
     challenge |-> challenge, started |-> at, ended |-> at, notAfter |-> 3,
     ending |-> "exited", exit |-> 0, signal |-> 0, assertions |-> 2,
     failures |-> failures, skipped |-> 0, truncated |-> FALSE, within |-> TRUE,
     database |-> "db"]
Records(challenge, at, failures) == [c \in Checks |-> Result(challenge, at, failures)]

ContentOf(challenge, records, imageSeal, clock) ==
    [tree |-> "tree", challenge |-> challenge, image |-> Image,
     imageSeal |-> imageSeal, advisory |-> Advisories, records |-> records,
     clock |-> clock]

RunOf(challenge, at, failures) ==
    LET records == Records(challenge, at, failures)
        content == ContentOf(challenge, records,
            SealImage(Image, challenge, records, at, 3),
            SealClock(challenge, records, at, at, 3))
    IN Bundle(content, SealRunner(content, at, 3))

Failed == RunOf(Challenge("a", 1, NoHead, 0, 2), 0, 1)
Rerun == RunOf(Challenge("a", 1, NoHead, 0, 2), 1, 0)
Rival == RunOf(Challenge("b", 1, NoHead, 0, 3), 0, 0)
RivalAgain == RunOf(Challenge("b", 1, NoHead, 0, 3), 1, 0)
Follower == RunOf(Challenge("c", 2, Rerun, 1, 3), 1, 0)
MCRuns == {Failed, Rerun, Rival, RivalAgain, Follower}

\* The runner signs any content.
Shuffled == {ContentOf(r.challenge, s.records, t.imageSeal, u.clock) :
    r \in MCRuns, s \in MCRuns, t \in MCRuns, u \in MCRuns}
MCBundles == MCRuns \cup
    {b \in {Bundle(c, SealRunner(c, 1, 3)) : c \in Shuffled} : BundleHolds(b)}
MCPins == {PinsOf(r) : r \in MCRuns}

-----------------------------------------------------------------------------
(* P18 *)

MCCheckList == <<"pytest", "web", "generated", "lint", "audit">>
MCLeast == [c \in {"pytest", "web", "generated", "lint", "audit"} |-> IF c = "pytest" THEN 2 ELSE 1]
MCAccepted == {Rival}

-----------------------------------------------------------------------------
(* P15: sound evidence for all eleven checks, and evidence that is unsound in *)
(* one thing                                                                  *)

MCPolicy ==
 [retention |-> 2, replays |-> 2, lookups |-> 2, lookupLag |-> 1, readbacks |-> 2,
 readbackLag |-> 1, samples |-> 3, sources |-> 3, clockDomains |-> 2, offset |-> 2, workers |-> 2,
 storeDomains |-> 2, egress |-> 1, restores |-> 1, rpo |-> 1, rto |-> 1, age |-> 1, drillAge |-> 1,
 exercises |-> 1, latency |-> 1]
F == INSTANCE IntegrationFacts

\* Facts that pass, each number at its limit.
AtLimit ==
 [backup_restore |-> [same |-> TRUE, isolated |-> TRUE, pointerKept |-> TRUE, attempts |-> 1, restored |-> 1,
    mismatches |-> 0, rejected |-> 1, rpo |-> 1, rto |-> 1, age |-> 1, drillAge |-> 1, gap |-> 0],
  egress_allowlist |-> [same |-> TRUE, blocked |-> 1, escaped |-> 0],
  external_monotonic_anchor |-> [samples |-> 3, advanced |-> 2, before |-> 0, after |-> 1, regressions |-> 0, replays |-> 1],
  independent_readback |-> [attempted |-> 2, matched |-> 2, mismatches |-> 0, lag |-> 1, same |-> TRUE],
  kms_identity_separation |-> [checked |-> 6, violations |-> 0],
  provider_conditional_mutation |-> [executed |-> 4, accepted |-> 1, stale |-> 1, fenced |-> 1, winners |-> 1, replays |-> 1, effects |-> 0],
  provider_idempotency_retention |-> [retention |-> 2, attempts |-> 2, matching |-> 2, effects |-> 0, rejected |-> 1, conflicts |-> 0, same |-> TRUE],
  provider_receipt_lookup |-> [attempts |-> 2, found |-> 1, mismatches |-> 0, unauthorized |-> 0, lag |-> 1, mutations |-> 0, same |-> TRUE],
  rollback_disable |-> [exercises |-> 1, disables |-> 1, latency |-> 1, mutations |-> 0, disabled |-> TRUE, activations |-> 0, retries |-> 0],
  shared_durable_store_fencing |-> [workers |-> 2, identities |-> 2, domains |-> 2, contenders |-> 2, winners |-> 1, stale |-> 1, unfenced |-> 0],
  trusted_clock |-> [sources |-> 3, domains |-> 2, samples |-> 3, offset |-> 1, uncertainty |-> 1, backward |-> 0, outside |-> 0]]

\* The same facts, with one field just outside.
Outside ==
   [backup_restore |-> [AtLimit.backup_restore EXCEPT !.pointerKept = FALSE],
    egress_allowlist |-> [AtLimit.egress_allowlist EXCEPT !.blocked = 0],
    external_monotonic_anchor |-> [AtLimit.external_monotonic_anchor EXCEPT !.advanced = 1],
    independent_readback |-> [AtLimit.independent_readback EXCEPT !.attempted = 3],
    kms_identity_separation |-> [AtLimit.kms_identity_separation EXCEPT !.checked = 5],
    provider_conditional_mutation |-> [AtLimit.provider_conditional_mutation EXCEPT !.winners = 2],
    provider_idempotency_retention |-> [AtLimit.provider_idempotency_retention EXCEPT !.conflicts = 1],
    provider_receipt_lookup |-> [AtLimit.provider_receipt_lookup EXCEPT !.lag = 2],
    rollback_disable |-> [AtLimit.rollback_disable EXCEPT !.mutations = 1],
    shared_durable_store_fencing |-> [AtLimit.shared_durable_store_fencing EXCEPT !.stale = 0],
    trusted_clock |-> [AtLimit.trusted_clock EXCEPT !.uncertainty = 2]]
Item(check, until) == [check |-> check, id |-> check, observed |-> 0, expires |-> until,
  provenance |-> "production_environment", bound |-> TRUE, role |-> F!SignerOf[check], signer |-> F!SignerOf[check],
  facts |-> AtLimit[check]]
Order == <<"backup_restore", "egress_allowlist", "external_monotonic_anchor", "independent_readback",
    "kms_identity_separation", "provider_conditional_mutation", "provider_idempotency_retention",
    "provider_receipt_lookup", "rollback_disable", "shared_durable_store_fencing", "trusted_clock">>
Sound(until) == [i \in 1..Cardinality(F!Required) |-> Item(Order[i], IF i = 2 THEN until ELSE 3)]
At(e) == CHOOSE i \in DOMAIN Order : Order[i] = e.check
Spoil(e) == [Sound(3) EXCEPT ![At(e)] = e]
Clock == Item("trusted_clock", 3)
EvidenceByName == [i \in F!Required |-> Spoil([Item(i, 3) EXCEPT !.facts = Outside[i]])] @@
    [sound |-> Sound(3), brief |-> Sound(2), twice |-> Append(Sound(3), Clock),
     conflict |-> Append(Sound(3), Item("trusted_clock", 2)), missing |-> SubSeq(Sound(3), 1, 10),
     id |-> Spoil([Clock EXCEPT !.id = "kms_identity_separation"]),
     synthetic |-> Spoil([Clock EXCEPT !.provenance = "synthetic_contract"]),
     unbound |-> Spoil([Clock EXCEPT !.bound = FALSE]),
     role |-> Spoil([Clock EXCEPT !.role = "controller"]),
     signer |-> Spoil([Clock EXCEPT !.signer = "controller"]),
     future |-> Spoil([Clock EXCEPT !.observed = 1]),
     long |-> Spoil([Clock EXCEPT !.expires = 4])]

MCEvidence == EvidenceByName
MCBootstrap == [notBefore |-> 0, expires |-> 3]

FactsOf(result, terminal, provider, stop, until) ==
    [result |-> result, terminal |-> terminal, provider |-> provider, stop |-> stop,
     receipt |-> "r", journaled |-> "r", observed |-> 0, expires |-> until,
     signer |-> "recovery_auditor"]
MCFacts ==
    {FactsOf("r1", "unknown", "not_applied", "s1", 2),
     FactsOf("r1", "unknown", "applied", "s1", 2),
     FactsOf("r2", "stop", "ambiguous", "s1", 1),
     [FactsOf("r3", "stop", "not_applied", "s2", 2) EXCEPT !.observed = 1]}
=============================================================================
