------------------------- MODULE RepositoryAcceptance -------------------------
(***************************************************************************)
(* The acceptance of a repository candidate in saas_preflight's P18: from  *)
(* consumed P19 evidence through two attestations and a manifest to a      *)
(* chain of human decisions, and the evaluation that reads all of them     *)
(* against packet-external pins and the tree on disk.                      *)
(*                                                                         *)
(* Nobody locks anything: signers, the human, the pins, editors of the     *)
(* tree and evaluators act whenever they like, with clocks that may lag.   *)
(***************************************************************************)
EXTENDS RunnerEvidence, Sequences

CONSTANTS
    Bundles,     \* verified-runner evidence that was assembled
    Trees,       \* contents that the repository may have
    FirstTree,   \* the one it has at first
    Nothing,     \* an artifact that is missing
    Lag,         \* a signer's clock may lag behind by this much
    MaxTime,     \* bound: time stops here
    Expiries,    \* bound: when attestations, manifests and decisions may end
    MaxReceipts  \* bound: human decisions on one manifest

\* What the constants have to be.
AcceptanceBounds ==
    /\ Lag \in Nat /\ MaxTime \in Nat /\ MaxReceipts \in Nat /\ FirstTree \in Trees
    /\ Expiries \subseteq Int /\ \A b \in Bundles : Deadlines(b) \subseteq Int

VARIABLES
    now,        \* true time
    tree,       \* what is on disk
    proof,      \* the consumed evidence, with its consumption receipt
    signed,     \* signed[role]: the newest attestation of each of the two roles
    manifest,   \* the candidate
    receipts,   \* the human decisions on it, by revision
    pinned      \* the revision that the packet-external pins name as current

vars == <<now, tree, proof, signed, manifest, receipts, pinned>>

Time == 0..MaxTime
Reading == {t \in Time : t <= now /\ now <= t + Lag}
Roles == {"integration_evidence_runner", "tco_qa"}
Decisions == {"GO", "CONDITIONAL", "STOP"}

-----------------------------------------------------------------------------
(* The candidate *)

\* build_repository_verification_from_verified_runner_evidence
CheckSucceeded(r) ==
    r.ending = "exited" /\ r.exit = 0 /\ r.failures = 0 /\ r.skipped = 0 /\ ~r.truncated
FactOf(b, check) == LET r == b.records[check] IN
    [succeeded |-> CheckSucceeded(r), executed |-> r.started,
     assertions |-> r.assertions,
     notAfter |-> Min({r.notAfter, b.challenge.expires, b.imageSeal.expires,
                       b.advisory.expires, b.clock.expires, b.runner.expires})]
FactsOf(b) == [check \in Checks |-> FactOf(b, check)]

\* verify_verified_runner_consumption_receipt
ConsumptionHolds(p, t) ==
    /\ \A e \in Ends(p.bundle) \cup {p.bundle.runner.issued} : e <= p.at
    /\ p.at <= t

\* sign_repository_verification_attestation
Attestation(role, p, issued, expires) ==
    [signer |-> role, tree |-> p.bundle.tree, proof |-> p, issued |-> issued,
     expires |-> expires]

ExecutionTimes(p) == Ends(p.bundle) \cup Starts(p.bundle)

\* Everything that happened before an attestation may be signed.
ProofTimes(p) == Ends(p.bundle) \cup Starts(p.bundle) \cup {p.bundle.runner.issued, p.at, p.answered}

AttestationHolds(m, role) == LET a == m.signed[role] IN
    /\ a.signer = role /\ a.issued < a.expires
    /\ a.tree = m.tree /\ a.proof = m.proof
    /\ \A t \in ProofTimes(m.proof) : t <= a.issued
    /\ a.issued <= m.assembled /\ m.expires <= a.expires

\* RepositoryCandidateManifest.validate_manifest
ManifestHolds(m) ==
    /\ m.assembled < m.expires
    /\ m.proof.bundle.tree = m.tree
    /\ \A check \in Checks : LET f == FactOf(m.proof.bundle, check) IN
        f.executed <= m.assembled /\ m.expires <= f.notAfter
    /\ \/ \A role \in Roles : m.signed[role] = Nothing
       \/ \A role \in Roles : m.signed[role] # Nothing /\ AttestationHolds(m, role)

\* HumanRepositoryAcceptance: bound to the manifest and to the one before it, 0 being
\* the zero predecessor.
Decided(decision, issued, expires) ==
    [revision |-> Len(receipts) + 1, predecessor |-> Len(receipts),
     decision |-> decision, issued |-> issued, expires |-> expires]

-----------------------------------------------------------------------------
(* What an evaluation at time t holds against a candidate *)

If(condition, reason) == IF condition THEN {reason} ELSE {}

ManifestReasons(m, t) ==
    If(m.assembled > t, "MANIFEST_FUTURE")
    \cup If(m.expires <= t, "MANIFEST_EXPIRED")
    \cup If(m.expires - m.assembled > Ttl["manifest"], "MANIFEST_TTL_EXCEEDED")

\* _repository_verification_authority_reasons
EvidenceReasons(m, t) ==
    If(~(/\ Verified(m.proof.bundle, PinsOf(m.proof.bundle), t)
         /\ ConsumptionHolds(m.proof, t)), "VERIFICATION_TRUST_MISMATCH")
    \cup UNION {LET f == FactOf(m.proof.bundle, check) IN
        If(~f.succeeded, "VERIFICATION_FAILED")
        \cup If(f.notAfter <= t, "VERIFICATION_EXPIRED")
        \cup If(m.assembled - f.executed > Ttl["age"], "VERIFICATION_TOO_OLD")
        \cup If(f.assertions < Floor[check], "VERIFICATION_REQUIREMENT_MISMATCH")
        : check \in Checks}

AttestationReasons(m, t) ==
    If(\E role \in Roles : m.signed[role] = Nothing, "VERIFICATION_ATTESTATION_MISSING")
    \cup If(\E role \in Roles : m.signed[role] # Nothing /\
            ~(Current(m.signed[role], t) /\ Short(m.signed[role], "attestation")),
            "VERIFICATION_ATTESTATION_INVALID")

\* _repository_receipt_authority_reasons: the chain that is shown, and the revision
\* that the pins, whose own digest the reader pins, hold to be current.
ReceiptIsPinnedOnce(shown) == Len(shown) <= pinned
ReceiptIsCurrent(shown) == Len(shown) = pinned
ChainReasons(shown, t) == LET r == shown[Len(shown)] IN
    If(~ReceiptIsCurrent(shown), "RECEIPT_NOT_CURRENT")
    \cup If(\E i \in DOMAIN shown :
            \/ shown[i].revision # i
            \/ shown[i].predecessor # i - 1
            \/ i > 1 /\ shown[i].issued <= shown[i - 1].issued, "RECEIPT_CHAIN_INVALID")
    \cup If(\E i \in DOMAIN shown :
            \/ shown[i].issued < manifest.assembled
            \/ shown[i].expires > manifest.expires, "RECEIPT_BINDING_MISMATCH")
    \cup If(\E i \in DOMAIN shown : shown[i].issued > t, "RECEIPT_FUTURE")
    \cup If(\E i \in DOMAIN shown : ~Short(shown[i], "acceptance"), "RECEIPT_TTL_EXCEEDED")
    \cup If(r.expires <= t, "RECEIPT_EXPIRED")
    \cup If(r.decision = "CONDITIONAL", "HUMAN_CONDITIONAL")
    \cup If(r.decision = "STOP", "HUMAN_STOP")

\* evaluate_repository_acceptance reads the tree; the evaluation of an authority
\* bundle does not.
Reasons(shown, onDisk, t) ==
    If(onDisk # manifest.tree, "MANIFEST_DRIFT")
    \cup ManifestReasons(manifest, t) \cup EvidenceReasons(manifest, t)
    \cup AttestationReasons(manifest, t)
    \cup IF shown = <<>> THEN {"RECEIPT_MISSING"} ELSE ChainReasons(shown, t)

\* _acceptance_report
Soft == {"RECEIPT_MISSING", "HUMAN_CONDITIONAL", "HUMAN_STOP"}
Verdict(reasons, shown) ==
    CASE ~(reasons \subseteq Soft) -> "STOP"
      [] reasons = {} -> "ACCEPTED"
      [] shown = <<>> -> "PENDING"
      [] shown[Len(shown)].decision = "CONDITIONAL" -> "CONDITIONAL_PENDING"
      [] OTHER -> "REJECTED"

\* An evaluation now, which changes nothing: of the tree on disk, or of an
\* authority bundle, by a reader who is shown the decisions up to some revision.
Evaluate(k, live) == LET shown == SubSeq(receipts, 1, k) IN
    Verdict(Reasons(shown, IF live THEN tree ELSE manifest.tree, now), shown)

-----------------------------------------------------------------------------
(* Actions *)

\* The P19 store has consumed a bundle; its clock may lag.
Prove(b, t) ==
    /\ proof = Nothing /\ t \in Reading
    /\ BundleHolds(b) /\ Verified(b, PinsOf(b), t)
    /\ proof' = [bundle |-> b, at |-> t, answered |-> now]
    /\ UNCHANGED <<now, tree, signed, manifest, receipts, pinned>>

\* A role signs what has been proved, by its own clock.
Attest(role, t, until) ==
    /\ proof # Nothing /\ manifest = Nothing /\ t \in Reading /\ t < until
    /\ signed' = [signed EXCEPT ![role] = Attestation(role, proof, t, until)]
    /\ UNCHANGED <<now, tree, proof, manifest, receipts, pinned>>

\* build_repository_candidate_manifest: on the tree that is there now.
Assemble(until) ==
    /\ proof # Nothing /\ manifest = Nothing
    /\ LET m == [tree |-> tree, proof |-> proof, signed |-> signed,
                 assembled |-> now, expires |-> until]
       IN ManifestHolds(m) /\ manifest' = m
    /\ UNCHANGED <<now, tree, proof, signed, receipts, pinned>>

\* sign_human_repository_acceptance
Decide(decision, t, until) ==
    /\ manifest # Nothing /\ Len(receipts) < MaxReceipts /\ t \in Reading
    /\ manifest.assembled <= t /\ t < until /\ until <= manifest.expires
    /\ receipts' = Append(receipts, Decided(decision, t, until))
    /\ UNCHANGED <<now, tree, proof, signed, manifest, pinned>>

\* The pins are moved to the newest decision, sooner or later.
Pin ==
    /\ pinned < Len(receipts) /\ pinned' = Len(receipts)
    /\ UNCHANGED <<now, tree, proof, signed, manifest, receipts>>

Edit(t) ==
    /\ tree = FirstTree /\ t # tree /\ tree' = t
    /\ UNCHANGED <<now, proof, signed, manifest, receipts, pinned>>

Tick ==
    /\ now < MaxTime /\ now' = now + 1
    /\ UNCHANGED <<tree, proof, signed, manifest, receipts, pinned>>

Init ==
    /\ now = 0 /\ tree = FirstTree /\ proof = Nothing
    /\ signed = [role \in Roles |-> Nothing]
    /\ manifest = Nothing /\ receipts = <<>> /\ pinned = 0

Next ==
    \/ \E b \in Bundles, t \in Time : Prove(b, t)
    \/ \E role \in Roles, t \in Time, until \in Expiries : Attest(role, t, until)
    \/ \E until \in Expiries : Assemble(until)
    \/ \E decision \in Decisions, t \in Time, until \in Expiries : Decide(decision, t, until)
    \/ Pin
    \/ \E t \in Trees : Edit(t)
    \/ Tick

Spec == Init /\ [][Next]_vars

-----------------------------------------------------------------------------
(* Properties *)

\* Every way in which the candidate could be found accepted now.
Acceptances == IF manifest = Nothing THEN {}
    ELSE {e \in (0..Len(receipts)) \X BOOLEAN :
            /\ e[1] > 0 \/ e[2]
            /\ Evaluate(e[1], e[2]) = "ACCEPTED"}

\* A candidate is accepted only while the decision that the pins hold to be current
\* is a GO: an older GO is not accepted over a newer STOP, nor a newer GO before
\* the pins have moved (_repository_receipt_authority_reasons).
GoIsCurrent == \A e \in Acceptances :
    e[1] = pinned /\ receipts[pinned].decision = "GO"

\* An accepted candidate went through its stages in order, on one tree: every check
\* passed before its evidence was consumed, which was before both roles signed it,
\* before the manifest, before the decision; and nothing had expired
\* (validate_manifest and the evaluation).
AcceptanceFollowsProof == \A e \in Acceptances :
    LET m == manifest
        r == receipts[e[1]]
        attested == {m.signed[role].issued : role \in Roles}
    IN /\ m.proof.bundle.tree = m.tree /\ (e[2] => tree = m.tree)
       /\ \A check \in Checks : CheckSucceeded(m.proof.bundle.records[check])
       /\ \A end \in Ends(m.proof.bundle) : end <= m.proof.at
       /\ \A t \in attested : m.proof.at <= t /\ t <= m.assembled
       /\ m.assembled <= r.issued /\ r.issued <= now
       /\ now < Min({r.expires, m.expires, NotAfter(m.proof.bundle)})
=============================================================================
