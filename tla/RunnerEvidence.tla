--------------------------- MODULE RunnerEvidence ---------------------------
(***************************************************************************)
(* The evidence that saas_preflight's P19 verified runner assembles for    *)
(* one run of the repository's checks: a challenge, the results, and what  *)
(* the image builder, the clock and the runner sign about them.            *)
(*                                                                         *)
(* A digest is the value it is computed from, so two artifacts bind each   *)
(* other exactly when one holds the other. An artifact names the role      *)
(* whose key signed it.                                                    *)
(***************************************************************************)
EXTENDS Integers, FiniteSets, FiniteSetsExt

CONSTANTS
    Checks,      \* the ordered list of checks, as a set
    Audit,       \* the check that reads the advisory database
    Floor,       \* Floor[c]: the registry's least number of assertions
    Ttl,         \* Ttl[kind]: how long an artifact may be good for
    AdvisoryAge, \* how old the advisory snapshot may be
    ResultAge,   \* how old a result may be
    NoHead       \* the all-zero predecessor

ASSUME EvidenceConstants ==
    /\ IsFiniteSet(Checks) /\ Checks # {} /\ Audit \in Checks
    /\ \A c \in Checks : Floor[c] \in Nat \ {0}
    /\ AdvisoryAge \in Nat /\ ResultAge \in Nat

-----------------------------------------------------------------------------
(* What each artifact's own validator demands *)

ChallengeHolds(c) ==
    /\ c.issued <= c.notBefore /\ c.notBefore < c.expires
    /\ (c.sequence = 1) <=> (c.previous = NoHead)

\* How the process ended fixes what else the result may say.
TerminationHolds(r) ==
    CASE r.ending = "exited" -> r.exit >= 0 /\ r.signal = 0
      [] r.ending = "signalled" -> r.exit < 0 /\ r.signal > 0
      [] OTHER -> r.exit < 0 /\ r.signal = 0

ResultHolds(check, r) ==
    /\ r.started <= r.ended /\ r.ended < r.notAfter
    /\ r.failures + r.skipped <= r.assertions /\ r.assertions > 0
    /\ TerminationHolds(r)
    /\ r.truncated => r.ending = "output_limit"
    /\ (check = Audit) <=> (r.database # "none")

\* Attestations and snapshots: good for some time after they were made.
Lasts(a) == a.issued < a.expires
ClockHolds(a) == a.observed <= a.issued /\ Lasts(a)

-----------------------------------------------------------------------------
(* What the bundle binds together *)

\* Each record names the run it belongs to.
RecordBinds(b, check) == LET r == b.records[check] IN
    /\ ResultHolds(check, r)
    /\ r.tree = b.tree /\ r.image = b.image /\ r.advisory = b.advisory
    /\ r.challenge = b.challenge

ImageBinds(b) ==
    /\ b.image.tree = b.tree
    /\ b.imageSeal.image = b.image /\ b.imageSeal.challenge = b.challenge
    /\ b.imageSeal.records = b.records

ChallengeIsClocked(b) == b.clock.challenge = b.challenge
ClockBinds(b) ==
    /\ b.clock.challenge = b.challenge /\ b.clock.records = b.records

\* The content that the runner signs: everything but its own attestation.
Content(b) == [tree |-> b.tree, challenge |-> b.challenge, image |-> b.image,
    imageSeal |-> b.imageSeal, advisory |-> b.advisory, records |-> b.records,
    clock |-> b.clock]

\* build_verified_runner_evidence_bundle
Bundle(content, runner) == [tree |-> content.tree, challenge |-> content.challenge,
    image |-> content.image, imageSeal |-> content.imageSeal,
    advisory |-> content.advisory, records |-> content.records,
    clock |-> content.clock, runner |-> runner]

\* VerifiedRunnerEvidenceBundle.validate_bundle: no other value is a bundle.
BundleHolds(b) ==
    /\ DOMAIN b.records = Checks
    /\ ChallengeHolds(b.challenge) /\ b.challenge.tree = b.tree
    /\ Lasts(b.imageSeal) /\ ImageBinds(b)
    /\ Lasts(b.advisory)
    /\ \A check \in Checks : RecordBinds(b, check)
    /\ ClockHolds(b.clock) /\ ClockBinds(b)
    /\ Lasts(b.runner) /\ b.runner.content = Content(b)

-----------------------------------------------------------------------------
(* The signers *)

SealImage(image, challenge, records, issued, expires) ==
    [image |-> image, challenge |-> challenge, records |-> records,
     issued |-> issued, expires |-> expires, signer |-> "image_builder"]

SealAdvisory(database, issued, expires) ==
    [database |-> database, issued |-> issued, expires |-> expires,
     signer |-> "advisory_auditor"]

SealClock(challenge, records, observed, issued, expires) ==
    [challenge |-> challenge, records |-> records, observed |-> observed,
     issued |-> issued, expires |-> expires, signer |-> "time_auditor"]

SealRunner(content, issued, expires) ==
    [content |-> content, issued |-> issued, expires |-> expires,
     signer |-> "runner"]

-----------------------------------------------------------------------------
(* verify_verified_runner_evidence at a time t *)

Current(a, t) == a.issued <= t /\ t < a.expires
Short(a, kind) == a.expires - a.issued <= Ttl[kind]
Sealed(a, role, kind, t) == a.signer = role /\ Current(a, t) /\ Short(a, kind)

\* VerifiedRunnerAuthorityPins: what the reader expects to be shown.
PinsOf(b) == [tree |-> b.tree, challenge |-> b.challenge,
    sequence |-> b.challenge.sequence, previous |-> b.challenge.previous,
    image |-> b.image, advisory |-> b.advisory]

ChallengeIsCurrent(c, t) ==
    c.notBefore <= t /\ t < c.expires /\ c.expires - c.issued <= Ttl["challenge"]

AdvisoryIsCurrent(a, t) ==
    Sealed(a, "advisory_auditor", "advisory", t) /\ t - a.issued <= AdvisoryAge

\* The run happened inside the challenge, and was sealed in order after it.
Ends(b) == {b.records[c].ended : c \in Checks}
Starts(b) == {b.records[c].started : c \in Checks}
InOrder(b) ==
    /\ \A s \in Starts(b) : b.challenge.notBefore <= s
    /\ \A e \in Ends(b) : e <= b.imageSeal.issued
    /\ b.imageSeal.issued <= b.clock.observed
    /\ b.clock.issued <= b.runner.issued

\* One check ran on this image, within its budgets, and everything passed.
Passed(b, check, t) == LET r == b.records[check] IN
    /\ b.image.built <= r.started /\ r.ended <= b.runner.issued
    /\ t - r.ended <= ResultAge /\ r.notAfter - r.ended <= Ttl["result"]
    /\ t < r.notAfter
    /\ r.within /\ ~r.truncated
    /\ r.ending = "exited" /\ r.exit = 0
    /\ r.failures = 0 /\ r.skipped = 0 /\ r.assertions >= Floor[check]
    /\ check = Audit => r.database = b.advisory.database

Verified(b, pins, t) ==
    /\ pins = PinsOf(b)
    /\ ChallengeIsCurrent(b.challenge, t)
    /\ Sealed(b.imageSeal, "image_builder", "image", t)
    /\ b.challenge.notBefore <= b.imageSeal.issued
    /\ AdvisoryIsCurrent(b.advisory, t)
    /\ Sealed(b.clock, "time_auditor", "clock", t)
    /\ Sealed(b.runner, "runner", "runner", t)
    /\ InOrder(b)
    /\ \A check \in Checks : Passed(b, check, t)

\* Until when a verified bundle stays so, as readers of it compute.
Deadlines(b) == {b.records[c].notAfter : c \in Checks} \cup
    {b.challenge.expires, b.imageSeal.expires, b.advisory.expires,
     b.clock.expires, b.runner.expires}
NotAfter(b) == Min(Deadlines(b))
=============================================================================
