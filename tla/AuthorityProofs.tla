---------------------------- MODULE AuthorityProofs ----------------------------
(***************************************************************************)
(* What saas_preflight grants on evidence, for any evidence, any clocks    *)
(* and any number of decisions: the acceptance of a P18 candidate (A), the *)
(* authorization of a P15 bootstrap (P) and the reset of a P13 stop (L).   *)
(*                                                                         *)
(* The first two are found again by a reader who only has the artifacts.   *)
(* What the reader does not check again has to be in the artifacts from    *)
(* the start: the invariants say what a manifest, a report, a signature    *)
(* and an authorization were made of.                                      *)
(***************************************************************************)
EXTENDS EvidenceStores, SequenceTheorems, FiniteSetTheorems, WellFoundedInduction, TLAPS

-----------------------------------------------------------------------------
(* Least numbers *)

\* Some natural number in a set is the least (the Min of deadlines).
LEMMA LeastNatural ==
    ASSUME NEW S, S \subseteq Nat, S # {}
    PROVE  \E x \in S : \A y \in S : x <= y
<1> DEFINE R == {ss \in Nat \X Nat : ss[1] < ss[2]}
<1>1. IsWellFoundedOn(R, Nat)
  BY NatLessThanWellFounded DEF OpToRel
<1>2. ASSUME NEW x \in Nat, NEW y \in Nat, <<y, x>> \notin R PROVE x <= y
  BY <1>2
<1> HIDE DEF R
<1>3. PICK x \in S : \A y \in S : ~(<<y, x>> \in R)
  BY <1>1, WFMin
<1>4. \A y \in S : x <= y
  BY <1>2, <1>3
<1> QED
  BY <1>4

\* The least of the deadlines that are all still to come (NotAfter, ReadyUntil).
LEMMA LeastDeadline ==
    ASSUME NEW S, S \subseteq Int, S # {}, NEW t \in Int, \A x \in S : t < x
    PROVE  Min(S) \in S /\ t < Min(S) /\ \A x \in S : Min(S) <= x
<1> DEFINE D == {x - t : x \in S}
<1>1. D # {} /\ D \subseteq Nat
  <2>1. \A x \in S : x - t \in Nat
    OBVIOUS
  <2> QED
    BY <2>1
<1>2. \A x \in S : x - t \in D /\ x \in Int
  OBVIOUS
<1>3. \A d \in D : \E x \in S : d = x - t
  OBVIOUS
<1> HIDE DEF D
<1>4. PICK d \in D : \A y \in D : d <= y
  BY <1>1, LeastNatural
<1>5. PICK m \in S : d = m - t
  BY <1>3
<1>6. ASSUME NEW x \in S PROVE m <= x
  <2>1. d <= x - t
    BY <1>2, <1>4
  <2> QED
    BY <1>2, <1>5, <2>1
<1> QED
  BY <1>6 DEF Min

-----------------------------------------------------------------------------
(* The acceptance of a candidate *)

HumanDecisions == [revision : Nat, predecessor : Nat, decision : A!Decisions,
                   issued : Int, expires : Int]

\* What a manifest was when it was assembled.
Candidate(m) ==
    /\ A!ManifestHolds(m) /\ m.proof.bundle \in AcceptedBundles
    /\ m.assembled \in Int /\ m.expires \in Int

AcceptanceInv ==
    /\ now \in Nat /\ receipts \in Seq(HumanDecisions)
    /\ proof # Nothing => proof.bundle \in AcceptedBundles
    /\ manifest # Nothing => Candidate(manifest)

\* Nothing has been decided at first.
LEMMA AcceptanceStarts == A!Init => AcceptanceInv
BY DEF A!Init, AcceptanceInv

\* Artifacts are made once, and decisions are only added (build_repository_candidate_
\* manifest and sign_human_repository_acceptance).
LEMMA AcceptanceSteps ==
    ASSUME AcceptanceInv, [A!Next]_(A!vars)
    PROVE  AcceptanceInv'
<1>1. ASSUME NEW b \in AcceptedBundles, NEW t \in A!Time, A!Prove(b, t) PROVE AcceptanceInv'
  BY <1>1 DEF A!Prove, AcceptanceInv
<1>2. ASSUME NEW until \in Expiries, A!Assemble(until) PROVE AcceptanceInv'
  <2>1. PICK m : m = [tree |-> tree, proof |-> proof, signed |-> signed,
                      assembled |-> now, expires |-> until]
    OBVIOUS
  <2>2. A!ManifestHolds(m) /\ manifest' = m
    BY <1>2, <2>1 DEF A!Assemble
  <2>3. until \in Int
    BY PartBounds DEF A!AcceptanceBounds
  <2>4. Candidate(m)
    BY <1>2, <2>1, <2>2, <2>3 DEF A!Assemble, AcceptanceInv, Candidate
  <2> QED
    BY <1>2, <2>2, <2>4 DEF A!Assemble, AcceptanceInv
<1>3. ASSUME NEW decision \in A!Decisions, NEW t \in A!Time, NEW until \in Expiries,
             A!Decide(decision, t, until)
      PROVE  AcceptanceInv'
  <2>1. PICK h : h = A!Decided(decision, t, until)
    OBVIOUS
  <2>2. until \in Int /\ t \in Int
    BY PartBounds DEF A!AcceptanceBounds, A!Time
  <2>3. h \in HumanDecisions
    BY <2>1, <2>2 DEF A!Decided, HumanDecisions, AcceptanceInv
  <2>4. receipts' = Append(receipts, h)
    BY <1>3, <2>1 DEF A!Decide
  <2> QED
    BY <1>3, <2>3, <2>4 DEF A!Decide, AcceptanceInv
<1>4. CASE A!Pin
  BY <1>4 DEF A!Pin, AcceptanceInv
<1>5. ASSUME NEW t \in Trees, A!Edit(t) PROVE AcceptanceInv'
  BY <1>5 DEF A!Edit, AcceptanceInv
<1>6. CASE A!Tick
  BY <1>6 DEF A!Tick, AcceptanceInv
<1>7. ASSUME NEW role \in A!Roles, NEW t \in A!Time, NEW until \in Expiries,
             A!Attest(role, t, until)
      PROVE  AcceptanceInv'
  BY <1>7 DEF A!Attest, AcceptanceInv
<1>8. CASE UNCHANGED A!vars
  BY <1>8 DEF A!vars, AcceptanceInv
<1> QED
  BY <1>1, <1>2, <1>3, <1>4, <1>5, <1>6, <1>7, <1>8 DEF A!Next

\* Whatever is proved, signed, decided, pinned and edited, a manifest holds what it
\* held when it was assembled.
THEOREM AcceptanceCorrect == A!Spec => []AcceptanceInv
BY AcceptanceStarts, AcceptanceSteps, PTL DEF A!Spec

\* What an evaluation that finds nothing has seen of manifest and evidence
\* (_repository_verification_authority_reasons).
LEMMA NothingAgainstEvidence ==
    ASSUME NEW m, NEW t, A!ManifestReasons(m, t) = {}, A!EvidenceReasons(m, t) = {},
           A!AttestationReasons(m, t) = {}
    PROVE  /\ ~(m.assembled > t) /\ ~(m.expires <= t)
           /\ A!Verified(m.proof.bundle, A!PinsOf(m.proof.bundle), t)
           /\ A!ConsumptionHolds(m.proof, t)
           /\ \A check \in Checks : A!CheckSucceeded(m.proof.bundle.records[check])
           /\ \A role \in A!Roles : m.signed[role] # Nothing
<1>1. ~(m.assembled > t) /\ ~(m.expires <= t)
  BY DEF A!ManifestReasons, A!If
<1>2. A!Verified(m.proof.bundle, A!PinsOf(m.proof.bundle), t) /\ A!ConsumptionHolds(m.proof, t)
  BY DEF A!EvidenceReasons, A!If
<1>3. ASSUME NEW check \in Checks PROVE A!CheckSucceeded(m.proof.bundle.records[check])
  <2>1. A!FactOf(m.proof.bundle, check).succeeded
    BY DEF A!EvidenceReasons, A!If
  <2> QED
    BY <2>1 DEF A!FactOf
<1>4. \A role \in A!Roles : m.signed[role] # Nothing
  BY DEF A!AttestationReasons, A!If
<1> QED
  BY <1>1, <1>2, <1>3, <1>4

\* What it has seen of the chain of decisions (_repository_receipt_authority_reasons).
LEMMA NothingAgainstChain ==
    ASSUME NEW shown, NEW t, shown # <<>>, A!ChainReasons(shown, t) = {},
           Len(shown) \in DOMAIN shown
    PROVE  LET r == shown[Len(shown)] IN
           /\ Len(shown) = pinned
           /\ ~(r.issued < manifest.assembled) /\ ~(r.issued > t) /\ ~(r.expires <= t)
           /\ r.decision # "CONDITIONAL" /\ r.decision # "STOP"
BY DEF A!ChainReasons, A!If, A!ReceiptIsCurrent

\* A verified bundle has not reached any of its deadlines (verify_verified_runner_
\* evidence).
LEMMA VerifiedIsInTime ==
    ASSUME NEW b, NEW t \in Int, A!Deadlines(b) \subseteq Int,
           A!Verified(b, A!PinsOf(b), t)
    PROVE  A!NotAfter(b) \in Int /\ t < A!NotAfter(b)
<1>1. ASSUME NEW x \in A!Deadlines(b) PROVE t < x
  BY <1>1 DEF A!Deadlines, A!Verified, A!ChallengeIsCurrent, A!Sealed, A!Current,
      A!AdvisoryIsCurrent, A!Passed
<1>2. A!Deadlines(b) # {}
  BY DEF A!Deadlines
<1>3. Min(A!Deadlines(b)) \in A!Deadlines(b) /\ t < Min(A!Deadlines(b))
  BY <1>1, <1>2, LeastDeadline
<1> QED
  BY <1>3 DEF A!NotAfter, A!Min, Min

\* What an evaluation that accepts has found: the decision it was shown last is the
\* pinned one and a GO, and everything about the manifest is in order
\* (evaluate_repository_acceptance).
LEMMA AcceptedMeans ==
    ASSUME AcceptanceInv, manifest # Nothing, NEW k \in 0..Len(receipts), NEW live \in BOOLEAN,
           A!Evaluate(k, live) = "ACCEPTED"
    PROVE  /\ k = pinned /\ k \in 1..Len(receipts) /\ receipts[k] \in HumanDecisions
           /\ receipts[k].decision = "GO"
           /\ live => tree = manifest.tree
           /\ manifest.assembled <= receipts[k].issued /\ receipts[k].issued <= now
           /\ now < receipts[k].expires /\ now < manifest.expires
           /\ A!Verified(manifest.proof.bundle, A!PinsOf(manifest.proof.bundle), now)
           /\ A!ConsumptionHolds(manifest.proof, now)
           /\ \A check \in Checks : A!CheckSucceeded(manifest.proof.bundle.records[check])
           /\ \A role \in A!Roles : manifest.signed[role] # Nothing
<1>1. PICK shown : shown = SubSeq(receipts, 1, k)
  OBVIOUS
<1>2. receipts \in Seq(HumanDecisions) /\ Len(receipts) \in Nat /\ now \in Nat
  BY DEF AcceptanceInv
<1>3. shown \in Seq(HumanDecisions) /\ Len(shown) = k
      /\ \A i \in 1..k : shown[i] = receipts[i]
  BY <1>1, <1>2, SubSeqProperties
<1>4. PICK disk : disk = IF live THEN tree ELSE manifest.tree
  OBVIOUS
<1>5. PICK reasons : reasons = A!Reasons(shown, disk, now)
  OBVIOUS
<1>6. A!Verdict(reasons, shown) = "ACCEPTED"
  BY <1>1, <1>4, <1>5 DEF A!Evaluate
<1>7. reasons = {}
  BY <1>6 DEF A!Verdict
<1>8. disk = manifest.tree
  BY <1>5, <1>7 DEF A!Reasons, A!If
<1>9. /\ A!ManifestReasons(manifest, now) = {} /\ A!EvidenceReasons(manifest, now) = {}
      /\ A!AttestationReasons(manifest, now) = {}
  BY <1>5, <1>7 DEF A!Reasons
<1>10. shown # <<>> /\ A!ChainReasons(shown, now) = {}
  BY <1>5, <1>7 DEF A!Reasons
<1>11. k \in 1..Len(receipts) /\ Len(shown) \in DOMAIN shown /\ shown[Len(shown)] = receipts[k]
  BY <1>2, <1>3, <1>10
<1>12. /\ k = pinned /\ ~(receipts[k].issued < manifest.assembled)
       /\ ~(receipts[k].issued > now) /\ ~(receipts[k].expires <= now)
       /\ receipts[k].decision # "CONDITIONAL" /\ receipts[k].decision # "STOP"
  BY <1>3, <1>10, <1>11, NothingAgainstChain
<1>13. /\ ~(manifest.expires <= now)
       /\ A!Verified(manifest.proof.bundle, A!PinsOf(manifest.proof.bundle), now)
       /\ A!ConsumptionHolds(manifest.proof, now)
       /\ \A check \in Checks : A!CheckSucceeded(manifest.proof.bundle.records[check])
       /\ \A role \in A!Roles : manifest.signed[role] # Nothing
  BY <1>9, NothingAgainstEvidence
<1>14. receipts[k] \in HumanDecisions
  BY <1>2, <1>11
<1>15. receipts[k].decision = "GO"
  BY <1>12, <1>14 DEF HumanDecisions, A!Decisions
<1>16. /\ receipts[k].issued \in Int /\ receipts[k].expires \in Int
       /\ manifest.assembled \in Int /\ manifest.expires \in Int
  BY <1>14 DEF HumanDecisions, AcceptanceInv, Candidate
<1>17. /\ manifest.assembled <= receipts[k].issued /\ receipts[k].issued <= now
       /\ now < receipts[k].expires /\ now < manifest.expires
  BY <1>2, <1>12, <1>13, <1>16
<1> QED
  BY <1>4, <1>8, <1>11, <1>12, <1>13, <1>14, <1>15, <1>17

\* The invariant says that only the pinned decision is accepted.
LEMMA GoHolds ==
    ASSUME AcceptanceInv
    PROVE  A!GoIsCurrent
<1>1. ASSUME NEW e \in A!Acceptances PROVE e[1] = pinned /\ receipts[pinned].decision = "GO"
  <2>1. manifest # Nothing /\ e[1] \in 0..Len(receipts) /\ e[2] \in BOOLEAN
        /\ A!Evaluate(e[1], e[2]) = "ACCEPTED"
    BY DEF A!Acceptances
  <2> QED
    BY <2>1, AcceptedMeans
<1> QED
  BY <1>1 DEF A!GoIsCurrent

\* The invariant says that an accepted candidate went through its stages in order.
LEMMA ProofHolds ==
    ASSUME AcceptanceInv
    PROVE  A!AcceptanceFollowsProof
<1>1. SUFFICES ASSUME NEW e \in A!Acceptances
      PROVE LET m == manifest
                r == receipts[e[1]]
                attested == {m.signed[role].issued : role \in A!Roles}
            IN /\ m.proof.bundle.tree = m.tree /\ (e[2] => tree = m.tree)
               /\ \A check \in Checks : A!CheckSucceeded(m.proof.bundle.records[check])
               /\ \A end \in A!Ends(m.proof.bundle) : end <= m.proof.at
               /\ \A t \in attested : m.proof.at <= t /\ t <= m.assembled
               /\ m.assembled <= r.issued /\ r.issued <= now
               /\ now < A!Min({r.expires, m.expires, A!NotAfter(m.proof.bundle)})
  BY DEF A!AcceptanceFollowsProof
<1>2. PICK k : k = e[1]
  OBVIOUS
<1>3. manifest # Nothing /\ k \in 0..Len(receipts) /\ e[2] \in BOOLEAN
      /\ A!Evaluate(k, e[2]) = "ACCEPTED"
  BY <1>2 DEF A!Acceptances
<1>4. /\ receipts[k] \in HumanDecisions
      /\ e[2] => tree = manifest.tree
      /\ manifest.assembled <= receipts[k].issued /\ receipts[k].issued <= now
      /\ now < receipts[k].expires /\ now < manifest.expires
      /\ A!Verified(manifest.proof.bundle, A!PinsOf(manifest.proof.bundle), now)
      /\ A!ConsumptionHolds(manifest.proof, now)
      /\ \A check \in Checks : A!CheckSucceeded(manifest.proof.bundle.records[check])
      /\ \A role \in A!Roles : manifest.signed[role] # Nothing
  BY <1>3, AcceptedMeans
<1>5. Candidate(manifest) /\ now \in Nat
  BY <1>3 DEF AcceptanceInv
<1>6. manifest.proof.bundle.tree = manifest.tree
  BY <1>5 DEF Candidate, A!ManifestHolds
<1>7. \A end \in A!Ends(manifest.proof.bundle) : end <= manifest.proof.at
  BY <1>4 DEF A!ConsumptionHolds
<1>8. ASSUME NEW role \in A!Roles
      PROVE  manifest.proof.at <= manifest.signed[role].issued
             /\ manifest.signed[role].issued <= manifest.assembled
  <2>1. A!AttestationHolds(manifest, role)
    BY <1>4, <1>5 DEF Candidate, A!ManifestHolds
  <2> QED
    BY <2>1 DEF A!AttestationHolds, A!ProofTimes
<1>9. A!NotAfter(manifest.proof.bundle) \in Int /\ now < A!NotAfter(manifest.proof.bundle)
  <2>1. A!Deadlines(manifest.proof.bundle) \subseteq Int
    BY <1>5, PartBounds DEF A!AcceptanceBounds, Candidate
  <2> QED
    BY <1>4, <1>5, <2>1, VerifiedIsInTime
<1>10. now < A!Min({receipts[k].expires, manifest.expires, A!NotAfter(manifest.proof.bundle)})
  <2>1. PICK ends : ends = {receipts[k].expires, manifest.expires,
                            A!NotAfter(manifest.proof.bundle)}
    OBVIOUS
  <2>2. ends \subseteq Int /\ ends # {} /\ \A x \in ends : now < x
    BY <1>4, <1>5, <1>9, <2>1 DEF Candidate, HumanDecisions
  <2>3. now \in Int
    BY <1>5
  <2>4. now < Min(ends)
    BY <2>2, <2>3, LeastDeadline
  <2> QED
    BY <2>1, <2>4 DEF A!Min, Min
<1> QED
  BY <1>2, <1>4, <1>6, <1>7, <1>8, <1>10

-----------------------------------------------------------------------------
(* Acceptance among the other parts *)

OfAcceptance == part = "acceptance"

\* The part does not change.
LEMMA AcceptancePart == PartSpec => A!Spec \/ []~OfAcceptance
<1>1. PartInit /\ OfAcceptance => A!Init
  BY DEF PartInit, OfAcceptance
<1>2. [PartNext]_partVars /\ OfAcceptance => OfAcceptance' /\ [A!Next]_(A!vars)
  BY DEF PartNext, partVars, A!vars, acceptanceVars, OfAcceptance
<1>3. [PartNext]_partVars /\ ~OfAcceptance => ~OfAcceptance'
  BY DEF PartNext, partVars, OfAcceptance
<1> QED
  BY <1>1, <1>2, <1>3, PTL DEF PartSpec, A!Spec

\* For any candidates, decisions and clocks, a candidate is accepted only on the
\* decision that the pins hold to be current, and only on a GO
\* (_repository_receipt_authority_reasons).
THEOREM GoCorrect == PartSpec => []GoIsCurrent
<1>1. AcceptanceInv \/ ~OfAcceptance => GoIsCurrent
  BY GoHolds DEF GoIsCurrent, OfAcceptance
<1> QED
  BY <1>1, AcceptancePart, AcceptanceCorrect, PTL

\* An accepted candidate went through its stages in order, on one tree, and nothing it
\* rests on has expired (validate_manifest, evaluate_repository_acceptance).
THEOREM StagesCorrect == PartSpec => []AcceptanceFollowsProof
<1>1. AcceptanceInv \/ ~OfAcceptance => AcceptanceFollowsProof
  BY ProofHolds DEF AcceptanceFollowsProof, OfAcceptance
<1> QED
  BY <1>1, AcceptancePart, AcceptanceCorrect, PTL

-----------------------------------------------------------------------------
(* The authorization of a bootstrap *)

Reports == {P!Report(digest, t) : digest \in DOMAIN EvidenceBundles, t \in P!Time}
IsDated(a) == a.issued \in Int /\ a.expires \in Int

ReadinessInv ==
    /\ now \in Nat
    /\ bundle # Nothing => bundle \in DOMAIN EvidenceBundles
    /\ report # Nothing => report \in Reports
    /\ tco # Nothing => report \in Reports /\ IsDated(tco)
    /\ human # Nothing => IsDated(human)
    /\ permit # Nothing =>
        /\ permit.report \in Reports /\ IsDated(permit)
        /\ IsDated(permit.tco) /\ IsDated(permit.human)

\* Nothing has been signed at first.
LEMMA ReadinessStarts == P!Init => ReadinessInv
BY DEF P!Init, ReadinessInv

\* Whatever is signed is signed of a report that was really made, at a time
\* (evaluate_production_integration_readiness and the three signers).
LEMMA ReadinessSteps ==
    ASSUME ReadinessInv, [P!Next]_(P!vars)
    PROVE  ReadinessInv'
<1>1. ASSUME NEW b \in DOMAIN EvidenceBundles, P!Collect(b) PROVE ReadinessInv'
  BY <1>1 DEF P!Collect, ReadinessInv, IsDated
<1>2. ASSUME NEW t \in P!Time, P!Evaluate(t) PROVE ReadinessInv'
  <2>1. PICK r : r = P!Report(bundle, t)
    OBVIOUS
  <2>2. r \in Reports /\ report' = r
    BY <1>2, <2>1 DEF P!Evaluate, ReadinessInv, Reports
  <2> QED
    BY <1>2, <2>2 DEF P!Evaluate, ReadinessInv, IsDated
<1>3. ASSUME NEW decision, NEW t \in P!Time, NEW life \in Lives
      PROVE  IsDated(P!Signed(decision, t, life))
  <2>1. t \in Int /\ life \in Int
    BY PartBounds DEF P!ReadinessBounds, P!Time
  <2> QED
    BY <2>1 DEF P!Signed, IsDated
<1>4. ASSUME NEW decision, NEW t \in P!Time, NEW life \in Lives, P!Accept(decision, t, life)
      PROVE  ReadinessInv'
  <2>1. PICK q : q = P!Signed(decision, t, life)
    OBVIOUS
  <2>2. IsDated(q) /\ tco' = q
    BY <1>3, <1>4, <2>1 DEF P!Accept
  <2> QED
    BY <1>4, <2>2 DEF P!Accept, ReadinessInv, IsDated
<1>5. ASSUME NEW decision, NEW t \in P!Time, NEW life \in Lives, P!Approve(decision, t, life)
      PROVE  ReadinessInv'
  <2>1. PICK h : h = P!Signed(decision, t, life)
    OBVIOUS
  <2>2. IsDated(h) /\ human' = h
    BY <1>3, <1>5, <2>1 DEF P!Approve
  <2> QED
    BY <1>5, <2>2 DEF P!Approve, ReadinessInv, IsDated
<1>6. ASSUME NEW t \in P!Time, NEW life \in Lives, P!Authorize(t, life) PROVE ReadinessInv'
  <2>1. t \in Int /\ life \in Int
    BY PartBounds DEF P!ReadinessBounds, P!Time
  <2>2. PICK a : a = [report |-> report, tco |-> tco, human |-> human,
                      issued |-> t, expires |-> t + life]
    OBVIOUS
  <2>3. permit' = a /\ a.report \in Reports /\ IsDated(a) /\ IsDated(a.tco) /\ IsDated(a.human)
    BY <1>6, <2>1, <2>2 DEF P!Authorize, ReadinessInv, IsDated
  <2> QED
    BY <1>6, <2>3 DEF P!Authorize, ReadinessInv, IsDated
<1>7. CASE P!Tick
  BY <1>7 DEF P!Tick, ReadinessInv, IsDated
<1>8. CASE UNCHANGED P!vars
  BY <1>8 DEF P!vars, ReadinessInv, IsDated
<1> QED
  BY <1>1, <1>2, <1>4, <1>5, <1>6, <1>7, <1>8 DEF P!Next

\* Whoever signs what and whenever, an authorization is over a report that was made.
THEOREM ReadinessCorrect == P!Spec => []ReadinessInv
BY ReadinessStarts, ReadinessSteps, PTL DEF P!Spec

\* A check against which nothing was found has one piece of evidence, which passed and
\* was good at the time (evaluate_production_integration_readiness).
LEMMA NothingAgainstCheck ==
    ASSUME NEW digest \in DOMAIN EvidenceBundles, NEW t \in Int, NEW check \in P!Required,
           P!Findings(EvidenceBundles[digest], t) = {}
    PROVE  LET b == EvidenceBundles[digest] IN
           /\ t < Plan.expires
           /\ \E i \in DOMAIN b :
                /\ b[i].check = check /\ b[i].provenance = "production_environment"
                /\ b[i].observed <= t /\ t < b[i].expires
                /\ P!FactsPass(check, b[i].facts)
                /\ \A j \in DOMAIN b : b[j].check = check => j = i
<1>1. PICK b : b = EvidenceBundles[digest]
  OBVIOUS
<1>2. IsFiniteSet(DOMAIN b) /\ Plan.expires \in Int
      /\ \A i \in DOMAIN b : /\ b[i].check \in P!Required
            /\ b[i].observed \in Int /\ b[i].expires \in Int
            /\ b[i].provenance \in {"synthetic_contract", "production_environment"}
  <2>1. IsFiniteSet(DOMAIN b) /\ Plan.expires \in Int
    <3>1. P!ReadinessBounds
      BY PartBounds
    <3>2. \A d \in DOMAIN EvidenceBundles : IsFiniteSet(DOMAIN EvidenceBundles[d])
      BY <3>1, Zenon DEF P!ReadinessBounds, P!IsFiniteSet, IsFiniteSet
    <3>3. Plan.expires \in Int
      BY <3>1 DEF P!ReadinessBounds
    <3> QED
      BY <1>1, <3>2, <3>3, Zenon
  <2>2. ASSUME NEW i \in DOMAIN b
        PROVE  /\ b[i].check \in P!Required
               /\ b[i].observed \in Int /\ b[i].expires \in Int
               /\ b[i].provenance \in {"synthetic_contract", "production_environment"}
    BY <1>1, PartBounds DEF P!ReadinessBounds
  <2> QED
    BY <2>1, <2>2
<1>3. P!CheckReasons(b, check, t) = {}
  <2>1. ASSUME NEW x \in P!CheckReasons(b, check, t) PROVE FALSE
    <3>1. <<check, x>> \in {check} \X P!CheckReasons(b, check, t)
      OBVIOUS
    <3>2. <<check, x>> \in P!Findings(b, t)
      BY <3>1 DEF P!Findings
    <3> QED
      BY <1>1, <3>2
  <2> QED
    BY <2>1
<1>4. PICK items : items = {i \in DOMAIN b : b[i].check = check}
  OBVIOUS
<1>5. ~(Plan.expires <= t)
  BY <1>3 DEF P!CheckReasons, P!PlanReasons, P!If
<1>6. items # {} /\ ~(Cardinality(items) > 1)
  <2>1. P!CheckReasons(b, check, t) = P!PlanReasons(t) \cup
            CASE items = {} -> {"MISSING_EVIDENCE"}
              [] Cardinality(items) > 1 ->
                    {"DUPLICATE_EVIDENCE"}
                    \cup P!If(Cardinality({b[i] : i \in items}) > 1, "CONFLICTING_EVIDENCE")
              [] OTHER -> UNION {P!ItemReasons(b, i, t) : i \in items}
    BY <1>4 DEF P!CheckReasons
  <2>2. items # {}
    BY <1>3, <2>1
  <2>3. ~(Cardinality(items) > 1)
    BY <1>3, <2>1, <2>2
  <2> QED
    BY <2>2, <2>3
<1>7. UNION {P!ItemReasons(b, i, t) : i \in items} = {}
  BY <1>3, <1>4, <1>6 DEF P!CheckReasons
<1>8. \E i : items = {i}
  <2>1. IsFiniteSet(items)
    BY <1>2, <1>4, FS_Subset
  <2>2. Cardinality(items) \in Nat /\ Cardinality(items) # 0
    BY <1>6, <2>1, FS_CardinalityType, FS_EmptySet
  <2>3. Cardinality(items) = 1
    BY <1>6, <2>2
  <2> QED
    BY <2>1, <2>3, FS_Singleton
<1>9. PICK i : items = {i}
  BY <1>8
<1>10. i \in DOMAIN b /\ b[i].check = check /\ \A j \in DOMAIN b : b[j].check = check => j = i
  BY <1>4, <1>9
<1>11. P!ItemReasons(b, i, t) = {}
  BY <1>7, <1>9
<1>12. /\ b[i].provenance # "synthetic_contract" /\ ~(b[i].observed > t)
       /\ ~(b[i].expires <= t) /\ P!FactsPass(check, b[i].facts)
  BY <1>10, <1>11 DEF P!ItemReasons, P!If
<1> QED
  BY <1>1, <1>2, <1>5, <1>10, <1>12

\* A ready report found nothing, and ends no later than the plan and its evidence.
LEMMA ReadyReport ==
    ASSUME NEW digest \in DOMAIN EvidenceBundles, NEW t \in P!Time, NEW r,
           r = P!Report(digest, t), r.decision = "READY_FOR_HUMAN_GATE"
    PROVE  /\ r.bundle = digest /\ r.at = t /\ t \in Int /\ r.expires \in Int
           /\ P!Findings(EvidenceBundles[digest], t) = {}
           /\ \A i \in DOMAIN EvidenceBundles[digest] :
                r.expires <= EvidenceBundles[digest][i].expires
<1>1. PICK b : b = EvidenceBundles[digest]
  OBVIOUS
<1>2. t \in Int /\ Plan.expires \in Int /\ Ttl.report \in Nat \ {0}
      /\ \A i \in DOMAIN b : b[i].check \in P!Required /\ b[i].expires \in Int
  BY <1>1, PartBounds DEF P!ReadinessBounds, P!Time
<1>3. P!Findings(b, t) = {}
  BY <1>1 DEF P!Report
<1>4. r.bundle = digest /\ r.at = t /\ r.expires = P!ReadyUntil(b, t)
  BY <1>1, <1>3 DEF P!Report
<1>5. ASSUME NEW i \in DOMAIN b PROVE t < b[i].expires /\ t < Plan.expires
  <2>1. b[i].check \in P!Required
    BY <1>2
  <2> QED
    BY <1>1, <1>2, <1>3, <2>1, NothingAgainstCheck
<1>6. t < Plan.expires
  <2>1. P!Required # {}
    BY DEF P!Required, P!Fields
  <2> QED
    BY <1>1, <1>2, <1>3, <2>1, NothingAgainstCheck
<1>7. PICK ends : ends = {b[i].expires : i \in DOMAIN b} \cup {Plan.expires, t + Ttl.report}
  OBVIOUS
<1>8. ends \subseteq Int /\ ends # {} /\ \A x \in ends : t < x
  BY <1>2, <1>5, <1>6, <1>7
<1>9. Min(ends) \in ends /\ \A x \in ends : Min(ends) <= x
  BY <1>2, <1>8, LeastDeadline
<1>10. r.expires = Min(ends)
  BY <1>4, <1>7 DEF P!ReadyUntil, P!Min, Min
<1> QED
  BY <1>1, <1>2, <1>3, <1>4, <1>7, <1>8, <1>9, <1>10

\* Two times are both in order with the later or the earlier of them.
LEMMA EarlierAndLater ==
    ASSUME NEW x \in Int, NEW y \in Int
    PROVE  /\ P!Min({x, y}) = IF x <= y THEN x ELSE y
           /\ P!Max({x, y}) = IF x <= y THEN y ELSE x
BY DEF P!Min, P!Max

\* The invariant says that an authorization that verifies rests on all of its inputs.
LEMMA InputsHold ==
    ASSUME ReadinessInv
    PROVE  P!AuthorizationNeverOutlivesItsInputs
<1>1. SUFFICES ASSUME permit # Nothing, P!Verifies(permit, now)
      PROVE LET r == permit.report
                evidence == EvidenceBundles[r.bundle]
                ends == {permit.expires, permit.tco.expires, permit.human.expires, r.expires,
                         Plan.expires}
            IN /\ r.at <= P!Min({permit.tco.issued, permit.human.issued})
               /\ P!Max({permit.tco.issued, permit.human.issued}) <= permit.issued
               /\ \A e \in ends : now < e
               /\ \A check \in P!Required : \E i \in DOMAIN evidence :
                    LET e == evidence[i] IN
                    /\ e.check = check /\ e.provenance = "production_environment"
                    /\ e.observed <= r.at /\ now < e.expires
                    /\ P!FactsPass(check, e.facts)
                    /\ \A j \in DOMAIN evidence : evidence[j].check = check => j = i
  BY DEF P!AuthorizationNeverOutlivesItsInputs
<1>2. PICK a : a = permit
  OBVIOUS
<1>3. PICK r : r = a.report
  OBVIOUS
<1>4. PICK t : t = now
  OBVIOUS
<1>5. t \in Nat /\ r \in Reports /\ IsDated(a) /\ IsDated(a.tco) /\ IsDated(a.human)
  BY <1>1, <1>2, <1>3, <1>4 DEF ReadinessInv
<1>6. /\ a.issued \in Int /\ a.expires \in Int /\ a.tco.issued \in Int /\ a.tco.expires \in Int
      /\ a.human.issued \in Int /\ a.human.expires \in Int
  BY <1>5 DEF IsDated
<1>7. PICK digest \in DOMAIN EvidenceBundles, at \in P!Time : r = P!Report(digest, at)
  BY <1>5 DEF Reports
<1>8. P!InputsHold(r, a.tco, a.human, t, a.issued, a.expires) /\ P!Current(a, t)
  BY <1>1, <1>2, <1>3, <1>4 DEF P!Verifies
<1>9. r.decision = "READY_FOR_HUMAN_GATE"
  BY <1>8 DEF P!InputsHold
<1>10. /\ r.bundle = digest /\ r.at = at /\ at \in Int /\ r.expires \in Int
       /\ P!Findings(EvidenceBundles[digest], at) = {}
       /\ \A i \in DOMAIN EvidenceBundles[digest] :
            r.expires <= EvidenceBundles[digest][i].expires
  BY <1>7, <1>9, ReadyReport
<1>11. /\ t < a.expires /\ t < a.tco.expires /\ t < a.human.expires /\ t < Plan.expires
       /\ Plan.expires \in Int
  BY <1>8, PartBounds DEF P!InputsHold, P!Current, P!ReadinessBounds
<1>12. t < r.expires
  <2>1. PICK ends : ends = {r.expires, Plan.expires, a.tco.expires, a.human.expires}
    OBVIOUS
  <2>2. ends \subseteq Int /\ ends # {}
    BY <1>6, <1>10, <1>11, <2>1
  <2>3. \E x \in ends : \A y \in ends : x <= y
    BY <1>6, <1>10, <1>11, <2>1
  <2>4. Min(ends) \in ends /\ \A y \in ends : Min(ends) <= y
    BY <2>3 DEF Min
  <2>5. a.expires <= Min(ends)
    BY <1>8, <2>1 DEF P!InputsHold, P!Min, Min
  <2>6. Min(ends) <= r.expires /\ Min(ends) \in Int
    BY <2>1, <2>2, <2>4
  <2> QED
    BY <1>5, <1>6, <1>10, <1>11, <2>5, <2>6
<1>13. /\ r.at <= a.tco.issued /\ a.tco.issued <= a.issued
       /\ r.at <= a.human.issued /\ a.human.issued <= a.issued
  BY <1>8 DEF P!InputsHold
<1>14. /\ r.at <= P!Min({a.tco.issued, a.human.issued})
       /\ P!Max({a.tco.issued, a.human.issued}) <= a.issued
  BY <1>6, <1>13, EarlierAndLater
<1>15. ASSUME NEW check \in P!Required
       PROVE  \E i \in DOMAIN EvidenceBundles[digest] :
                LET e == EvidenceBundles[digest][i] IN
                /\ e.check = check /\ e.provenance = "production_environment"
                /\ e.observed <= at /\ t < e.expires
                /\ P!FactsPass(check, e.facts)
                /\ \A j \in DOMAIN EvidenceBundles[digest] :
                    EvidenceBundles[digest][j].check = check => j = i
  <2>1. PICK i \in DOMAIN EvidenceBundles[digest] :
            /\ EvidenceBundles[digest][i].check = check
            /\ EvidenceBundles[digest][i].provenance = "production_environment"
            /\ EvidenceBundles[digest][i].observed <= at
            /\ P!FactsPass(check, EvidenceBundles[digest][i].facts)
            /\ \A j \in DOMAIN EvidenceBundles[digest] :
                EvidenceBundles[digest][j].check = check => j = i
    BY <1>10, NothingAgainstCheck
  <2>2. EvidenceBundles[digest][i].expires \in Int
    BY PartBounds DEF P!ReadinessBounds
  <2>3. t < EvidenceBundles[digest][i].expires
    BY <1>5, <1>10, <1>12, <2>2
  <2> QED
    BY <2>1, <2>3
<1>16. \A e \in {a.expires, a.tco.expires, a.human.expires, r.expires, Plan.expires} : t < e
  BY <1>11, <1>12
<1> QED
  BY <1>2, <1>3, <1>4, <1>10, <1>14, <1>15, <1>16

-----------------------------------------------------------------------------
(* Authorization among the other parts *)

OfReadiness == part = "readiness"

\* The part does not change.
LEMMA ReadinessPart == PartSpec => P!Spec \/ []~OfReadiness
<1>1. PartInit /\ OfReadiness => P!Init
  BY DEF PartInit, OfReadiness
<1>2. [PartNext]_partVars /\ OfReadiness => OfReadiness' /\ [P!Next]_(P!vars)
  BY DEF PartNext, partVars, P!vars, readinessVars, OfReadiness
<1>3. [PartNext]_partVars /\ ~OfReadiness => ~OfReadiness'
  BY DEF PartNext, partVars, OfReadiness
<1> QED
  BY <1>1, <1>2, <1>3, PTL DEF PartSpec, P!Spec

\* For any evidence, signers and clocks, an authorization that verifies now was issued
\* over a report that both signers had seen, on evidence for every check that passed
\* and is still good, although the verifier evaluates the evidence again only at the
\* report's own time (_validate_authorization_inputs).
THEOREM AuthorizationCorrect == PartSpec => []AuthorizationNeverOutlivesItsInputs
<1>1. ReadinessInv \/ ~OfReadiness => AuthorizationNeverOutlivesItsInputs
  BY InputsHold DEF AuthorizationNeverOutlivesItsInputs, OfReadiness
<1> QED
  BY <1>1, ReadinessPart, ReadinessCorrect, PTL

-----------------------------------------------------------------------------
(* The reset of a stop: the invariant follows a job from the checks that       *)
(* append makes before it waits for the lock to the row it becomes; the anchor *)
(* is at the last row or at the one it was at before that row was committed.   *)

LedgerPhases == {"idle", "waiting", "open", "recorded"}
Actions == {"keep_stop", "request_human_disable", "manual_remediation"}
LedgerReports == [facts : SignedFacts, action : Actions, at : L!Time]
Jobs == [facts : SignedFacts, report : LedgerReports, at : L!Time]
LedgerRecords == [revision : Nat, previous : Nat, facts : SignedFacts, report : LedgerReports,
                  at : L!Time]

LedgerTypes ==
    /\ now \in Nat /\ rows \in Seq(LedgerRecords) /\ prior \in Nat /\ anchor \in Nat
    /\ pc \in [Procs -> LedgerPhases] /\ job \in [Procs -> Jobs \cup {L!NoJob}]

\* What append checked of a job, and a row still shows.
Checked(j) ==
    /\ L!Authentic(j.facts) /\ j.report.facts = j.facts
    /\ j.facts.observed <= j.report.at /\ j.report.at <= j.at
    /\ j.at < j.facts.expires

JobsAreChecked == \A p \in Procs : pc[p] # "idle" => job[p] \in Jobs /\ Checked(job[p])
RowsAreChecked == \A i \in DOMAIN rows :
    rows[i].revision = i /\ rows[i].previous = i - 1 /\ Checked(rows[i])
ResultsAreDistinct == \A i \in DOMAIN rows, k \in DOMAIN rows :
    rows[i].facts.result = rows[k].facts.result => i = k
AnchorIsNear == prior <= Len(rows) /\ L!Recoverable
LockIsHeld == \A p \in Procs : pc[p] \in {"open", "recorded"} <=> holder = p

LedgerInv ==
    /\ LedgerTypes /\ JobsAreChecked /\ RowsAreChecked /\ ResultsAreDistinct
    /\ AnchorIsNear /\ LockIsHeld

\* The greater of two revisions, as the anchor service keeps it (the anchor's advance).
LEMMA GreaterOfTwo ==
    ASSUME NEW a \in Nat, NEW b \in Nat, a <= b
    PROVE  L!Max({a, b}) = b
BY DEF L!Max

\* A ledger whose rows were all checked passes its own integrity check
\* (_assert_integrity).
LEMMA CheckedRowsChain == RowsAreChecked => L!ChainHolds
BY DEF RowsAreChecked, L!ChainHolds, Checked

\* The anchor is never past the last row, so what the service keeps after it is
\* told of the last row is the last row (append, _assert_integrity).
LEMMA AnchorReaches ==
    ASSUME LedgerTypes, AnchorIsNear, L!Writes(Len(rows))
    PROVE  anchor' = Len(rows) /\ anchor <= anchor'
<1>1. Len(rows) \in Nat /\ anchor \in Nat /\ anchor <= Len(rows)
  BY DEF LedgerTypes, AnchorIsNear, L!Recoverable, L!Anchored
<1> QED
  BY <1>1, GreaterOfTwo DEF L!Writes

\* A created ledger is empty and anchored (create).
LEMMA LedgerInit ==
    ASSUME L!Init
    PROVE  LedgerInv
BY PartBounds DEF L!LedgerBounds, L!Init, LedgerInv, LedgerTypes, JobsAreChecked, RowsAreChecked,
    ResultsAreDistinct, AnchorIsNear, L!Recoverable, L!Anchored, LockIsHeld, LedgerPhases

\* Asking records a job whose facts, report and time were checked (append).
LEMMA AskStep ==
    ASSUME LedgerInv, NEW p \in Procs, NEW f \in SignedFacts,
           NEW evaluated \in L!Time, NEW t \in L!Time, L!Ask(p, f, evaluated, t)
    PROVE  LedgerInv'
<1> DEFINE j == [facts |-> f, report |-> L!Report(f, evaluated), at |-> t]
<1>1. L!Report(f, evaluated) \in LedgerReports
  <2>1. L!Action(f) \in Actions
    BY DEF L!Action, Actions
  <2> QED
    BY <2>1 DEF L!Report, LedgerReports
<1>2. j \in Jobs
  BY <1>1 DEF Jobs
<1>3. Checked(j)
  BY DEF L!Ask, L!Evaluable, L!FactsVerify, Checked, L!Report
<1>4. job' = [job EXCEPT ![p] = j] /\ pc' = [pc EXCEPT ![p] = "waiting"]
      /\ pc[p] = "idle" /\ UNCHANGED <<now, rows, prior, anchor, holder>>
  BY DEF L!Ask, L!Goes, L!store
<1> HIDE DEF j
<1>5. LedgerTypes'
  BY <1>2, <1>4 DEF LedgerInv, LedgerTypes, LedgerPhases
<1>6. JobsAreChecked'
  BY <1>2, <1>3, <1>4 DEF LedgerInv, LedgerTypes, JobsAreChecked, Checked, L!Authentic
<1>7. (RowsAreChecked /\ ResultsAreDistinct /\ AnchorIsNear)'
  BY <1>4 DEF LedgerInv, RowsAreChecked, ResultsAreDistinct, AnchorIsNear, L!Recoverable,
    L!Anchored, Checked, L!Authentic
<1>8. LockIsHeld'
  BY <1>4 DEF LedgerInv, LedgerTypes, LockIsHeld
<1> QED
  BY <1>5, <1>6, <1>7, <1>8 DEF LedgerInv

\* A step that leaves the rows alone and moves one process keeps the invariant when
\* it takes or leaves the lock with its phase, and the anchor stays or reaches the
\* last row (Lock, Recover, Replay, Refuse, Return and a crash).
LEMMA MoveStep ==
    ASSUME LedgerInv, NEW p \in Procs, NEW phase \in LedgerPhases,
           pc' = [pc EXCEPT ![p] = phase],
           phase = "idle" \/ (job' = job /\ pc[p] # "idle"),
           phase = "idle" => job' = [job EXCEPT ![p] = L!NoJob],
           holder' = p <=> phase \in {"open", "recorded"},
           \A q \in Procs \ {p} : holder' = q <=> holder = q,
           UNCHANGED <<now, rows, prior>>,
           anchor' = anchor \/ anchor' = Len(rows)
    PROVE  LedgerInv'
<1>1. LedgerTypes'
  BY DEF LedgerInv, LedgerTypes, JobsAreChecked
<1>2. JobsAreChecked'
  BY DEF LedgerInv, LedgerTypes, JobsAreChecked, Checked, L!Authentic
<1>3. (RowsAreChecked /\ ResultsAreDistinct /\ AnchorIsNear)'
  BY DEF LedgerInv, LedgerTypes, RowsAreChecked, ResultsAreDistinct, AnchorIsNear,
    L!Recoverable, L!Anchored, Checked, L!Authentic
<1>4. LockIsHeld'
  BY DEF LedgerInv, LedgerTypes, LockIsHeld
<1> QED
  BY <1>1, <1>2, <1>3, <1>4 DEF LedgerInv

\* Committing appends the job's row, of a result that has none, to an anchored
\* ledger (append).
LEMMA CommitStep ==
    ASSUME LedgerInv, NEW p \in Procs, L!Commit(p)
    PROVE  LedgerInv'
<1> DEFINE r == L!Record(job[p])
<1>1. /\ rows' = Append(rows, r) /\ prior' = anchor /\ anchor = Len(rows)
      /\ pc' = [pc EXCEPT ![p] = "recorded"] /\ pc[p] = "open"
      /\ UNCHANGED <<now, anchor, holder, job>>
  BY DEF L!Commit, L!Goes, L!Anchored
<1>2. job[p] \in Jobs /\ Checked(job[p])
  BY <1>1 DEF LedgerInv, JobsAreChecked
<1>3. rows \in Seq(LedgerRecords) /\ Len(rows) \in Nat
  BY DEF LedgerInv, LedgerTypes
<1>4. r \in LedgerRecords /\ Checked(r) /\ r.revision = Len(rows) + 1 /\ r.previous = Len(rows)
      /\ r.facts = job[p].facts
  BY <1>2, <1>3 DEF L!Record, LedgerRecords, Jobs, Checked, L!Authentic
<1>5. \A i \in DOMAIN rows : rows[i].facts.result # r.facts.result
  BY <1>4 DEF L!Commit, L!ResultIsNew
<1> HIDE DEF r
<1>6. /\ rows' \in Seq(LedgerRecords) /\ Len(rows') = Len(rows) + 1
      /\ DOMAIN rows' = DOMAIN rows \cup {Len(rows) + 1}
      /\ rows'[Len(rows) + 1] = r
      /\ \A i \in DOMAIN rows : rows'[i] = rows[i] /\ i # Len(rows) + 1
  BY <1>1, <1>3, <1>4
<1>7. LedgerTypes'
  BY <1>1, <1>6 DEF LedgerInv, LedgerTypes, LedgerPhases
<1>8. JobsAreChecked'
  BY <1>1 DEF LedgerInv, LedgerTypes, JobsAreChecked, Checked, L!Authentic
<1>9. RowsAreChecked'
  BY <1>3, <1>4, <1>6 DEF LedgerInv, RowsAreChecked, Checked, L!Authentic
<1>10. ResultsAreDistinct'
  BY <1>3, <1>5, <1>6 DEF LedgerInv, ResultsAreDistinct
<1>11. AnchorIsNear'
  BY <1>1, <1>3, <1>6 DEF AnchorIsNear, L!Recoverable, L!Anchored
<1>12. LockIsHeld'
  BY <1>1 DEF LedgerInv, LedgerTypes, LockIsHeld
<1> QED
  BY <1>7, <1>8, <1>9, <1>10, <1>11, <1>12 DEF LedgerInv

\* Every step of the ledger keeps the invariant.
LEMMA LedgerStep ==
    ASSUME LedgerInv, [L!Next]_(L!vars)
    PROVE  LedgerInv'
<1> USE DEF LedgerInv
<1>1. ASSUME NEW p \in Procs, NEW f \in SignedFacts, NEW evaluated \in L!Time, NEW t \in L!Time,
             L!Ask(p, f, evaluated, t)
      PROVE  LedgerInv'
  BY <1>1, AskStep
<1>2. ASSUME NEW p \in Procs, L!Lock(p) PROVE LedgerInv'
  <2>1. /\ pc' = [pc EXCEPT ![p] = "open"] /\ pc[p] = "waiting" /\ holder = None
        /\ holder' = p /\ UNCHANGED <<now, rows, prior, anchor, job>>
    BY <1>2 DEF L!Lock, L!Goes, L!store
  <2>2. \A q \in Procs \ {p} : holder' = q <=> holder = q
    BY <2>1, PartBounds DEF L!LedgerBounds
  <2> HIDE DEF LedgerInv
  <2> QED
    BY <2>1, <2>2, MoveStep DEF LedgerPhases
<1>3. ASSUME NEW p \in Procs, L!Recover(p) PROVE LedgerInv'
  <2>1. /\ pc' = [pc EXCEPT ![p] = "open"] /\ pc[p] = "open" /\ holder = p
        /\ UNCHANGED <<now, rows, prior, holder, job>> /\ anchor' = Len(rows)
    BY <1>3 DEF L!Recover, L!store, LockIsHeld, LedgerTypes
  <2> HIDE DEF LedgerInv
  <2> QED
    BY <2>1, MoveStep DEF LedgerPhases
<1>4. ASSUME NEW p \in Procs, pc[p] \in {"open", "recorded"}, L!Leaves(p),
             UNCHANGED <<now, rows, prior>>, anchor' = anchor \/ anchor' = Len(rows)
      PROVE  LedgerInv'
  <2>1. /\ pc' = [pc EXCEPT ![p] = "idle"] /\ job' = [job EXCEPT ![p] = L!NoJob]
        /\ holder = p /\ holder' = None
    BY <1>4 DEF L!Leaves, L!Goes, LockIsHeld
  <2>2. holder' # p /\ \A q \in Procs \ {p} : holder' = q <=> holder = q
    BY <2>1, PartBounds DEF L!LedgerBounds
  <2> HIDE DEF LedgerInv
  <2> QED
    BY <1>4, <2>1, <2>2, MoveStep DEF LedgerPhases
<1>5. ASSUME NEW p \in Procs, L!Fail(p) PROVE LedgerInv'
  <2>1. /\ pc' = [pc EXCEPT ![p] = "idle"] /\ job' = [job EXCEPT ![p] = L!NoJob]
        /\ holder' = (IF holder = p THEN None ELSE holder)
        /\ UNCHANGED <<now, rows, prior>>
    BY <1>5 DEF L!Fail, L!Goes, L!store
  <2>2. anchor' = anchor \/ anchor' = Len(rows)
    BY <1>5, AnchorReaches DEF L!Fail
  <2>3. holder' # p /\ \A q \in Procs \ {p} : holder' = q <=> holder = q
    BY <2>1, PartBounds DEF L!LedgerBounds
  <2> HIDE DEF LedgerInv
  <2> QED
    BY <2>1, <2>2, <2>3, MoveStep DEF LedgerPhases
<1>6. ASSUME UNCHANGED <<rows, prior, holder, pc, job>>, now' \in Nat,
             anchor' = anchor \/ anchor' = Len(rows)
      PROVE  LedgerInv'
  BY <1>6 DEF LedgerTypes, JobsAreChecked, RowsAreChecked, ResultsAreDistinct,
    AnchorIsNear, L!Recoverable, L!Anchored, LockIsHeld, Checked, L!Authentic
<1> HIDE DEF LedgerInv
<1>7. now \in Nat
  BY DEF LedgerInv, LedgerTypes
<1>8. CASE \E p \in Procs :
        \/ \E f \in SignedFacts, evaluated \in L!Time, t \in L!Time : L!Ask(p, f, evaluated, t)
        \/ L!Lock(p) \/ L!Recover(p) \/ L!Commit(p) \/ L!Fail(p)
  BY <1>1, <1>2, <1>3, <1>5, <1>8, CommitStep
<1>9. CASE \E p \in Procs : L!Replay(p) \/ L!Refuse(p) \/ L!Return(p)
  BY <1>4, <1>9 DEF L!Replay, L!Refuse, L!Return, L!store
<1>10. CASE L!Inspect \/ L!Tick \/ UNCHANGED L!vars
  BY <1>6, <1>7, <1>10 DEF L!Inspect, L!Tick, L!vars, L!store
<1> QED
  BY <1>8, <1>9, <1>10 DEF L!Next

\* In every reachable state of the ledger the inductive invariant holds.
THEOREM LedgerIsSound == L!Spec => []LedgerInv
BY LedgerInit, LedgerStep, PTL DEF L!Spec

\* The invariant says that what verifies for a reset is earned.
LEMMA ResetHolds ==
    ASSUME LedgerInv
    PROVE  L!ResetIsEarned
<1>1. L!Recoverable
  BY DEF LedgerInv, AnchorIsNear
<1>2. ASSUME NEW i \in DOMAIN rows, NEW stop \in Stops, NEW t \in 0..now,
             L!Verifies(i, stop, t)
      PROVE  /\ \A k \in DOMAIN rows : rows[k].facts.result = rows[i].facts.result => k = i
             /\ rows[i].facts.provider = "not_applied" /\ rows[i].facts.stop = stop
             /\ rows[i].facts.observed <= rows[i].report.at
             /\ rows[i].report.at <= rows[i].at
             /\ rows[i].at < rows[i].facts.expires /\ t < rows[i].facts.expires
  BY <1>2 DEF LedgerInv, ResultsAreDistinct, RowsAreChecked, Checked, L!Verifies, L!FactsVerify
<1> QED
  BY <1>1, <1>2 DEF L!ResetIsEarned

-----------------------------------------------------------------------------
(* The ledger among the other parts *)

OfLedger == part = "ledger"

\* The part does not change.
LEMMA LedgerPart == PartSpec => L!Spec \/ []~OfLedger
<1>1. PartInit /\ OfLedger => L!Init
  BY DEF PartInit, OfLedger
<1>2. [PartNext]_partVars /\ OfLedger => OfLedger' /\ [L!Next]_(L!vars)
  BY DEF PartNext, partVars, L!vars, storesVars, OfLedger
<1>3. [PartNext]_partVars /\ ~OfLedger => ~OfLedger'
  BY DEF PartNext, partVars, OfLedger
<1> QED
  BY <1>1, <1>2, <1>3, PTL DEF PartSpec, L!Spec

\* A stop is reset only on the one record of its P13 result, checked in order and
\* still good, and no crash leaves a ledger that could not be recovered (append and
\* verifies_for_reset), for every number of processes and any facts and times.
THEOREM ResetsAreEarned == PartSpec => []ResetIsEarned
<1>1. LedgerInv \/ ~OfLedger => ResetIsEarned
  BY ResetHolds DEF ResetIsEarned, OfLedger
<1> QED
  BY <1>1, LedgerPart, LedgerIsSound, PTL
=============================================================================
