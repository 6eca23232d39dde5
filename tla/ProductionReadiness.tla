-------------------------- MODULE ProductionReadiness --------------------------
(***************************************************************************)
(* The way to a production bootstrap authorization in saas_preflight's     *)
(* P15: evidence for every required check, a readiness report on it, the   *)
(* TCO/QA attestation, the human approval and the controller's             *)
(* authorization, which whoever activates the adapter verifies again.      *)
(*                                                                         *)
(* Artifacts hold what they bind. Everybody signs by a clock of his own,   *)
(* which may lag, and may sign again.                                      *)
(***************************************************************************)
EXTENDS IntegrationFacts, FiniteSets, FiniteSetsExt, Sequences

CONSTANTS
    EvidenceBundles, \* evidence that may be put together: a sequence for each digest
    Plan,            \* the plan's notBefore and expires
    Ttl,             \* how long evidence, reports and so on may be good for
    Nothing,         \* an artifact that is missing
    Lag,             \* a signer's clock may lag behind by this much
    MaxTime,         \* bound: time stops here
    Lives,           \* bound: how long a signer lets an artifact live
    MaxArtifacts     \* bound: reports, attestations and authorizations

\* What the constants have to be; ProductionIntegrationEvidence is of one of the
\* checks, and of one of two provenances.
ReadinessBounds ==
    /\ Lag \in Nat /\ MaxTime \in Nat /\ MaxArtifacts \in Nat /\ Lives \subseteq Int
    /\ Plan.notBefore \in Int /\ Plan.expires \in Int /\ Ttl.report \in Nat \ {0}
    /\ \A b \in DOMAIN EvidenceBundles :
        /\ IsFiniteSet(DOMAIN EvidenceBundles[b])
        /\ \A i \in DOMAIN EvidenceBundles[b] : LET e == EvidenceBundles[b][i] IN
            /\ e.check \in Required /\ e.observed \in Int /\ e.expires \in Int
            /\ e.provenance \in {"synthetic_contract", "production_environment"}

VARIABLES
    now,      \* true time
    bundle,   \* the digest of the evidence bundle
    report,   \* the newest readiness report on it
    tco,      \* the newest TCO/QA attestation
    human,    \* the newest human approval
    permit,   \* the newest bootstrap authorization
    made      \* how many artifacts were made

vars == <<now, bundle, report, tco, human, permit, made>>

Time == 0..MaxTime
Reading == {t \in Time : t <= now /\ now <= t + Lag}

-----------------------------------------------------------------------------
(* evaluate_production_integration_readiness *)

\* ProductionIntegrationEvidence
EvidenceHolds(e) == e.observed < e.expires /\ FactsHold(e.check, e.facts)

\* _maximum_check_ttl_seconds
TtlOf(check) ==
    CASE check \in {"external_monotonic_anchor", "shared_durable_store_fencing",
                    "trusted_clock"} -> Ttl.live
      [] check \in {"backup_restore", "rollback_disable"} -> Ttl.recovery
      [] OTHER -> Ttl.evidence

\* _evidence_matches_requirement; "bound": to its requirement in this environment.
MatchesRequirement(e) == e.bound /\ e.role = SignerOf[e.check]

\* _verify_signed_hash against _verification_key_for_check
SignatureHolds(e) == e.role = SignerOf[e.check] /\ e.signer = SignerOf[e.check]

If(condition, reason) == IF condition THEN {reason} ELSE {}

PlanReasons(t) ==
    If(Plan.notBefore > t, "PLAN_FUTURE") \cup If(Plan.expires <= t, "PLAN_EXPIRED")

ItemReasons(b, i, t) == LET e == b[i] IN
    If(\E j \in DOMAIN b : j # i /\ b[j].id = e.id, "DUPLICATE_EVIDENCE")
    \cup If(e.provenance = "synthetic_contract", "SYNTHETIC_EVIDENCE")
    \cup If(~MatchesRequirement(e), "REQUIREMENT_MISMATCH")
    \cup If(~SignatureHolds(e), "EVIDENCE_SIGNATURE_INVALID")
    \cup If(e.observed > t, "EVIDENCE_FUTURE")
    \cup If(e.expires <= t, "EVIDENCE_EXPIRED")
    \cup If(e.expires - e.observed > TtlOf(e.check), "EVIDENCE_TTL_EXCEEDED")
    \cup If(~FactsPass(e.check, e.facts), "CHECK_FAILED")

\* Two items for one check are held against it whatever they say.
CheckReasons(b, check, t) == LET items == {i \in DOMAIN b : b[i].check = check} IN
    PlanReasons(t) \cup
    CASE items = {} -> {"MISSING_EVIDENCE"}
      [] Cardinality(items) > 1 ->
            {"DUPLICATE_EVIDENCE"}
            \cup If(Cardinality({b[i] : i \in items}) > 1, "CONFLICTING_EVIDENCE")
      [] OTHER -> UNION {ItemReasons(b, i, t) : i \in items}

Findings(b, t) == UNION {{check} \X CheckReasons(b, check, t) : check \in Required}

\* A report that is ready ends no later than anything it rests on.
ReadyUntilPlanEnds(b, t) == Min({Plan.expires, t + Ttl.report})
ReadyUntil(b, t) ==
    Min({b[i].expires : i \in DOMAIN b} \cup {Plan.expires, t + Ttl.report})

Report(digest, t) == LET b == EvidenceBundles[digest]
                         findings == Findings(b, t) IN
    IF findings = {}
    THEN [bundle |-> digest, at |-> t, decision |-> "READY_FOR_HUMAN_GATE",
          findings |-> {}, expires |-> ReadyUntil(b, t)]
    ELSE [bundle |-> digest, at |-> t, decision |-> "STOP", findings |-> findings, expires |-> t]

-----------------------------------------------------------------------------
(* _validate_authorization_inputs: at time t, for an authorization issued at  *)
(* "issued" that is to expire at "until"                                      *)

Current(a, t) == a.issued <= t /\ t < a.expires
Short(a, ttl) == a.expires - a.issued <= ttl

InputsHold(r, q, h, t, issued, until) ==
    /\ Plan.notBefore <= t /\ t < Plan.expires
    /\ r.decision = "READY_FOR_HUMAN_GATE"
    /\ q.report = r /\ h.report = r
    /\ q.decision = "accept" /\ h.decision = "approve"
    /\ Current(q, t) /\ Current(h, t)
    /\ Short(q, Ttl.tco) /\ Short(h, Ttl.human)
    /\ r.at <= q.issued /\ q.issued <= issued
    /\ r.at <= h.issued /\ h.issued <= issued
    /\ issued <= t /\ t < until
    /\ until <= Min({r.expires, Plan.expires, q.expires, h.expires})
    /\ until - issued <= Ttl.authorization
    /\ r = Report(r.bundle, r.at)

\* verify_production_bootstrap_authorization by a reader whose pins name this very
\* authorization
Verifies(a, t) ==
    /\ InputsHold(a.report, a.tco, a.human, t, a.issued, a.expires)
    /\ Current(a, t)

-----------------------------------------------------------------------------
(* Actions *)

Makes == made < MaxArtifacts /\ made' = made + 1

\* build_production_integration_bundle
Collect(b) ==
    /\ bundle = Nothing
    /\ \A i \in DOMAIN EvidenceBundles[b] : EvidenceHolds(EvidenceBundles[b][i])
    /\ bundle' = b
    /\ UNCHANGED <<now, report, tco, human, permit, made>>

Evaluate(t) ==
    /\ bundle # Nothing /\ t \in Reading /\ Makes
    /\ report' = Report(bundle, t)
    /\ UNCHANGED <<now, bundle, tco, human, permit>>

\* sign_production_tco_qa_attestation, sign_production_human_environment_approval:
\* of whatever report is shown to the signer.
Signed(decision, t, life) ==
    [report |-> report, decision |-> decision, issued |-> t, expires |-> t + life]

Accept(decision, t, life) ==
    /\ report # Nothing /\ t \in Reading /\ Makes
    /\ tco' = Signed(decision, t, life)
    /\ UNCHANGED <<now, bundle, report, human, permit>>

Approve(decision, t, life) ==
    /\ report # Nothing /\ t \in Reading /\ Makes
    /\ human' = Signed(decision, t, life)
    /\ UNCHANGED <<now, bundle, report, tco, permit>>

\* authorize_production_bootstrap, at the controller's own time
Authorize(t, life) ==
    /\ tco # Nothing /\ human # Nothing /\ t \in Reading /\ Makes
    /\ InputsHold(report, tco, human, t, t, t + life)
    /\ permit' = [report |-> report, tco |-> tco, human |-> human,
                  issued |-> t, expires |-> t + life]
    /\ UNCHANGED <<now, bundle, report, tco, human>>

Tick ==
    /\ now < MaxTime /\ now' = now + 1
    /\ UNCHANGED <<bundle, report, tco, human, permit, made>>

Init ==
    /\ now = 0 /\ bundle = Nothing /\ report = Nothing
    /\ tco = Nothing /\ human = Nothing /\ permit = Nothing /\ made = 0

Next ==
    \/ \E b \in DOMAIN EvidenceBundles : Collect(b)
    \/ \E t \in Time : Evaluate(t)
    \/ \E t \in Time, life \in Lives :
        \/ \E decision \in {"accept", "reject"} : Accept(decision, t, life)
        \/ \E decision \in {"approve", "reject"} : Approve(decision, t, life)
        \/ Authorize(t, life)
    \/ Tick

Spec == Init /\ [][Next]_vars

-----------------------------------------------------------------------------
(* Properties *)

\* An authorization that verifies now was issued over a report that both signers had
\* seen, on evidence for every check that passed, was there before the report, and
\* has still not expired, although only the report's own time is evaluated again
\* (_validate_authorization_inputs).
AuthorizationNeverOutlivesItsInputs ==
    permit # Nothing /\ Verifies(permit, now) =>
        LET r == permit.report
            evidence == EvidenceBundles[r.bundle]
            ends == {permit.expires, permit.tco.expires, permit.human.expires, r.expires, Plan.expires}
        IN /\ r.at <= Min({permit.tco.issued, permit.human.issued})
           /\ Max({permit.tco.issued, permit.human.issued}) <= permit.issued
           /\ \A e \in ends : now < e
           /\ \A check \in Required : \E i \in DOMAIN evidence :
                LET e == evidence[i] IN
                /\ e.check = check /\ e.provenance = "production_environment"
                /\ e.observed <= r.at /\ now < e.expires
                /\ FactsPass(check, e.facts)
                /\ \A j \in DOMAIN evidence : evidence[j].check = check => j = i
=============================================================================
