------------------------ MODULE SettlementAmendments ------------------------
(***************************************************************************)
(* The settlement amendments of saas_preflight: what later became of the   *)
(* transactions that one P12 cohort batch froze.  An amendment carries the *)
(* events of the affiliate network after the snapshot, an independent      *)
(* verifier attests whether they are all, and the evaluation applies every *)
(* event once, in the order of their times whatever their delivery.        *)
(***************************************************************************)
EXTENDS MeasurementIntegrity

CONSTANT Settlement   \* the SettlementAmendmentPolicy: rule, amendmentTtl, completenessTtl

-----------------------------------------------------------------------------
(* Artifacts *)

\* Event ids are numbers, so that they break ties in the order of application.
EventHolds(e) ==
    \/ e.kind = "status" /\ e.to \in Forward[e.from]
    \/ e.kind = "adjustment" /\ e.amount > 0

AmendmentHolds(a) ==
    /\ \A e \in a.events : EventHolds(e) /\ e.at <= a.observed
    /\ \A e, f \in a.events : e # f => e.id # f.id /\ e.receipt # f.receipt
    /\ a.observed <= a.issued /\ a.issued < a.expires

CompletenessHolds(q) ==
    /\ CountsReconcile(q.coverage)
    /\ q.observed <= q.issued /\ q.issued < q.expires

\* The commitment to the P12 slice that an amendment amends.
Binding(p, report) ==
    [report |-> <<report.index, report.issued>>, plan |-> p.plan.name, index |-> p.index.name,
     cohort |-> p.batches.cohort.name, attestation |-> p.attestations.cohort.name,
     run |-> p.plan.run, partners |-> p.batches.cohort.partners,
     snapshot |-> p.batches.cohort.snapshot, verified |-> report.issued,
     transactions |-> Rows(p.batches.cohort.transactions),
     adjustments |-> Rows(p.batches.cohort.adjustments)]

\* The index and the attestation of the slice, without the other batches.
SliceVerifies(p, at) ==
    LET cohort == p.batches.cohort IN
    /\ PlanHolds(p.plan) /\ PlanVerifies(p.plan, at)
    /\ Expected.run = p.plan.run /\ Expected.index = p.index.name
    /\ p.index.run = p.plan.run /\ p.index.plan = p.plan.name
    /\ p.index.batches.cohort = cohort.name
    /\ p.index.attestations.cohort = p.attestations.cohort.name
    /\ CurrentSigned(p.index, "bundle_indexer", Frozen.indexTtl, at)
    /\ Attests("cohort", p.attestations.cohort, cohort, p.plan, at)
    /\ CohortBinds(cohort, p.plan)

\* The counts that the report must share with the batch.
Compared == {"clicks", "transactions", "new", "grossPaid", "netPaid", "settled", "gross", "net"}

ReportBindsSlice(report, p) ==
    LET cohort == p.batches.cohort IN
    /\ report.run = p.plan.run /\ report.plan = p.plan.name /\ report.index = p.index.name
    /\ report.cohort = cohort.name /\ report.attestation = p.attestations.cohort.name
    /\ report.property = p.plan.property /\ report.partners = p.plan.partners
    /\ report.started = p.plan.started /\ report.ended = p.plan.ended
    /\ report.commissions = Commissions(cohort)
    /\ \A f \in Compared : report.facts[f] = Facts(cohort)[f]

\* What build_original_settlement_binding verifies again.
OriginalVerifies(p, report, at) ==
    /\ CohortHolds(p.batches.cohort)
    /\ ReportVerifies(report, at)
    /\ SliceVerifies(p, at)
    /\ ReportBindsSlice(report, p)

BindingMatches(binding, batch) ==
    /\ binding.cohort = batch.name
    /\ binding.partners = batch.partners /\ binding.snapshot = batch.snapshot
    /\ binding.transactions = Rows(batch.transactions)
    /\ binding.adjustments = Rows(batch.adjustments)

SignAmendment(binding, id, events, observed, at, until) ==
    [id |-> id, binding |-> binding, events |-> events, observed |-> observed,
     signer |-> "cohort_producer", issued |-> at, expires |-> until]

SignCompleteness(amendment, coverage, decision, at, until) ==
    [amendment |-> amendment, decision |-> decision, observed |-> amendment.observed,
     coverage |-> coverage, signer |-> "tco_qa", issued |-> at, expires |-> until]

-----------------------------------------------------------------------------
(* The boundary of one amendment *)

\* A complete export: nothing rejected, in conflict or unknown, and the ids of
\* exactly the amendment's events; without events, not even a duplicate.
Covers(q, amendment) ==
    LET c == q.coverage IN
    /\ c.accepted = Cardinality(amendment.events)
    /\ c.rejected = 0 /\ c.conflict = 0 /\ c.unknown = 0
    /\ c.identities = {e.id : e \in amendment.events}
    /\ amendment.events = {} => c.read = 0 /\ c.duplicate = 0

IsComplete(q) == q.decision = "complete"

EventBinds(e, binding, batch) ==
    /\ binding.snapshot < e.at
    /\ \E t \in Rows(batch.transactions) :
          /\ t.id = e.transaction /\ t = e.original
          /\ e.kind = "adjustment" => e.amount = t.amount

BoundaryHolds(amendment, q, binding, batch, at) ==
    /\ AmendmentHolds(amendment) /\ CompletenessHolds(q)
    /\ BindingMatches(binding, batch)
    /\ amendment.binding = binding
    /\ binding.snapshot < amendment.observed
    /\ CurrentSigned(amendment, "cohort_producer", Settlement.amendmentTtl, at)
    /\ IsComplete(q)
    /\ q.amendment = amendment /\ q.observed = amendment.observed
    /\ Covers(q, amendment)
    /\ CurrentSigned(q, "tco_qa", Settlement.completenessTtl, at)
    /\ \A e \in amendment.events : EventBinds(e, binding, batch)

-----------------------------------------------------------------------------
(* Applying events once *)

Before(e, f) == e.at < f.at \/ (e.at = f.at /\ e.id < f.id)
InOrder(events) ==
    CHOOSE s \in SetToSeqs(events) : \A i, j \in DOMAIN s : i < j => Before(s[i], s[j])

\* The state of the transactions while events are applied; ok is FALSE once the
\* code would have refused.
Original(batch) ==
    LET Row(id) == CHOOSE t \in Rows(batch.transactions) : t.id = id
        ids == {t.id : t \in Rows(batch.transactions)}
    IN [ok |-> TRUE,
        status |-> [id \in ids |-> Row(id).status],
        since |-> [id \in ids |-> Since(Row(id))],
        reversed |-> Reversed(batch),
        adjustments |-> {a.id : a \in Rows(batch.adjustments)},
        receipts |-> {a.receipt : a \in Rows(batch.adjustments)}
            \cup UNION {{e.receipt : e \in Rows(t.history)} : t \in Rows(batch.transactions)}]

PaidOut(batch, id, at) ==
    \E r \in Rows(batch.payouts) : r.transaction = id /\ r.at < at

\* Only a transaction that P12 knew as paid can be adjusted later.
Applies(s, e, batch) ==
    /\ e.receipt \notin s.receipts
    /\ batch.snapshot < e.at /\ s.since[e.transaction] < e.at
    /\ \/ e.kind = "status" /\ s.status[e.transaction] = e.from /\ e.to \in Forward[e.from]
       \/ /\ e.kind = "adjustment" /\ s.status[e.transaction] = "paid"
          /\ e.transaction \notin s.reversed /\ e.adjustment \notin s.adjustments
          /\ PaidOut(batch, e.transaction, e.at)

Apply(s, e, batch) ==
    IF ~(s.ok /\ Applies(s, e, batch)) THEN [s EXCEPT !.ok = FALSE]
    ELSE IF e.kind = "status"
    THEN [s EXCEPT !.receipts = @ \cup {e.receipt},
                   !.status[e.transaction] = e.to, !.since[e.transaction] = e.at]
    ELSE [s EXCEPT !.receipts = @ \cup {e.receipt},
                   !.reversed = @ \cup {e.transaction},
                   !.adjustments = @ \cup {e.adjustment}]

Final(batch, events) ==
    FoldLeft(LAMBDA s, e : Apply(s, e, batch), Original(batch), InOrder(events))

\* What a state settled, for each of the frozen partners.
Amounts(batch, s) ==
    [p \in batch.partners |->
        Earned({t \in Rows(batch.transactions) :
                   t.partner = p /\ Settles(t, s.status[t.id], s.reversed)})]

-----------------------------------------------------------------------------
(* The evaluation of a set of amendments and attestations *)

\* Replays are one artifact; two artifacts of one identity are a conflict.
NoConflict(artifacts, Key(_)) ==
    \A a, b \in artifacts : Key(a) = Key(b) => a = b

EventsOf(amendments) == UNION {a.events : a \in amendments}

SettlementEvaluable(binding, batch, amendments, attestations, at) ==
    /\ amendments # {}
    /\ NoConflict(amendments, LAMBDA a : a.id)
    /\ NoConflict(attestations, LAMBDA q : q.amendment)
    /\ {q.amendment : q \in attestations} = amendments
    /\ \A q \in attestations : BoundaryHolds(q.amendment, q, binding, batch, at)
    /\ NoConflict(EventsOf(amendments), LAMBDA e : e.id)
    /\ Final(batch, EventsOf(amendments)).ok

Evaluation(batch, amendments) ==
    [original |-> Amounts(batch, Original(batch)),
     amended |-> Amounts(batch, Final(batch, EventsOf(amendments)))]
=============================================================================
