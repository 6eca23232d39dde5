------------------------ MODULE MeasurementIntegrity ------------------------
(***************************************************************************)
(* The pure core of saas_preflight's P12 measurement integrity: what the   *)
(* validators demand of a cohort and an operations batch, what the runtime *)
(* demands of a packet before it derives a report, and the amounts of that *)
(* report.  A digest is abstracted to the name of what it covers, the pins *)
(* of the twenty rules and the authorities to one value per batch, and     *)
(* lists that the code sorts are sequences whose order says nothing.       *)
(***************************************************************************)
EXTENDS Integers, Sequences, FiniteSets, SequencesExt, FiniteSetsExt, Functions

CONSTANTS
    Faults,       \* REQUIRED_FAULT_IDS
    Frozen,       \* the MeasurementPolicy: property, rules, window and the time-to-lives
    Expected      \* the MeasurementAuthorityPins: run and index

Distinct(rows, Key(_)) ==
    \A i, j \in DOMAIN rows : Key(rows[i]) = Key(rows[j]) => i = j
Rows(rows) == Range(rows)
AmountOf(rows) == SumFunction([i \in DOMAIN rows |-> rows[i].amount])

\* validate_signed and current_signed: the right key, a current and short life.
CurrentSigned(artifact, key, ttl, at) ==
    /\ artifact.signer = key
    /\ artifact.issued <= at /\ at < artifact.expires
    /\ artifact.expires - artifact.issued <= ttl

-----------------------------------------------------------------------------
(* The cohort batch *)

Forward ==
    [pending |-> {"confirmed", "rejected"},
     confirmed |-> {"paid", "refunded", "charged_back"},
     rejected |-> {}, paid |-> {}, refunded |-> {}, charged_back |-> {}]

TransactionHolds(t) ==
    LET n == Len(t.history) IN
    /\ n > 0
    /\ Distinct(t.history, LAMBDA e : e.receipt)
    /\ \A i \in 2..n : /\ t.history[i - 1].at < t.history[i].at
                       /\ t.history[i].status \in Forward[t.history[i - 1].status]
    /\ t.status = t.history[n].status
    /\ t.attributed <= t.history[1].at

Since(t) == t.history[Len(t.history)].at

Inside(at, batch) == batch.started <= at /\ at < batch.ended

\* Session, outbound click, accepted click, transaction: each has one parent,
\* no earlier than it and of the same partner.
FunnelHolds(batch) ==
    /\ Distinct(batch.sessions, LAMBDA s : s.id)
    /\ Distinct(batch.outbound, LAMBDA c : c.id)
    /\ Distinct(batch.outbound, LAMBDA c : c.session)
    /\ Distinct(batch.accepted, LAMBDA c : c.id)
    /\ Distinct(batch.accepted, LAMBDA c : c.outbound)
    /\ \A s \in Rows(batch.sessions) : Inside(s.at, batch)
    /\ \A c \in Rows(batch.outbound) :
          /\ c.partner \in batch.partners /\ Inside(c.at, batch)
          /\ \E s \in Rows(batch.sessions) : s.id = c.session /\ s.at <= c.at
    /\ \A c \in Rows(batch.accepted) :
          /\ Inside(c.at, batch)
          /\ \E o \in Rows(batch.outbound) :
                o.id = c.outbound /\ o.partner = c.partner /\ o.at <= c.at

TransactionsHold(batch) ==
    /\ Distinct(batch.transactions, LAMBDA t : t.id)
    /\ Distinct(batch.transactions, LAMBDA t : t.click)
    /\ \A t \in Rows(batch.transactions) :
          /\ TransactionHolds(t)
          /\ t.partner \in batch.partners
          /\ Inside(t.attributed, batch) /\ t.attributed <= batch.snapshot
          /\ Since(t) <= batch.snapshot
          /\ \E c \in Rows(batch.accepted) :
                c.id = t.click /\ c.partner = t.partner /\ c.at <= t.attributed
    /\ \A t, u \in Rows(batch.transactions) : t # u =>
          /\ t.evidence # u.evidence
          /\ {e.receipt : e \in Rows(t.history)} \cap {e.receipt : e \in Rows(u.history)} = {}

Paid(batch) == {t \in Rows(batch.transactions) : t.status = "paid"}

\* Exactly one payout per paid transaction, of its amount, after it was paid.
PayoutsHold(batch) ==
    /\ Distinct(batch.payouts, LAMBDA r : r.transaction)
    /\ Distinct(batch.payouts, LAMBDA r : r.row)
    /\ {r.transaction : r \in Rows(batch.payouts)} = {t.id : t \in Paid(batch)}
    /\ \A r \in Rows(batch.payouts), t \in Paid(batch) : r.transaction = t.id =>
          /\ r.amount = t.amount
          /\ Since(t) <= r.at /\ r.at <= batch.snapshot

\* An adjustment reverses one paid transaction in full.
AdjustmentsHold(batch) ==
    /\ Distinct(batch.adjustments, LAMBDA a : a.transaction)
    /\ Distinct(batch.adjustments, LAMBDA a : a.id)
    /\ Distinct(batch.adjustments, LAMBDA a : a.receipt)
    /\ \A a \in Rows(batch.adjustments) :
          /\ \E t \in Paid(batch) : t.id = a.transaction /\ t.amount = a.amount
          /\ \E r \in Rows(batch.payouts) : r.transaction = a.transaction /\ r.at <= a.at
          /\ a.at <= batch.snapshot

StatementIgnoresReversals(batch) ==
    LET s == batch.statement IN
    /\ s.net = s.gross - s.reversal - s.fees /\ s.net >= 0
    /\ s.gross = AmountOf(batch.payouts)
    /\ s.paid = {t.id : t \in Paid(batch)}

StatementHolds(batch) ==
    LET s == batch.statement IN
    /\ s.net = s.gross - s.reversal - s.fees /\ s.net >= 0
    /\ s.started < s.ended /\ s.ended <= s.snapshot
    /\ s.gross = AmountOf(batch.payouts)
    /\ s.reversal = AmountOf(batch.adjustments)
    /\ s.paid = {t.id : t \in Paid(batch)}
    /\ <<s.started, s.ended, s.snapshot>> = <<batch.started, batch.ended, batch.snapshot>>

CohortHolds(batch) ==
    /\ batch.started < batch.ended /\ batch.ended <= batch.snapshot
    /\ batch.snapshot <= batch.captured /\ batch.captured < batch.expires
    /\ FunnelHolds(batch)
    /\ TransactionsHold(batch)
    /\ PayoutsHold(batch)
    /\ AdjustmentsHold(batch)
    /\ StatementHolds(batch)

-----------------------------------------------------------------------------
(* The operations batch *)

FaultHolds(f) ==
    /\ f.injected <= f.detected /\ f.detected <= f.restoring /\ f.restoring <= f.restored
    /\ f.during # f.before
    /\ f.passed => f.after = f.before

JobHolds(j) == j.scheduled <= j.completed

Succeeded(jobs) == {j \in jobs : j.succeeded}
JobsOn(ops, day) == {j \in Rows(ops.jobs) : j.day = day}

OperationsHold(ops) ==
    LET days == Rows(ops.days) IN
    /\ {f.id : f \in Rows(ops.faults)} = Faults /\ Len(ops.faults) = Cardinality(Faults)
    /\ Distinct(ops.faults, LAMBDA f : f.run)
    /\ Distinct(ops.faults, LAMBDA f : f.receipt)
    /\ Distinct(ops.faults, LAMBDA f : f.stop)
    /\ Distinct(ops.jobs, LAMBDA j : j.key)
    /\ \A d \in days : /\ d.jobs = Cardinality(JobsOn(ops, d.day))
                       /\ d.succeeded = Cardinality(Succeeded(JobsOn(ops, d.day)))
    /\ MapThenSumSet(LAMBDA d : d.jobs, days) = Len(ops.jobs)
    /\ \A j, k \in Rows(ops.jobs) : j # k => j.attempts \cap k.attempts = {}
    /\ MapThenSumSet(LAMBDA d : d.rollbacks, days) = Len(ops.faults)
    /\ MapThenSumSet(LAMBDA d : d.restored, days)
          = Cardinality({f \in Rows(ops.faults) : f.passed})
    /\ \A f \in Rows(ops.faults) :
          /\ FaultHolds(f) /\ ops.started <= f.injected /\ f.restored <= ops.captured
    /\ \A j \in Rows(ops.jobs) :
          /\ JobHolds(j) /\ ops.started <= j.scheduled /\ j.completed <= ops.captured

-----------------------------------------------------------------------------
(* Coverage and signatures *)

Ids(rows, Key(_)) == [i \in DOMAIN rows |-> Key(rows[i])]

\* The identities an attestation must cover, by partition.
Identities(dataset, batch) ==
    CASE dataset = "demand" -> [cluster |-> batch.clusters]
    [] dataset = "cohort" ->
        [session     |-> Ids(batch.sessions, LAMBDA s : s.id),
         outbound    |-> Ids(batch.outbound, LAMBDA c : c.id),
         accepted    |-> Ids(batch.accepted, LAMBDA c : c.id),
         transaction |-> Ids(batch.transactions, LAMBDA t : t.id),
         event       |-> FlattenSeq(Ids(batch.transactions,
                             LAMBDA t : Ids(t.history, LAMBDA e : e.receipt))),
         payout      |-> Ids(batch.payouts, LAMBDA r : r.row),
         adjustment  |-> Ids(batch.adjustments, LAMBDA a : a.id)]
    [] dataset = "operations" ->
        [day   |-> Ids(batch.days, LAMBDA d : d.day),
         job   |-> Ids(batch.jobs, LAMBDA j : j.key),
         fault |-> Ids(batch.faults, LAMBDA f : f.run)]

\* Every record read is accounted for, in each partition.
CountsReconcile(c) ==
    c.read = c.accepted + c.rejected + c.duplicate + c.conflict + c.unknown

CoverageMatches(coverage, identities) ==
    /\ DOMAIN coverage = DOMAIN identities
    /\ \A kind \in DOMAIN identities :
          /\ CountsReconcile(coverage[kind])
          /\ coverage[kind].accepted = Len(identities[kind])
          /\ coverage[kind].identities = Rows(identities[kind])
          /\ Distinct(identities[kind], LAMBDA id : id)
          /\ coverage[kind].conflict = 0 /\ coverage[kind].unknown = 0

Datasets == {"demand", "cohort", "operations"}
ProducerOf == [demand |-> "demand_producer", cohort |-> "cohort_producer",
               operations |-> "operations_producer"]

\* What an attestation says of its batch.
Attests(dataset, a, batch, plan, at) ==
    /\ a.dataset = dataset /\ a.run = plan.run /\ a.plan = plan.name
    /\ a.batch = batch.name /\ a.source = batch.source
    /\ CoverageMatches(a.coverage, Identities(dataset, batch))
    /\ batch.captured <= a.issued
    /\ CurrentSigned(a, ProducerOf[dataset], Frozen.producerTtl, at)

ProducerVerifies(dataset, a, batch, plan, at) ==
    Attests(dataset, a, batch, plan, at) /\ plan.issued <= a.issued

\* A plan is signed before its window of thirty days and outlives it.
PlanHolds(plan) ==
    /\ plan.ended - plan.started = Frozen.window
    /\ plan.issued < plan.started /\ plan.ended < plan.expires

PlanVerifies(plan, at) ==
    /\ plan.decision = "go"
    /\ plan.property = Frozen.property /\ plan.rules = Frozen.rules
    /\ CurrentSigned(plan, "run_human", Frozen.planTtl, at)

IndexHolds(index) == index.captured <= index.issued

IndexVerifies(index, p, at) ==
    /\ index.run = p.plan.run /\ index.run = Expected.run /\ index.name = Expected.index
    /\ index.plan = p.plan.name
    /\ \A d \in Datasets : /\ index.batches[d] = p.batches[d].name
                           /\ index.attestations[d] = p.attestations[d].name
                           /\ p.attestations[d].issued <= index.issued
    /\ index.captured = Max({p.batches[d].captured : d \in Datasets})
    /\ CurrentSigned(index, "bundle_indexer", Frozen.indexTtl, at)

\* The cohort's share of verify_cross_batch_rules, which the settlement repeats.
CohortBinds(cohort, plan) ==
    /\ cohort.rules = plan.rules /\ cohort.property = plan.property
    /\ cohort.partners = plan.partners
    /\ cohort.started = plan.started /\ cohort.ended = plan.ended
    /\ cohort.snapshot = plan.ended /\ cohort.captured = plan.ended

BatchesBind(p) ==
    LET ops == p.batches.operations IN
    /\ p.batches.demand.rules = p.plan.rules /\ p.batches.demand.month = p.plan.month
    /\ CohortBinds(p.batches.cohort, p.plan)
    /\ ops.rules = p.plan.rules /\ ops.property = p.plan.property
    /\ ops.started = p.plan.started /\ ops.captured = p.plan.ended
    /\ {j.key : j \in Rows(ops.jobs)} = p.plan.jobs
    /\ \A f \in Rows(ops.faults) : f.target = p.plan.target

-----------------------------------------------------------------------------
(* The report *)

Reversed(batch) == {a.transaction : a \in Rows(batch.adjustments)}

\* What counts as settled: new, confirmed or paid, and not reversed.
Settles(t, status, reversed) ==
    t.class = "new" /\ status \in {"confirmed", "paid"} /\ t.id \notin reversed

Earned(ts) == SumFunction([t \in ts |-> t.amount])

Commissions(batch) ==
    LET ts == Rows(batch.transactions)
        settled == {t \in ts : Settles(t, t.status, Reversed(batch))}
    IN [confirmed |-> Earned({t \in settled : t.status = "confirmed"}),
        paid      |-> Earned({t \in settled : t.status = "paid"}),
        pending   |-> Earned({t \in ts : t.status = "pending"}),
        rejected  |-> Earned({t \in ts : \/ t.status \in {"rejected", "refunded", "charged_back"}
                                         \/ t.id \in Reversed(batch)})]

Facts(batch) ==
    [sessions |-> Len(batch.sessions), clicks |-> Len(batch.outbound),
     accepted |-> Len(batch.accepted), transactions |-> Len(batch.transactions),
     new |-> Cardinality({t \in Rows(batch.transactions) : t.class = "new"}),
     grossPaid |-> Cardinality(Paid(batch)),
     netPaid |-> Cardinality({t \in Paid(batch) : t.id \notin Reversed(batch)}),
     settled |-> Commissions(batch).confirmed + Commissions(batch).paid,
     gross |-> batch.statement.gross, net |-> batch.statement.net]

\* The runtime derives a report from a packet only if all of this holds.
Evaluable(p, at) ==
    /\ CohortHolds(p.batches.cohort) /\ OperationsHold(p.batches.operations)
    /\ PlanHolds(p.plan) /\ PlanVerifies(p.plan, at)
    /\ \A d \in Datasets : ProducerVerifies(d, p.attestations[d], p.batches[d], p.plan, at)
    /\ IndexHolds(p.index) /\ IndexVerifies(p.index, p, at)
    /\ BatchesBind(p)
    /\ \A f \in Rows(p.batches.operations.faults) : f.passed
    /\ \A t \in Rows(p.batches.cohort.transactions) : t.class # "unknown"
    /\ p.batches.cohort.captured <= at /\ at < p.batches.cohort.expires

Report(p, at) ==
    [run |-> p.plan.run, plan |-> p.plan.name, index |-> p.index.name,
     attestation |-> p.attestations.cohort.name, cohort |-> p.batches.cohort.name,
     property |-> p.plan.property, partners |-> p.plan.partners,
     started |-> p.plan.started, ended |-> p.plan.ended,
     commissions |-> Commissions(p.batches.cohort), facts |-> Facts(p.batches.cohort),
     signer |-> "measurement_verifier", issued |-> at,
     expires |-> Min({p.plan.expires, p.index.expires, at + Frozen.reportTtl}
                     \cup {p.attestations[d].expires : d \in Datasets}
                     \cup {p.batches[d].expires : d \in Datasets})]

ReportVerifies(report, at) ==
    /\ report.run = Expected.run /\ report.index = Expected.index
    /\ report.property = Frozen.property
    /\ CurrentSigned(report, "measurement_verifier", Frozen.reportTtl, at)
=============================================================================
