-------------------------- MODULE CohortSettlement --------------------------
(***************************************************************************)
(* One cohort from the affiliate network to P17: sales change at the       *)
(* network, P12 measures the snapshot of the window (MeasurementIntegrity),*)
(* P17 ingests the report as an observation, and amendments with their     *)
(* attestations follow the sales after the snapshot (SettlementAmendments).*)
(* The network and the truthfulness of its exports are external; producers *)
(* may send flawed packets and partial amendments.                         *)
(***************************************************************************)
EXTENDS SettlementAmendments

CONSTANTS
    None,
    Sales, SaleOf,        \* the transactions of the window: partner, class, amount, first
    Plan,                 \* the SignedMeasurementRunPlan
    TractionPlan,         \* property, partners, target, started, expires, observationTtl
    DemandBatch, OperationsBatches, Activities,
    Flaws,                \* what may be wrong with a packet, "none" included
    Lag,                  \* settlement_lag_days
    AmendmentTime,        \* life of an amendment and of its attestation
    MaxTime, MaxMoves, MaxAmendments   \* bounds

ASSUME SalesAreNumbered == Sales \subseteq Nat /\ IsFiniteSet(Sales)
ASSUME AmountsArePositive == \A s \in Sales : SaleOf[s].amount \in Nat \ {0}
ASSUME TimesAreNumbers == Plan.ended \in Nat /\ MaxTime \in Nat

VARIABLES
    now,
    sales,          \* what the network knows: history, reversed
    packet,         \* the P12 packet, or None
    measured,       \* the P12 report of the packet, or None
    observation,    \* the P17 observation, or None
    amendments, attestations

vars == <<now, sales, packet, measured, observation, amendments, attestations>>

Never == MaxTime + 1
Partners == TractionPlan.partners

-----------------------------------------------------------------------------
(* The network *)

Known(s, t) == Max({n \in DOMAIN sales[s].history : sales[s].history[n].at <= t})
HistoryAt(s, t) == SubSeq(sales[s].history, 1, Known(s, t))
StatusAt(s, t) == sales[s].history[Known(s, t)].status

\* What the partner's sales of the window had settled at the end of a time.
Settled(partner, t) ==
    {s \in Sales : /\ SaleOf[s].partner = partner /\ SaleOf[s].class = "new"
                   /\ StatusAt(s, t) \in {"confirmed", "paid"}
                   /\ t < sales[s].reversed}
SettledAt(partner, t) == SumFunction([s \in Settled(partner, t) |-> SaleOf[s].amount])

Moves == MapThenSumSet(LAMBDA s : Len(sales[s].history) - 1
                          + IF sales[s].reversed = Never THEN 0 ELSE 1, Sales)

\* The events after the snapshot. An id is a number of its own for every event.
IdOf(s, n) == 10 * s + n
AsMeasured(s) == CHOOSE r \in Rows(packet.batches.cohort.transactions) : r.id = s
StatusEvents(s, t) ==
    LET h == sales[s].history IN
    {[id |-> IdOf(s, n), kind |-> "status", transaction |-> s, original |-> AsMeasured(s),
      from |-> h[n - 1].status, to |-> h[n].status, receipt |-> h[n].receipt, at |-> h[n].at] :
        n \in {m \in 2..Len(h) : Plan.ended < h[m].at /\ h[m].at <= t}}
Adjustments(s, t) ==
    IF sales[s].reversed \notin (Plan.ended + 1)..t THEN {}
    ELSE {[id |-> IdOf(s, 9), kind |-> "adjustment", transaction |-> s,
           original |-> AsMeasured(s), adjustment |-> s, amount |-> SaleOf[s].amount,
           receipt |-> <<s, 0>>, at |-> sales[s].reversed]}

LaterEvents(t) == UNION {StatusEvents(s, t) \cup Adjustments(s, t) : s \in Sales}

-----------------------------------------------------------------------------
(* The export of the window, as the producers sign it *)

Order == SetToSeq(Sales)
Each(rows, Row(_)) == [i \in DOMAIN rows |-> Row(rows[i])]

Transaction(s, t) ==
    [id |-> s, partner |-> SaleOf[s].partner, class |-> SaleOf[s].class, amount |-> SaleOf[s].amount,
     click |-> s, evidence |-> s, attributed |-> Plan.started,
     history |-> HistoryAt(s, t), status |-> StatusAt(s, t)]

Payout(s) == [row |-> s, transaction |-> s, amount |-> SaleOf[s].amount,
              at |-> Last(sales[s].history).at]
Reversal(s) == [id |-> s, transaction |-> s, amount |-> SaleOf[s].amount,
                receipt |-> <<s, 0>>, at |-> sales[s].reversed]

\* One thing may be wrong with the export.
Cohort(flaw) ==
    LET t == Plan.ended
        paid == SetToSeq({s \in Sales : StatusAt(s, t) = "paid"})
        reversed == SetToSeq({s \in Sales : sales[s].reversed <= t})
        payouts == Each(paid, Payout)
        reversals == Each(reversed, Reversal)
        Short(rows, f) == IF flaw = f /\ rows # <<>> THEN Tail(rows) ELSE rows
    IN [name |-> "cohort", source |-> "network", rules |-> Plan.rules, property |-> Plan.property,
        partners |-> Partners, started |-> Plan.started, ended |-> t, snapshot |-> t,
        captured |-> t, expires |-> Never,
        sessions |-> Each(Order, LAMBDA s : [id |-> s, at |-> Plan.started]),
        outbound |-> Each(Order, LAMBDA s : [id |-> s, session |-> s,
                             partner |-> SaleOf[s].partner, at |-> Plan.started]),
        accepted |-> Each(Order, LAMBDA s : [id |-> s, outbound |-> s,
                             partner |-> SaleOf[s].partner, at |-> Plan.started]),
        transactions |-> Each(Order, LAMBDA s :
            IF flaw = "stale" THEN [Transaction(s, t) EXCEPT !.status = SaleOf[s].first]
            ELSE Transaction(s, t)),
        payouts |-> Short(payouts, "payout"),
        adjustments |-> Short(reversals, "reversal"),
        statement |-> [started |-> Plan.started, ended |-> t, snapshot |-> t,
                       gross |-> AmountOf(payouts), reversal |-> AmountOf(reversals), fees |-> 0,
                       net |-> AmountOf(payouts) - AmountOf(reversals), paid |-> Rows(paid)]]

Coverage(dataset, batch, flaw) ==
    LET ids == Identities(dataset, batch)
        unknown == IF flaw = "unknown" THEN 1 ELSE 0
    IN [kind \in DOMAIN ids |->
          [read |-> Len(ids[kind]) + unknown, accepted |-> Len(ids[kind]), rejected |-> 0,
           duplicate |-> 0, conflict |-> 0, unknown |-> unknown, identities |-> Rows(ids[kind])]]

\* sign_producer_attestation and sign_measurement_bundle_index at a time.
Attestation(dataset, batch, flaw, at) ==
    [name |-> <<dataset, at>>, dataset |-> dataset, run |-> Plan.run, plan |-> Plan.name,
     batch |-> batch.name, source |-> batch.source, coverage |-> Coverage(dataset, batch, flaw),
     signer |-> ProducerOf[dataset], issued |-> at, expires |-> Plan.expires]

Index(batches, signed, flaw, at) ==
    [name |-> Expected.index, run |-> Plan.run, plan |-> Plan.name,
     batches |-> [d \in Datasets |-> IF flaw = "index" THEN "other" ELSE batches[d].name],
     attestations |-> [d \in Datasets |-> signed[d].name],
     captured |-> Plan.ended, signer |-> "bundle_indexer", issued |-> at, expires |-> Plan.expires]

PacketOf(cohort, operations, flaw, at) ==
    LET batches == [demand |-> DemandBatch, cohort |-> cohort, operations |-> operations]
        signed == [d \in Datasets |-> Attestation(d, batches[d], flaw, at)]
    IN [plan |-> Plan, batches |-> batches, attestations |-> signed,
        index |-> Index(batches, signed, flaw, at)]

-----------------------------------------------------------------------------
(* build_traction_observation *)

InScope(r, p) ==
    /\ r.property = TractionPlan.property /\ r.partners = TractionPlan.partners
    /\ p.plan.target = TractionPlan.target
    /\ r.started = TractionPlan.started /\ r.ended = TractionPlan.started + Frozen.window

ActivityMatches(activity, operations) ==
    /\ activity.source = operations.name
    /\ activity.days = Rows(operations.days)

\* The same amounts, summed again from the batch for each partner.
PartnerFacts(batch) == Amounts(batch, Original(batch))
Sum(amounts) == SumFunction(amounts)

CanIngest(p, r, activity, at) ==
    /\ at < TractionPlan.expires
    /\ at = r.issued
    /\ Evaluable(p, at) /\ Report(p, at) = r
    /\ ReportVerifies(r, at)
    /\ InScope(r, p)
    /\ Sum(PartnerFacts(p.batches.cohort)) = r.facts.settled
    /\ ActivityMatches(activity, p.batches.operations)

Observation(p, r, at) ==
    [run |-> r.run, plan |-> r.plan, index |-> r.index, cohort |-> r.cohort,
     attestation |-> r.attestation, report |-> <<r.index, r.issued>>,
     partners |-> r.partners, ended |-> r.ended, ingested |-> at,
     clicks |-> {c.id : c \in Rows(p.batches.cohort.outbound)},
     jobs |-> Len(p.batches.operations.jobs),
     succeeded |-> Cardinality(Succeeded(Rows(p.batches.operations.jobs))),
     settled |-> r.facts.settled, facts |-> PartnerFacts(p.batches.cohort),
     expires |-> Min({TractionPlan.expires, at + TractionPlan.observationTtl})]

ObservationHolds(o) ==
    /\ o.ended <= o.ingested /\ o.ingested < o.expires
    /\ o.succeeded <= o.jobs
    /\ DOMAIN o.facts = o.partners
    /\ Sum(o.facts) = o.settled

-----------------------------------------------------------------------------
(* The settlement evidence of the observation, as _evaluate_traction takes it *)

EvidenceHolds(S, Q) ==
    /\ S # {} /\ Q # {}
    /\ NoConflict(S, LAMBDA a : a.id)
    /\ NoConflict(Q, LAMBDA q : q.amendment)
    /\ S = {q.amendment : q \in Q}

BindsObservation(binding, Q, o) ==
    /\ binding.report = o.report /\ binding.plan = o.plan /\ binding.index = o.index
    /\ binding.cohort = o.cohort /\ binding.attestation = o.attestation
    /\ binding.run = o.run /\ binding.partners = o.partners
    /\ binding.verified = o.ingested /\ binding.snapshot = o.ended
    /\ \A q \in Q : q.observed >= o.ended + Lag

SettlementAccepted(S, Q, o, at) ==
    LET batch == packet.batches.cohort
        binding == Binding(packet, measured)
    IN /\ EvidenceHolds(S, Q)
       /\ BindsObservation(binding, Q, o)
       /\ SettlementEvaluable(binding, batch, S, Q, at)
       /\ Sum(Evaluation(batch, S).original) = o.settled
       /\ Evaluation(batch, S).original = o.facts

-----------------------------------------------------------------------------
(* Actions *)

\* The network confirms, rejects, pays, refunds or charges back a sale.
Change(s, to) ==
    /\ Moves < MaxMoves
    /\ LET h == sales[s].history IN
       /\ to \in Forward[Last(h).status] /\ Last(h).at < now
       /\ sales' = [sales EXCEPT ![s].history =
              Append(h, [status |-> to, at |-> now, receipt |-> <<s, Len(h) + 1>>])]
    /\ UNCHANGED <<now, packet, measured, observation, amendments, attestations>>

\* The network reverses a paid sale in full.
ReverseSale(s) ==
    /\ Moves < MaxMoves
    /\ Last(sales[s].history).status = "paid" /\ sales[s].reversed = Never
    /\ sales' = [sales EXCEPT ![s].reversed = now]
    /\ UNCHANGED <<now, packet, measured, observation, amendments, attestations>>

\* The producers export the window, and the verifier derives a report.
Measure(operations, flaw) ==
    /\ now > Plan.ended /\ measured = None
    /\ LET p == PacketOf(Cohort(flaw), operations, flaw, now) IN
       /\ Evaluable(p, now)
       /\ packet' = p /\ measured' = Report(p, now)
    /\ UNCHANGED <<now, sales, observation, amendments, attestations>>

\* build_traction_observation, and the binding of its settlements.
Ingest(activity) ==
    /\ measured # None /\ observation = None
    /\ CanIngest(packet, measured, activity, now)
    /\ LET o == Observation(packet, measured, now) IN
       ObservationHolds(o) /\ observation' = o
    /\ UNCHANGED <<now, sales, packet, measured, amendments, attestations>>

\* The producer signs the events up to a time that is over: all of them, or all
\* but one.
Amend(observed) ==
    /\ observation # None /\ Cardinality(amendments) < MaxAmendments
    /\ Plan.ended < observed /\ observed < now
    /\ OriginalVerifies(packet, measured, measured.issued)
    /\ \E events \in {LaterEvents(observed)} \cup {LaterEvents(observed) \ {e} : e \in LaterEvents(observed)} :
          LET a == SignAmendment(Binding(packet, measured),
                       <<observed, {e.id : e \in events}>>, events, observed,
                       now, now + AmendmentTime)
          IN /\ AmendmentHolds(a)
             /\ amendments' = amendments \cup {a}
    /\ UNCHANGED <<now, sales, packet, measured, observation, attestations>>

\* The verifier compares the amendment with the network and signs what it found;
\* an export that lacks an event may still have clean counts.
Attest(a) ==
    /\ \A q \in attestations : q.amendment # a
    /\ LET n == Cardinality(a.events)
           complete == a.events = LaterEvents(a.observed)
       IN \E rejected \in IF complete THEN {0} ELSE {0, 1} :
             LET coverage == [read |-> n + rejected, accepted |-> n, rejected |-> rejected,
                              duplicate |-> 0, conflict |-> 0, unknown |-> 0,
                              identities |-> {e.id : e \in a.events}]
                 q == SignCompleteness(a, coverage,
                          IF complete THEN "complete" ELSE "incomplete",
                          now, now + AmendmentTime)
             IN CompletenessHolds(q) /\ attestations' = attestations \cup {q}
    /\ UNCHANGED <<now, sales, packet, measured, observation, amendments>>

Tick ==
    /\ now < MaxTime /\ now' = now + 1
    /\ UNCHANGED <<sales, packet, measured, observation, amendments, attestations>>

Init ==
    /\ now = 0
    /\ sales = [s \in Sales |->
         [history |-> <<[status |-> SaleOf[s].first, at |-> 0, receipt |-> <<s, 1>>]>>,
          reversed |-> Never]]
    /\ packet = None /\ measured = None /\ observation = None
    /\ amendments = {} /\ attestations = {}

Next ==
    \/ \E s \in Sales, to \in {"confirmed", "rejected", "paid", "refunded", "charged_back"} :
          Change(s, to)
    \/ \E s \in Sales : ReverseSale(s)
    \/ \E o \in OperationsBatches, f \in Flaws : Measure(o, f)
    \/ \E a \in Activities : Ingest(a)
    \/ \E t \in 0..MaxTime : Amend(t)
    \/ \E a \in amendments : Attest(a)
    \/ Tick

Spec == Init /\ [][Next]_vars

-----------------------------------------------------------------------------

\* Money is counted as the network counts it: whatever is delivered, in whatever
\* order, evidence that P17 accepts gives every partner exactly what its sales had
\* settled at the newest time the evidence covers. Each amount passes through two
\* sums, a fold over later events and the verdicts of three signers, and a window
\* whose exports miss a reversal must be refused, not settled too high.
SettlementIsTrue ==
    \A Q \in SUBSET attestations : LET S == {q.amendment : q \in Q} IN
        SettlementAccepted(S, Q, observation, now) =>
            LET covered == Max({q.observed : q \in Q}) IN
            Evaluation(packet.batches.cohort, S).amended
                = [p \in Partners |-> SettledAt(p, covered)]
=============================================================================
