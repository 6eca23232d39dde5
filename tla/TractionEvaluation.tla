------------------------- MODULE TractionEvaluation -------------------------
(***************************************************************************)
(* The pure evaluation of saas_preflight's P17 traction control: what a    *)
(* signed plan, a signed chain of 30-day observations and signed           *)
(* settlement snapshots say at a time.  Hashes and signatures are          *)
(* abstracted to the records they bind; an observation is named by its     *)
(* digest.                                                                 *)
(***************************************************************************)
EXTENDS Integers, Sequences, FiniteSets, FiniteSetsExt

CONSTANTS
    PlanStart,      \* plan.experiment_started_at
    WindowLength,   \* the 30 days of a window
    PlanUntil,      \* plan.expires_at, no later than rights and affiliate evidence
    SettlementLag,  \* policy.settlement_lag_days
    MatureClicks,   \* policy.maturity_valid_clicks
    MatureWindows,  \* policy.maturity_days in windows of observation_days
    MinimumEpc,     \* policy.minimum_settled_epc
    TargetProfit    \* policy.target_monthly_net_profit

ASSUME PolicyAssumption ==
    /\ PlanStart \in Int /\ WindowLength \in Nat /\ PlanUntil \in Nat /\ SettlementLag \in Nat /\ MatureClicks \in Nat
    /\ MatureWindows \in Nat \ {0} /\ MinimumEpc \in Nat /\ TargetProfit \in Nat

Decisions == {"stop", "continue_observation", "ready_for_scale_review"}

\* verify_traction_plan at a trusted time.
PlanHolds(t) == t < PlanUntil

\* verify_traction_observation; only appending requires it to be current.
VerifiesObservation(o, t, requireCurrent) ==
    /\ PlanHolds(t)
    /\ o.issued <= t
    /\ requireCurrent => t < o.expires

\* The chain that _evaluate_traction and _assert_integrity both demand of the
\* items before it: the exact tail, with identities nobody used before.
ExtendsChain(o, prior) ==
    LET n == Len(prior) IN
    /\ o.ordinal = n + 1
    /\ o.predecessor = IF n = 0 THEN "none" ELSE prior[n].digest
    /\ \A i \in 1..n : o.tokens \cap prior[i].tokens = {}

\* The windows of a chain follow each other from the plan's start.
IsWindow(o, i) ==
    /\ o.started = PlanStart + WindowLength * (i - 1)
    /\ o.ended = PlanStart + WindowLength * i

ChainHolds(items, t) ==
    \A i \in 1..Len(items) :
        /\ VerifiesObservation(items[i], t, FALSE)
        /\ IsWindow(items[i], i)
        /\ ExtendsChain(items[i], SubSeq(items, 1, i - 1))

-----------------------------------------------------------------------------
(* Settlement snapshots *)

EventIds(e) == DOMAIN e.events
SettledDelta(e) == MapThenSumSet(LAMBDA id : e.events[id], EventIds(e))

\* The snapshot binds an observation of the chain, is current, and covers the
\* whole lag after the end of its window.
SettlementHolds(e, items, t) ==
    \E i \in 1..Len(items) :
        /\ items[i].digest = e.observation
        /\ e.covered >= items[i].ended + SettlementLag
        /\ e.issued <= t /\ t < e.expires
        /\ items[i].settled + SettledDelta(e) >= 0

\* The snapshot, if any, that amends an item.
EvidenceFor(o, evidence) == {e \in evidence : e.observation = o.digest}

\* What the window settled once amended.
Settled(o, evidence) ==
    o.settled + MapThenSumSet(SettledDelta, EvidenceFor(o, evidence))

\* _evaluate_traction raises unless all of this holds.
Evaluable(items, evidence, t) ==
    /\ PlanHolds(t)
    /\ ChainHolds(items, t)
    /\ \A e \in evidence : SettlementHolds(e, items, t)
    /\ \A e, f \in evidence : e.observation = f.observation => e = f

-----------------------------------------------------------------------------
(* Gates *)

SumOver(items, Value(_)) == MapThenSumSet(LAMBDA i : Value(items[i]), 1..Len(items))

Clicks(items) == SumOver(items, LAMBDA o : Cardinality(o.tokens))
TotalSettled(items, evidence) == SumOver(items, LAMBDA o : Settled(o, evidence))
SettlementComplete(items, evidence) ==
    /\ items # <<>>
    /\ \A i \in 1..Len(items) : EvidenceFor(items[i], evidence) # {}
Genuine(items) == items # <<>> /\ \A i \in 1..Len(items) : items[i].verified
Mature(items) ==
    \/ Clicks(items) >= MatureClicks
    \/ Len(items) >= MatureWindows

\* The largest partner share of the latest window, as amended.
Spread(o, evidence) ==
    /\ Settled(o, evidence) > 0
    /\ IF EvidenceFor(o, evidence) = {} THEN o.spread
       ELSE \A e \in EvidenceFor(o, evidence) : e.spread

\* Bear capacity by exact cross multiplication; the exact ratio needs
\* earned clicks and a positive bear rate.
Capacity(items, evidence) ==
    LET latest == items[Len(items)] IN
    /\ Clicks(items) > 0 /\ TotalSettled(items, evidence) > 0 /\ latest.bear > 0
    /\ latest.bear * TotalSettled(items, evidence)
           >= (TargetProfit + latest.cost) * Clicks(items)

\* The checks of a report in the order of the code; "hard" stands for partners,
\* automation, human, jobs and quality of the latest window.
Checks(items, evidence) ==
    LET some == items # <<>>
        latest == items[Len(items)]
    IN [observations  |-> some,
        settlement    |-> SettlementComplete(items, evidence),
        provenance    |-> Genuine(items),
        epc           |-> /\ Clicks(items) > 0
                          /\ TotalSettled(items, evidence) >= MinimumEpc * Clicks(items),
        revenue       |-> some /\ Settled(latest, evidence) - latest.cost >= TargetProfit,
        capacity      |-> some /\ Capacity(items, evidence),
        ctr           |-> some /\ latest.ctr,
        concentration |-> some /\ Spread(latest, evidence),
        hard          |-> some /\ latest.hard]

\* _evaluate_traction's decision, with the ledger check as its caller sets it.
Decision(items, evidence, authenticated) ==
    LET checks == Checks(items, evidence) IN
    IF items = <<>> \/ ~Genuine(items) THEN "stop"
    ELSE IF ~Mature(items)
    THEN IF checks.hard THEN "continue_observation" ELSE "stop"
    ELSE IF authenticated /\ \A c \in DOMAIN checks : checks[c]
    THEN "ready_for_scale_review" ELSE "stop"
=============================================================================
