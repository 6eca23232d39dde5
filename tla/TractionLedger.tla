--------------------------- MODULE TractionLedger ---------------------------
(***************************************************************************)
(* The authenticated append-only ledger of saas_preflight's P17 traction   *)
(* control: observations, settlement snapshots and evaluation reports,     *)
(* each followed by the finalization that a second trusted-clock reading   *)
(* earns it, and an external anchor that trails the SQLite file.           *)
(*                                                                         *)
(* Every call holds the ledger's lock file throughout, so calls meet only  *)
(* through what a failed one leaves behind: a pending tail, an anchor one  *)
(* revision behind, and callback threads that outlive their time-out and   *)
(* keep the anchor lock or the host's clock lock until they end.           *)
(***************************************************************************)
EXTENDS TractionEvaluation

CONSTANTS
    Procs,         \* processes with the ledger open
    Observations,  \* signed observations that are offered
    Settlements,   \* signed settlement snapshots that are offered
    None,          \* "nobody", "no item"
    ClockLag,      \* the trusted clock may lag behind by this much
    MaxTime,       \* bound: time stops here
    MaxRevision,   \* bound: events in the ledger
    MaxMishaps     \* bound: crashes and hung callbacks in a behaviour

ASSUME LedgerBounds ==
    /\ None \notin Procs /\ ClockLag \in Nat
    /\ MaxTime \in Nat /\ MaxRevision \in Nat /\ MaxMishaps \in Nat
    /\ \A e \in Settlements : e.covered \in Int /\ e.expires \in Nat
    /\ \A e \in Settlements : \A id \in EventIds(e) : e.coverage[id] \in Int
    /\ \A o \in Observations : o.expires \in Nat

VARIABLES
    now,      \* true time
    log,      \* the rows of the four tables by event_revision
    prior,    \* meta.previous_anchor_sha256, as a revision
    anchor,   \* the external anchor, as a revision
    holder,   \* who holds the ledger's lock file
    worker,   \* the timed-out anchor callback that still holds the anchor lock
    clock,    \* whose timed-out clock request still holds the host's clock lock
    pc,       \* pc[p]: where p's call is
    appended, \* appended[p]: the call has committed its own event
    answer,   \* what the last call to take the lock file has returned
    mishaps   \* crashes and hung callbacks so far

vars == <<now, log, prior, anchor, holder, worker, clock, pc, appended,
          answer, mishaps>>

Time == 0..MaxTime
Phases == {"idle", "open", "publish", "stamp", "ready"}
Holding == {"open", "publish", "stamp", "ready"}

NoWorker == [owner |-> None, revision |-> 0]

-----------------------------------------------------------------------------
(* What the rows say *)

IsTarget(i) == log[i].kind # "finalization"
Targets(kind) == {i \in 1..Len(log) : log[i].kind = kind}
Outcome(i) == IF i < Len(log) THEN log[i + 1].item ELSE "pending"

Pending == log # <<>> /\ IsTarget(Len(log))
LastTime == IF log = <<>> THEN 0 ELSE log[Len(log)].at

\* The rows of some revisions in order.
Rank(i, revisions) == Cardinality({j \in revisions : j <= i})
Items(revisions) == [k \in 1..Cardinality(revisions) |->
    log[CHOOSE i \in revisions : Rank(i, revisions) = k].item]

\* _read_observations: everything that is not expired.
ActiveObservations ==
    Items({i \in Targets("observation") : Outcome(i) # "expired"})
AllObservations == Items(Targets("observation"))

\* _latest_settlements: the newest snapshot of each observation, whatever became
\* of it, and only then the accepted ones.
SettlementsOf(o) == {i \in Targets("settlement") : log[i].item.observation = o.digest}
NewestAccepted(o) ==
    LET accepted == {i \in SettlementsOf(o) : Outcome(i) = "accepted"}
    IN {i \in accepted : \A j \in accepted : j <= i}
NewestSnapshot(o) == {i \in SettlementsOf(o) : \A j \in SettlementsOf(o) : j <= i}
LatestSettlements ==
    LET accepted == {i \in Targets("observation") : Outcome(i) = "accepted"}
        newest == UNION {NewestSnapshot(log[i].item) : i \in accepted}
    IN {log[i].item : i \in {j \in newest : Outcome(j) = "accepted"}}

SettlementNotAfter(evidence) == Min({PlanUntil} \cup {e.expires : e \in evidence})

Event(kind, item, at, notAfter) ==
    [kind |-> kind, item |-> item, at |-> at, notAfter |-> notAfter]

\* _assert_integrity on the row of one revision.
RowHolds(i) ==
    LET e == log[i] IN
    /\ i > 1 => log[i - 1].at <= e.at
    /\ e.kind = "observation" =>
        /\ VerifiesObservation(e.item, e.at, TRUE)
        /\ ExtendsChain(e.item, Items({j \in Targets("observation") : j < i}))
    /\ e.kind = "settlement" =>
        \E j \in Targets("observation") : log[j].item.digest = e.item.observation
    /\ e.kind = "finalization" =>
        /\ i > 1 /\ IsTarget(i - 1)
        /\ e.item = "accepted" => e.at < log[i - 1].notAfter
        /\ e.item = "expired" => e.at >= log[i - 1].notAfter

\* Only the tail may wait for its finalization.
RowsHold == \A i \in 1..Len(log) :
    /\ RowHolds(i)
    /\ IsTarget(i) /\ i < Len(log) => ~IsTarget(i + 1)

\* The external anchor is this revision, or the one before it.
Anchored == anchor = Len(log)
RecoverableInStep == Anchored
Recoverable == Anchored \/ anchor = prior

-----------------------------------------------------------------------------
(* How calls move and end *)

AnchorFreeAnyway == worker.owner \in Procs \cup {None}
AnchorFree == worker.owner = None
Goes(p, phase) == pc' = [pc EXCEPT ![p] = phase]

\* The call returns or raises and releases the lock file.
Ends(p) ==
    /\ Goes(p, "idle")
    /\ holder' = IF holder = p THEN None ELSE holder
    /\ appended' = [appended EXCEPT ![p] = FALSE]

Answers(item) == answer' = item

\* A request that the trusted clock signs: never before the last event.
Attested(t) == t \in Time /\ t <= now /\ now <= t + ClockLag
ClockFree == clock = None

\* _file_lock. A call that waits for it in vain changes nothing, and the call's
\* operation and argument matter only once the ledger is verified.
Enter(p) ==
    /\ pc[p] = "idle" /\ holder = None
    /\ holder' = p /\ Goes(p, "open") /\ answer' = None
    /\ UNCHANGED <<now, log, prior, anchor, worker, clock, appended, mishaps>>

\* _recover_pending_finalization begins: the rows must hold, and an anchor that
\* is one revision behind is published again.
Verify(p) ==
    /\ pc[p] = "open" /\ AnchorFree /\ RowsHold /\ Recoverable
    /\ Goes(p, IF ~Anchored THEN "publish" ELSE IF Pending THEN "stamp" ELSE "ready")
    /\ UNCHANGED <<now, log, prior, anchor, holder, worker, clock, appended,
                   answer, mishaps>>

\* _commit_state: the SQLite commit; the anchor comes next.
Commits(p, event) ==
    /\ AnchorFree
    /\ log' = Append(log, event)
    /\ prior' = anchor
    /\ Goes(p, "publish")
    /\ UNCHANGED <<now, anchor, holder, worker, clock, answer, mishaps>>

FinalizedAnyhow == ~IsTarget(Len(log))
FinalizedInTime == log[Len(log)].item = "accepted"

\* anchor_commit and its read-back. A pending tail is stamped next; a call whose
\* own event is final returns it, or raises if it expired.
Publish(p) ==
    /\ pc[p] = "publish" /\ AnchorFree
    /\ anchor' = Len(log)
    /\ IF Pending \/ ~appended[p]
       THEN /\ Goes(p, IF Pending THEN "stamp" ELSE "ready")
            /\ UNCHANGED <<holder, appended, answer>>
       ELSE /\ Ends(p)
            /\ IF FinalizedInTime
               THEN Answers(log[Len(log) - 1].item)
               ELSE UNCHANGED answer
    /\ UNCHANGED <<now, log, prior, worker, clock, mishaps>>

\* _finalize_event: a second clock reading, bound to the anchored target.
VerdictAtExpiry(t, target) == IF t <= target.notAfter THEN "accepted" ELSE "expired"
Verdict(t, target) == IF t < target.notAfter THEN "accepted" ELSE "expired"
Stamp(p, t) ==
    /\ pc[p] = "stamp" /\ Anchored /\ ClockFree
    /\ Attested(t) /\ t >= LastTime
    /\ Commits(p, Event("finalization", Verdict(t, log[Len(log)]), t, 0))
    /\ UNCHANGED appended

-----------------------------------------------------------------------------
(* Operations *)

Begins(p) == pc[p] = "ready"
Room == Len(log) + 2 <= MaxRevision

\* append and append_settlement return what they already hold.
Replays(p, item) ==
    /\ Begins(p) /\ Ends(p) /\ Answers(item)
    /\ UNCHANGED <<now, log, prior, anchor, worker, clock, mishaps>>

\* Any new event needs a clock reading no earlier than the last event.
Records(p, kind, item, t, notAfter) ==
    /\ Begins(p) /\ Room /\ ClockFree
    /\ Attested(t) /\ t >= LastTime
    /\ Commits(p, Event(kind, item, t, notAfter))
    /\ appended' = [appended EXCEPT ![p] = TRUE]

HasExpiredObservation == \E i \in Targets("observation") : Outcome(i) = "expired"
SameReport(o) == {i \in Targets("observation") : log[i].item.report = o.report}

\* run_id and artifact_sha256 are unique columns.
RunIsNew(o) == \A i \in Targets("observation") :
    log[i].item.run # o.run /\ log[i].item.digest # o.digest

\* The exact tail; windows and identities are compared with the last observation only.
IsNext(o) == o.ordinal = Len(AllObservations) + 1
IsTail(o) ==
    LET items == AllObservations
        n == Len(items)
    IN /\ o.ordinal = n + 1
       /\ o.predecessor = IF n = 0 THEN "none" ELSE items[n].digest
       /\ n > 0 => items[n].ended = o.started /\ o.tokens \cap items[n].tokens = {}

AppendObservation(p, o, t) ==
    /\ ~HasExpiredObservation /\ SameReport(o) = {}
    /\ VerifiesObservation(o, t, TRUE) /\ IsTail(o) /\ RunIsNew(o)
    /\ Records(p, "observation", o, t, o.expires)

ReplayObservation(p, o) ==
    /\ ~HasExpiredObservation
    /\ \E i \in SameReport(o) : log[i].item = o
    /\ Replays(p, o)

SameSnapshot(e) == {i \in Targets("settlement") : log[i].item = e}

\* A snapshot keeps every event of the accepted one before it, at no lesser coverage
\* of any event or of the whole.
CoversNoLess(e, f) == e.covered >= f.covered
Extends(e, f) ==
    /\ EventIds(f) \subseteq EventIds(e)
    /\ \A id \in EventIds(f) :
          e.events[id] = f.events[id] /\ e.coverage[id] >= f.coverage[id]
    /\ e.covered >= f.covered
ExtendsPrevious(e) ==
    \A i \in NewestAccepted([digest |-> e.observation]) : Extends(e, log[i].item)

AppendSettlement(p, e, t) ==
    /\ SameSnapshot(e) = {}
    /\ Evaluable(ActiveObservations, {e}, t) /\ ExtendsPrevious(e)
    /\ Records(p, "settlement", e, t, SettlementNotAfter({e}))

ReplaySettlement(p, e) ==
    /\ \E i \in SameSnapshot(e) : Outcome(i) = "accepted"
    /\ Replays(p, e)

\* evaluate: the report commits to the head it read.
Report(items, evidence) ==
    [decision |-> Decision(items, evidence, TRUE), revision |-> Len(log),
     observations |-> Len(items), evidence |-> evidence]

Evaluate(p, t) ==
    LET items == ActiveObservations
        evidence == LatestSettlements
    IN /\ Evaluable(items, evidence, t)
       /\ Records(p, "evaluation", Report(items, evidence), t, SettlementNotAfter(evidence))

\* observations(), reports() and opening: recovery was all they change.
Read(p) ==
    /\ Begins(p) /\ Ends(p)
    /\ UNCHANGED <<now, log, prior, anchor, worker, clock, answer, mishaps>>

-----------------------------------------------------------------------------
(* Failures *)

Mishap == mishaps < MaxMishaps /\ mishaps' = mishaps + 1

\* A refusal, a lock or callback that fails in time: uncommitted rows are rolled
\* back. An anchor commit may have taken effect before its read-back failed.
Fail(p) ==
    /\ pc[p] # "idle" /\ Ends(p)
    /\ anchor' \in IF pc[p] = "publish" /\ AnchorFree THEN {anchor, Len(log)} ELSE {anchor}
    /\ UNCHANGED <<now, log, prior, worker, clock, answer, mishaps>>

\* An anchor callback outlives its time-out: its thread keeps the anchor lock, and
\* a commit may still publish the revision it was given.
AnchorHangs(p) ==
    /\ pc[p] \in Holding /\ AnchorFree /\ Mishap /\ Ends(p)
    /\ worker' = [owner |-> p, revision |-> IF pc[p] = "publish" THEN Len(log) ELSE 0]
    /\ UNCHANGED <<now, log, prior, anchor, clock, answer>>

AnchorReturns ==
    /\ worker.owner # None /\ worker' = NoWorker
    /\ anchor' \in {anchor} \cup ({worker.revision} \ {0})
    /\ UNCHANGED <<now, log, prior, holder, clock, pc, appended, answer, mishaps>>

\* A clock callback outlives its time-out: nobody on the host may ask again.
ClockHangs(p) ==
    /\ pc[p] \in {"stamp", "ready"} /\ ClockFree /\ Mishap /\ Ends(p)
    /\ clock' = p
    /\ UNCHANGED <<now, log, prior, anchor, worker, answer>>

ClockReturns ==
    /\ clock # None /\ clock' = None
    /\ UNCHANGED <<now, log, prior, anchor, holder, worker, pc, appended,
                   answer, mishaps>>

\* The process dies with its threads; what it had asked of the anchor service may
\* still have arrived.
Crash(p) ==
    /\ pc[p] # "idle" \/ worker.owner = p \/ clock = p
    /\ Mishap /\ Ends(p)
    /\ anchor' \in {anchor} \cup (IF pc[p] = "publish" /\ AnchorFree THEN {Len(log)}
                                  ELSE IF worker.owner = p THEN {worker.revision} \ {0}
                                  ELSE {})
    /\ worker' = IF worker.owner = p THEN NoWorker ELSE worker
    /\ clock' = IF clock = p THEN None ELSE clock
    /\ UNCHANGED <<now, log, prior, answer>>

Tick ==
    /\ now < MaxTime /\ now' = now + 1
    /\ UNCHANGED <<log, prior, anchor, holder, worker, clock, pc, appended,
                   answer, mishaps>>

-----------------------------------------------------------------------------
(* Specification *)

\* create(): an empty ledger whose revision 0 is anchored.
Init ==
    /\ now = 0 /\ log = <<>> /\ prior = 0 /\ anchor = 0
    /\ holder = None /\ worker = NoWorker /\ clock = None
    /\ pc = [p \in Procs |-> "idle"]
    /\ appended = [p \in Procs |-> FALSE]
    /\ answer = None /\ mishaps = 0

Next ==
    \/ \E p \in Procs :
        \/ Enter(p) \/ Verify(p) \/ Publish(p) \/ Read(p)
        \/ \E t \in Time : Stamp(p, t) \/ Evaluate(p, t)
        \/ \E o \in Observations : \/ ReplayObservation(p, o)
                                   \/ \E t \in Time : AppendObservation(p, o, t)
        \/ \E e \in Settlements : \/ ReplaySettlement(p, e)
                                  \/ \E t \in Time : AppendSettlement(p, e, t)
        \/ Fail(p) \/ AnchorHangs(p) \/ ClockHangs(p) \/ Crash(p)
    \/ AnchorReturns \/ ClockReturns \/ Tick

Spec == Init /\ [][Next]_vars

\* Callbacks that hang end, anchor and clock services that are asked again and
\* again answer in time, and somebody keeps opening the ledger.
FairSpec ==
    /\ Spec
    /\ WF_vars(AnchorReturns) /\ WF_vars(ClockReturns)
    /\ WF_vars(\E p \in Procs : Enter(p))
    /\ SF_vars(\E p \in Procs : Verify(p)) /\ SF_vars(\E p \in Procs : Publish(p))
    /\ SF_vars(\E p \in Procs, t \in Time : Stamp(p, t))

-----------------------------------------------------------------------------
(* Properties *)

TypeOK ==
    /\ now \in Time /\ prior \in Nat /\ anchor \in Nat /\ mishaps \in Nat
    /\ holder \in Procs \cup {None} /\ clock \in Procs \cup {None}
    /\ worker.owner \in Procs \cup {None} /\ worker.revision \in Nat
    /\ pc \in [Procs -> Phases]
    /\ appended \in [Procs -> BOOLEAN]
    /\ \A i \in 1..Len(log) :
        /\ log[i].kind \in {"observation", "settlement", "evaluation", "finalization"}
        /\ log[i].at \in Time

\* Whatever failed, crashed or hung: only the holder of the lock file is inside,
\* the rows on disk are rows that opening accepts, at most the tail awaits its
\* finalization, and the anchor is at most one revision behind
\* (TractionLedger._assert_integrity, _commit_state).
LedgerInvariant ==
    /\ TypeOK
    /\ \A p \in Procs : pc[p] \in Holding <=> holder = p
    /\ RowsHold
    /\ anchor \in {Len(log), prior} /\ Len(log) \in {prior, prior + 1}

\* What append, append_settlement or evaluate has returned, replays included, is
\* finalized as accepted, under an anchor that covers the finalization.
AnswersAreFinal ==
    answer # None => \E i \in 1..Len(log) :
        IsTarget(i) /\ log[i].item = answer /\ Outcome(i) = "accepted" /\ anchor > i

\* A report recommends scale review only over observations that were all finalized
\* in time, but for a last one that the active projection leaves out, each with a
\* settlement snapshot that was the newest one offered, accepted, and still current
\* at the report's time (_read_observations, _latest_settlements, evaluate).
ReadyIsEarned ==
    \A i \in Targets("evaluation") : log[i].item.decision = "ready_for_scale_review" =>
        LET observed == {j \in Targets("observation") : j < i}
            active == {j \in observed : log[j + 1].at < log[j].item.expires}
        IN
        /\ active # {}
        /\ \A j \in observed \ active, m \in observed : m <= j
        /\ \A j \in active :
            /\ log[j].item.verified
            /\ \E k \in SettlementsOf(log[j].item) :
                /\ k < i /\ log[i].at < log[k].item.expires /\ Outcome(k) = "accepted"
                /\ log[k].item \in log[i].item.evidence
                /\ \A m \in SettlementsOf(log[j].item) : m > k => m > i

\* Accepted settlement snapshots of an observation never drop or change an event
\* that an earlier one reported, nor cover less.
SettledHistoryIsKept ==
    \A i, j \in Targets("settlement") :
        i < j /\ log[i].item.observation = log[j].item.observation
              /\ Outcome(i) = "accepted" /\ Outcome(j) = "accepted"
        => /\ log[i].item.covered <= log[j].item.covered
           /\ \A id \in EventIds(log[i].item) :
                /\ id \in EventIds(log[j].item)
                /\ log[i].item.events[id] = log[j].item.events[id]
                /\ log[i].item.coverage[id] <= log[j].item.coverage[id]

\* No callback that outlived its time-out takes the external anchor back.
AnchorNeverFallsBack == [][anchor' >= anchor]_anchor

\* The ledger is a TimelyLog of its target events.
Entries == [k \in 1..((Len(log) + 1) \div 2) |->
    LET target == log[2 * k - 1]
        final == log[2 * k]
    IN [item |-> target.item, opened |-> target.at, notAfter |-> target.notAfter,
        settled |-> IF 2 * k <= Len(log) THEN final.at ELSE target.at,
        verdict |-> Outcome(2 * k - 1)]]
Abstract == INSTANCE TimelyLog WITH entries <- Entries
ImplementsTimelyLog == Abstract!Spec

\* A tail that a crash, a hung callback or an outage left pending is finalized.
PendingIsFinalized == Pending ~> ~Pending

\* No two observations of the ledger use one click or transaction identity.
IdentitiesAreUnique ==
    \A i, j \in Targets("observation") :
        i # j => log[i].item.tokens \cap log[j].item.tokens = {}
=============================================================================
