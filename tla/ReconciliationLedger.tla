-------------------------- MODULE ReconciliationLedger --------------------------
(***************************************************************************)
(* The reconciliation ledger of saas_preflight's P15: signed facts about   *)
(* what the provider did when a P13 mutation ended in STOP or UNKNOWN. A   *)
(* P13 consumer that was stopped is reset only on such a record.           *)
(*                                                                         *)
(* append checks its facts at the time its caller gives, then waits for    *)
(* the lock file without a limit, commits, and publishes the anchor.       *)
(***************************************************************************)
EXTENDS Integers, FiniteSets, FiniteSetsExt, Sequences

CONSTANTS
    Procs,       \* processes with the ledger open
    Facts,       \* facts that the recovery auditor, or someone else, signs
    Stops,       \* stopped store revisions, with their heads and reasons
    None,        \* "nobody", "nothing"
    MaxTime,     \* bound: time stops here
    MaxMishaps   \* bound: crashes and failing anchor callbacks

VARIABLES
    now,      \* true time
    rows,     \* the records, by revision
    prior,    \* meta.previous_anchor_sha256, as a revision
    anchor,   \* the external anchor, as a revision
    holder,   \* who holds the lock file
    pc,       \* pc[p]: where p's append is
    job,      \* job[p]: its facts, report and time
    mishaps   \* crashes and failing callbacks so far

store == <<rows, prior>>
vars == <<now, rows, prior, anchor, holder, pc, job, mishaps>>

Time == 0..MaxTime

\* What the bounds have to be.
LedgerBounds ==
    /\ None \notin Procs /\ MaxTime \in Nat
    /\ \A f \in Facts : f.observed \in Int /\ f.expires \in Int

NoJob == [facts |-> None, report |-> None, at |-> None]

-----------------------------------------------------------------------------
(* Facts, reports and records *)

\* ProductionReconciliationFacts
FactsHold(f) ==
    /\ f.observed < f.expires
    /\ f.provider = "applied" => f.receipt = f.journaled

\* verify_production_reconciliation_facts
Authentic(f) == f.signer = "recovery_auditor"
FactsVerify(f, t) == Authentic(f) /\ f.observed <= t /\ t < f.expires

\* evaluate_production_reconciliation
Action(f) ==
    CASE f.terminal = "stop" -> "keep_stop"
      [] f.provider = "applied" -> "request_human_disable"
      [] f.provider = "not_applied" -> "keep_stop"
      [] OTHER -> "manual_remediation"

\* There is no report on facts from the future.
Evaluable(f, t) == f.observed <= t
Report(f, t) == [facts |-> f, action |-> Action(f), at |-> t]

Record(j) == [revision |-> Len(rows) + 1, previous |-> Len(rows), facts |-> j.facts,
    report |-> j.report, at |-> j.at]

\* _assert_integrity on the rows; a record's hash stands for its revision.
ChainHolds == \A i \in DOMAIN rows :
    /\ rows[i].revision = i /\ rows[i].previous = i - 1
    /\ rows[i].report.facts = rows[i].facts /\ Authentic(rows[i].facts)

Anchored == anchor = Len(rows)
Recoverable == Anchored \/ anchor = prior

-----------------------------------------------------------------------------
(* append *)

Goes(p, phase) == pc' = [pc EXCEPT ![p] = phase]
Leaves(p) == Goes(p, "idle") /\ holder' = None /\ job' = [job EXCEPT ![p] = NoJob]

\* What is checked before the ledger is locked, at any time t of the caller's;
\* anything else is an error.
Ask(p, f, evaluated, t) ==
    /\ pc[p] = "idle"
    /\ FactsHold(f) /\ Evaluable(f, evaluated)
    /\ FactsVerify(f, t) /\ evaluated <= t
    /\ job' = [job EXCEPT ![p] = [facts |-> f, report |-> Report(f, evaluated), at |-> t]]
    /\ Goes(p, "waiting")
    /\ UNCHANGED <<now, store, anchor, holder, mishaps>>

\* _file_lock: flock, for as long as it takes
Lock(p) ==
    /\ pc[p] = "waiting" /\ holder = None
    /\ holder' = p /\ Goes(p, "open")
    /\ UNCHANGED <<now, store, anchor, job, mishaps>>

\* The anchor service keeps the greatest revision it was given.
Writes(r) == anchor' = Max({anchor, r})

\* _assert_integrity publishes an anchor that is one record behind.
Recover(p) ==
    /\ pc[p] = "open" /\ ChainHolds /\ ~Anchored /\ anchor = prior
    /\ Writes(Len(rows)) /\ anchor' = Len(rows)
    /\ UNCHANGED <<now, store, holder, pc, job, mishaps>>

Recorded(j) == \E i \in DOMAIN rows : rows[i].facts = j.facts
\* One record for each P13 result, and so for each set of facts.
FactsAreNew(j) == ~Recorded(j)
ResultIsNew(j) == \A i \in DOMAIN rows : rows[i].facts.result # j.facts.result

\* The facts are there: the record is returned, or their report was another one.
Replay(p) ==
    /\ pc[p] = "open" /\ ChainHolds /\ Anchored /\ Recorded(job[p])
    /\ Leaves(p)
    /\ UNCHANGED <<now, store, anchor, mishaps>>

Commit(p) == LET j == job[p] IN
    /\ pc[p] = "open" /\ ChainHolds /\ Anchored
    /\ ResultIsNew(j)
    /\ rows' = Append(rows, Record(j)) /\ prior' = anchor
    /\ Goes(p, "recorded")
    /\ UNCHANGED <<now, anchor, holder, job, mishaps>>

\* The ledger does not hold, or has other facts about this P13 result.
Refuse(p) ==
    /\ pc[p] = "open"
    /\ \/ ~ChainHolds \/ ~Recoverable
       \/ Anchored /\ ~Recorded(job[p]) /\ ~ResultIsNew(job[p])
    /\ Leaves(p)
    /\ UNCHANGED <<now, store, anchor, mishaps>>

\* The anchor is published and read back.
Return(p) ==
    /\ pc[p] = "recorded"
    /\ Writes(Len(rows)) /\ anchor' = Len(rows)
    /\ Leaves(p)
    /\ UNCHANGED <<now, store, mishaps>>

\* Opening the ledger, or verifies_for_reset, between appends: recovers the anchor.
Inspect ==
    /\ holder = None /\ ChainHolds /\ ~Anchored /\ anchor = prior
    /\ Writes(Len(rows)) /\ anchor' = Len(rows)
    /\ UNCHANGED <<now, store, holder, pc, job, mishaps>>

\* The process dies, or an anchor callback raises: the file lock goes, what was
\* committed stays, and the callback may have written.
Fail(p) ==
    /\ mishaps < MaxMishaps /\ mishaps' = mishaps + 1
    /\ pc[p] # "idle"
    /\ Goes(p, "idle") /\ job' = [job EXCEPT ![p] = NoJob]
    /\ holder' = IF holder = p THEN None ELSE holder
    /\ \/ pc[p] = "recorded" /\ Writes(Len(rows))
       \/ UNCHANGED anchor
    /\ UNCHANGED <<now, store>>

Tick ==
    /\ now < MaxTime /\ now' = now + 1
    /\ UNCHANGED <<store, anchor, holder, pc, job, mishaps>>

\* create: empty, and anchored
Init ==
    /\ now = 0 /\ rows = <<>> /\ prior = 0 /\ anchor = 0 /\ holder = None
    /\ pc = [p \in Procs |-> "idle"] /\ job = [p \in Procs |-> NoJob]
    /\ mishaps = 0

Next ==
    \/ \E p \in Procs :
        \/ \E f \in Facts, evaluated \in Time, t \in Time : Ask(p, f, evaluated, t)
        \/ Lock(p) \/ Recover(p) \/ Replay(p) \/ Commit(p) \/ Refuse(p)
        \/ Return(p) \/ Fail(p)
    \/ Inspect
    \/ Tick

Spec == Init /\ [][Next]_vars

-----------------------------------------------------------------------------
(* verifies_for_reset *)

\* What a reset of a stop would be told about record i at its own time t, if the
\* lock were free.
Verifies(i, stop, t) == LET r == rows[i] IN
    /\ ChainHolds /\ Recoverable
    /\ r.report.action = "keep_stop" /\ r.facts.provider = "not_applied"
    /\ r.facts.stop = stop
    /\ FactsVerify(r.facts, t)

-----------------------------------------------------------------------------
(* Properties *)

\* A stop is reset only on the one record there is of its P13 result, which was
\* observed before it was evaluated and evaluated before it was recorded, says that
\* nothing was applied, and is still good; no crash can leave a ledger in which it
\* could not be found (append and verifies_for_reset).
ResetIsEarned ==
    /\ Recoverable
    /\ \A i \in DOMAIN rows, stop \in Stops, t \in 0..now : Verifies(i, stop, t) =>
        /\ \A k \in DOMAIN rows : rows[k].facts.result = rows[i].facts.result => k = i
        /\ rows[i].facts.provider = "not_applied" /\ rows[i].facts.stop = stop
        /\ rows[i].facts.observed <= rows[i].report.at
        /\ rows[i].report.at <= rows[i].at
        /\ rows[i].at < rows[i].facts.expires /\ t < rows[i].facts.expires
=============================================================================
