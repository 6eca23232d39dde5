--------------------------- MODULE VerifiedRunner ---------------------------
(***************************************************************************)
(* The consumer store of saas_preflight's P19 verified runner: it takes a  *)
(* bundle of evidence once, at the time a trusted clock gives it, and      *)
(* leaves a chained, signed receipt.                                       *)
(*                                                                         *)
(* A caller holds the store's lock file throughout. Before it asks the     *)
(* clock it commits and anchors a freeze, which only the receipt of that   *)
(* very request lifts. The external anchor trails the SQLite file, and an  *)
(* anchor callback that was given up may still write later.                *)
(***************************************************************************)
EXTENDS RunnerEvidence, Sequences

CONSTANTS
    Procs,        \* processes with the store open
    Runs,         \* the complete evidence of each run that took place
    Bundles,      \* evidence that is offered, whoever assembled it
    PinSets,      \* authority pins that callers bring
    None,         \* "nobody", "nothing"
    ClockLag,     \* the trusted clock may lag behind by this much
    MaxTime,      \* bound: time stops here
    MaxMishaps    \* bound: crashes and hung callbacks in a behaviour

ASSUME RunnerBounds ==
    /\ ClockLag \in Nat /\ MaxTime \in Nat /\ MaxMishaps \in Nat
    /\ None \notin Procs

\* What the image builder and the trusted clock sign is of a run, each run binds its
\* own artifacts, and no two runs gave the same records to the same challenge.
ASSUME SignersAreHonest ==
    /\ \A b \in Bundles :
        /\ b.imageSeal.signer = "image_builder" =>
            \E run \in Runs : run.imageSeal = b.imageSeal
        /\ b.clock.signer = "time_auditor" => \E run \in Runs : run.clock = b.clock
    /\ \A run \in Runs : BundleHolds(run)
    /\ \A run \in Runs, other \in Runs :
        run.challenge = other.challenge /\ run.records = other.records
            => Content(run) = Content(other)

VARIABLES
    now,      \* true time
    rows,     \* the receipts, by sequence
    revision, \* meta.anchor_revision
    frozen,   \* meta.clock_frozen
    prior,    \* meta.previous_anchor_sha256, as a revision
    anchor,   \* the external anchor, as a revision
    holder,   \* who holds the lock file
    late,     \* revisions that abandoned anchor callbacks may still write
    pc,       \* pc[p]: where p's call is
    job,      \* job[p]: the bundle and the pins of p's call
    asked,    \* how many requests the trusted clock has seen
    mishaps   \* crashes and hung callbacks so far

store == <<rows, revision, frozen, prior>>
vars == <<now, rows, revision, frozen, prior, anchor, holder, late, pc, job,
          asked, mishaps>>

Time == 0..MaxTime
NoJob == [bundle |-> None, pins |-> None]

EvidenceHead == IF rows = <<>> THEN NoHead ELSE rows[Len(rows)].bundle
Anchored == anchor = revision

\* VerifiedRunnerConsumptionReceipt: the clock answered for exactly this tail.
Receipt(b, t) == [sequence |-> Len(rows) + 1, previous |-> EvidenceHead, bundle |-> b,
    challenge |-> b.challenge, request |-> asked, at |-> t]

\* _assert_integrity on the receipt chain.
ChainHolds == \A i \in 1..Len(rows) :
    /\ rows[i].sequence = i
    /\ rows[i].previous = IF i = 1 THEN NoHead ELSE rows[i - 1].bundle

\* The external anchor is this revision, or the one before it.
Recoverable == Anchored \/ anchor = prior

-----------------------------------------------------------------------------
(* How calls move and end *)

Goes(p, phase) == pc' = [pc EXCEPT ![p] = phase]

Leaves(p) ==
    /\ Goes(p, "idle") /\ holder' = None
    /\ job' = [job EXCEPT ![p] = NoJob]

CommitsUnlinked(receipts, freeze) ==
    /\ rows' = receipts /\ frozen' = freeze
    /\ revision' = revision + 1 /\ UNCHANGED prior

\* One SQLite transaction: the state, its revision and the anchor it follows.
Commits(receipts, freeze) ==
    /\ rows' = receipts /\ frozen' = freeze
    /\ revision' = revision + 1 /\ prior' = anchor

\* The anchor service keeps the greatest revision it was given.
Writes(r) == anchor' = Max({anchor, r})

\* _file_lock. A call that waits for it in vain changes nothing.
Enter(p) ==
    /\ pc[p] = "idle" /\ holder = None
    /\ holder' = p /\ Goes(p, "open")
    /\ \E b \in Bundles, pins \in PinSets :
        /\ BundleHolds(b)
        /\ job' = [job EXCEPT ![p] = [bundle |-> b, pins |-> pins]]
    /\ UNCHANGED <<now, store, anchor, late, asked, mishaps>>

\* _assert_integrity publishes an anchor that is one revision behind.
Recover(p) ==
    /\ pc[p] = "open" /\ ChainHolds /\ ~Anchored /\ anchor = prior
    /\ Writes(revision)
    /\ UNCHANGED <<now, store, holder, late, pc, job, asked, mishaps>>

\* The challenge must name the store's exact unused tail, and so must the pins.
IsTail(j) ==
    /\ j.pins.sequence = Len(rows) + 1 /\ j.pins.previous = EvidenceHead
    /\ j.bundle.challenge.sequence = Len(rows) + 1
    /\ j.bundle.challenge.previous = EvidenceHead

FrozenAnyway == frozen \in BOOLEAN
NotFrozen == ~frozen

\* _arm_clock_freeze: the intent is committed before the clock is asked.
Arm(p) ==
    /\ pc[p] = "open" /\ ChainHolds /\ Anchored
    /\ NotFrozen /\ IsTail(job[p])
    /\ Commits(rows, TRUE)
    /\ Goes(p, "arming")
    /\ UNCHANGED <<now, anchor, holder, late, job, asked, mishaps>>

\* The callback and its read-back. The clock is asked next.
AskClock(p) ==
    /\ pc[p] = "arming"
    /\ Writes(revision) /\ anchor' = revision
    /\ asked' = asked + 1
    /\ Goes(p, "asking")
    /\ UNCHANGED <<now, store, holder, late, job, mishaps>>

\* What the clock may sign when it is asked now.
Attested(t) == t \in Time /\ t <= now /\ now <= t + ClockLag

Unused(b) == \A i \in 1..Len(rows) :
    rows[i].bundle # b /\ rows[i].challenge # b.challenge

\* The evidence is verified at the clock's time; only then is the freeze lifted.
Consume(p, t) == LET j == job[p] IN
    /\ pc[p] = "asking" /\ Attested(t)
    /\ ChainHolds /\ Anchored /\ frozen
    /\ Verified(j.bundle, j.pins, t) /\ Unused(j.bundle)
    /\ Commits(Append(rows, Receipt(j.bundle, t)), FALSE)
    /\ Goes(p, "recording")
    /\ UNCHANGED <<now, anchor, holder, late, job, asked, mishaps>>

\* anchor_commit and its read-back; the receipt is returned.
Return(p) ==
    /\ pc[p] = "recording"
    /\ Writes(revision) /\ anchor' = revision
    /\ Leaves(p)
    /\ UNCHANGED <<now, store, late, asked, mishaps>>

\* A call that is refused, at any of its checks, or whose clock fails: the
\* transaction is rolled back, and the freeze stays (_persist_clock_freeze finds
\* it already armed).
Refuse(p) ==
    /\ pc[p] \in {"open", "asking"}
    /\ Leaves(p)
    /\ UNCHANGED <<now, store, anchor, late, asked, mishaps>>

-----------------------------------------------------------------------------
(* What goes wrong *)

Mishap == mishaps < MaxMishaps /\ mishaps' = mishaps + 1

\* _bounded_store_callback gives up on an anchor callback that still runs.
AnchorHangs(p) ==
    /\ Mishap
    /\ \/ pc[p] \in {"arming", "recording"}
       \/ pc[p] = "open" /\ ~Anchored /\ Recoverable
    /\ late' = late \cup {revision}
    /\ Leaves(p)
    /\ UNCHANGED <<now, store, anchor, asked>>

LateWrite(r) ==
    /\ r \in late /\ late' = late \ {r}
    /\ Writes(r)
    /\ UNCHANGED <<now, store, holder, pc, job, asked, mishaps>>

\* The process dies; SQLite rolls back what it had not committed.
Crash(p) ==
    /\ Mishap /\ pc[p] # "idle"
    /\ Leaves(p)
    /\ UNCHANGED <<now, store, anchor, late, asked>>

Tick ==
    /\ now < MaxTime /\ now' = now + 1
    /\ UNCHANGED <<store, anchor, holder, late, pc, job, asked, mishaps>>

-----------------------------------------------------------------------------

\* create: an empty store, anchored.
Init ==
    /\ now = 0 /\ rows = <<>> /\ revision = 0 /\ frozen = FALSE
    /\ prior = 0 /\ anchor = 0 /\ holder = None /\ late = {}
    /\ pc = [p \in Procs |-> "idle"] /\ job = [p \in Procs |-> NoJob]
    /\ asked = 0 /\ mishaps = 0

Next ==
    \/ \E p \in Procs :
        \/ Enter(p) \/ Recover(p) \/ Arm(p) \/ AskClock(p) \/ Return(p)
        \/ Refuse(p) \/ AnchorHangs(p) \/ Crash(p)
        \/ \E t \in Time : Consume(p, t)
    \/ \E r \in late : LateWrite(r)
    \/ Tick

Spec == Init /\ [][Next]_vars

-----------------------------------------------------------------------------
(* Properties *)

Phases == {"idle", "open", "arming", "asking", "recording"}
TypeOK ==
    /\ now \in Time /\ revision \in Nat /\ frozen \in BOOLEAN
    /\ prior \in Nat /\ anchor \in Nat /\ holder \in Procs \cup {None}
    /\ late \subseteq 0..revision
    /\ pc \in [Procs -> Phases] /\ asked \in Nat /\ mishaps \in 0..MaxMishaps
    /\ \A p \in Procs : pc[p] # "idle" <=> holder = p
    /\ ChainHolds

\* Whatever crashes, hangs or answers late, the anchor is the store's revision or
\* the one it names as its predecessor, so that no call ever finds a store it must
\* refuse for good (_assert_integrity and the two commits of consume).
StoreIsRecoverable == TypeOK /\ Recoverable

\* Each answer that was asked of the clock went into one receipt, or has left the
\* store frozen: no second answer can be asked to replace one that did not suit
\* (_arm_clock_freeze before _obtain_clock_attestation).
AnswersAreNotShoppedFor ==
    /\ asked \in {Len(rows), Len(rows) + 1}
    /\ asked > Len(rows) => frozen

\* However the artifacts of several runs are shuffled into bundles, what the store
\* takes is the complete evidence of one run (consume, BundleHolds).
EvidenceIsOfOneRun == \A i \in 1..Len(rows) :
    \E run \in Runs : Content(rows[i].bundle) = Content(run)
=============================================================================
