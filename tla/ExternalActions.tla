--------------------------- MODULE ExternalActions ---------------------------
(***************************************************************************)
(* The external action guard of saas_preflight (P11): one authenticated    *)
(* SQLite file of revocations, claims and receipts, its companion anchor   *)
(* file and its external monotonic pin, and the guards that share them.    *)
(*                                                                         *)
(* Each process holds one ExternalActionExecutionGuard, whose lock admits  *)
(* one call at a time; the calls of different processes meet at the        *)
(* store's lock file.  A transaction commits the SQLite file, then         *)
(* rewrites the anchor file, then publishes the pin, all under that lock.  *)
(* Any difference between the three makes the store refuse every call.     *)
(***************************************************************************)
EXTENDS Naturals, FiniteSets

CONSTANTS
    Procs,        \* processes with a guard on the store
    Grants,       \* signed controller execution grants
    RequestId,    \* RequestId[g]: the request that g executes
    Key,          \* Key[g]: the request's idempotency key
    Issued,       \* Issued[g]: grant.issued_at
    Expiry,       \* Expiry[g]: grant.expires_at, no later than request and approval
    MaxDelay,     \* policy.maximum_receipt_delay_seconds
    None,         \* "no claim", "no receipt"
    MaxTime,      \* bound: the clock stops here
    MaxRevision,  \* bound: durable transactions in a behaviour
    MaxIncidents  \* bound: crashes and failed writes in a behaviour

Time == 0..MaxTime
Results == {"succeeded", "failed"}
Receipts == [result : Results, at : Time]

ASSUME GrantAssumption ==
    Issued \in [Grants -> Time] /\ Expiry \in [Grants -> Time]
ASSUME BoundAssumption ==
    MaxDelay \in Nat /\ MaxTime \in Nat /\ MaxRevision \in Nat /\ MaxIncidents \in Nat
ASSUME NoneAssumption == None \notin Nat /\ None \notin Receipts

VARIABLES
    now,          \* the guards' clock
    incidents,    \* crashes and failures so far
    (* The SQLite file *)
    revision,     \* state_revision; it stands for the state MAC as well
    claims,       \* claims[g]: claimed_at of the stored claim
    receipts,     \* receipts[g]: the stored terminal receipt
    revocations,  \* revocations[g]: effective_at of the stored revocations
    (* What authenticates it *)
    file, torn,   \* revision in the anchor file; the file is truncated
    pin,          \* revision in the external anchor
    late,         \* late[p]: revision that a timed-out callback of p will publish
    (* The guards *)
    pc,           \* pc[p]: where p's call is
    job,          \* job[p]: its grant and its time argument
    view          \* view[p]: what fold_action_journal read in its snapshot

dbVars == <<revision, claims, receipts, revocations>>
anchorVars == <<file, torn, pin, late>>
guardVars == <<pc, job, view>>
vars == <<now, incidents, dbVars, anchorVars, guardVars>>

-----------------------------------------------------------------------------
(* States *)

\* "closed": no guard; "revoking": waits for the lock with a signed revocation;
\* "committed", "written": inside _write_anchor; "fenced": inside dispatch_fence;
\* "checked": verifies_claim between its two snapshots; "folding": between a
\* fold's snapshot and its currency check; "valid", "reported": the answers.
Phases == {"closed", "idle", "revoking", "committed", "written", "fenced",
           "checked", "valid", "folding", "reported"}
Holding == {"committed", "written", "fenced"}
Waiting == {"revoking", "checked", "folding"}

Jobs == [grant : Grants \cup {None}, time : Time]
NoJob == [grant |-> None, time |-> 0]
AuthorityStates == {"granted", "claimed", "expired", "revoked"}
OutcomeStates == Results \cup {"pending"}
Views == [revision : Nat, authority : AuthorityStates, outcome : OutcomeStates]
NoView == [revision |-> 0, authority |-> "granted", outcome |-> "pending"]

\* _file_lock: the flock dies with its holder.
LockFreeDuringFence == \A p \in Procs : pc[p] \notin {"committed", "written"}
LockFree == \A p \in Procs : pc[p] \notin Holding

\* _assert_integrity: the database, the anchor file and the external pin agree.
IntactOrUnpinned == ~torn /\ file = revision
Intact == ~torn /\ file = revision /\ pin = revision

\* A store call that has the lock and trusts what it reads.
Enters == LockFree /\ Intact

\* The unique columns of external_action_claims.
Rival(g, h) == g = h \/ Key[g] = Key[h] \/ RequestId[g] = RequestId[h]

RevokedAt(g, at) == \E from \in revocations[g] : from <= at

\* fold_action_journal: what the durable state says of g at a time.
AuthorityState(g, at) ==
    IF RevokedAt(g, at) THEN "revoked"
    ELSE IF claims[g] # None THEN "claimed"
    ELSE IF at >= Expiry[g] THEN "expired" ELSE "granted"
OutcomeState(g) == IF receipts[g] = None THEN "pending" ELSE receipts[g].result

TypeOK ==
    /\ now \in Time /\ incidents \in Nat /\ revision \in Nat
    /\ claims \in [Grants -> Time \cup {None}]
    /\ receipts \in [Grants -> Receipts \cup {None}]
    /\ revocations \in [Grants -> SUBSET Time]
    /\ file \in Nat /\ torn \in BOOLEAN /\ pin \in Nat /\ late \in [Procs -> Nat]
    /\ pc \in [Procs -> Phases] /\ job \in [Procs -> Jobs] /\ view \in [Procs -> Views]
    /\ \A p \in Procs : pc[p] \in {"revoking", "fenced", "checked", "valid",
                                   "folding", "reported"} => job[p].grant \in Grants

-----------------------------------------------------------------------------
(* How calls begin, move and end *)

Begin(p, phase, g, t) ==
    /\ pc' = [pc EXCEPT ![p] = phase]
    /\ job' = [job EXCEPT ![p] = [grant |-> g, time |-> t]]

\* The call returns or raises.
Ends(p) ==
    /\ pc' = [pc EXCEPT ![p] = "idle"]
    /\ job' = [job EXCEPT ![p] = NoJob]
    /\ view' = [view EXCEPT ![p] = NoView]

\* _advance_integrity and COMMIT; the anchor is still to be written.
Commits(p) ==
    /\ revision' = revision + 1
    /\ pc' = [pc EXCEPT ![p] = "committed"]
    /\ job' = [job EXCEPT ![p] = NoJob]
    /\ UNCHANGED <<view, anchorVars, now, incidents>>

\* Bound: every queued revocation still finds a revision below MaxRevision.
Room == revision + Cardinality({p \in Procs : pc[p] = "revoking"}) < MaxRevision

Incident == incidents < MaxIncidents /\ incidents' = incidents + 1

\* open(): the pin the operator supplies and the three parts must agree.
Open(p) ==
    /\ pc[p] = "closed" /\ Enters
    /\ pc' = [pc EXCEPT ![p] = "idle"]
    /\ UNCHANGED <<now, incidents, dbVars, anchorVars, job, view>>

-----------------------------------------------------------------------------
(* Revocations *)

\* register_revocation: a signed revocation is valid; the writer queues for the lock.
AskRevocation(p, g, effective) ==
    /\ pc[p] = "idle" /\ Room
    /\ effective >= Issued[g]
    /\ Begin(p, "revoking", g, effective)
    /\ UNCHANGED <<now, incidents, dbVars, anchorVars, view>>

\* A second revocation with the same effective time is stored beside the first.
Register(p) ==
    LET g == job[p].grant IN
    /\ pc[p] = "revoking" /\ Enters
    /\ revocations' = [revocations EXCEPT ![g] = @ \cup {job[p].time}]
    /\ Commits(p)
    /\ UNCHANGED <<claims, receipts>>

\* The same revocation is stored already: nothing is written.
RegisterAgain(p) ==
    /\ pc[p] = "revoking" /\ Enters
    /\ job[p].time \in revocations[job[p].grant]
    /\ Ends(p)
    /\ UNCHANGED <<now, incidents, dbVars, anchorVars>>

-----------------------------------------------------------------------------
(* Claims and receipts *)

\* verifies_artifacts at the guard's clock, then the checks of _claim_if_unrevoked.
CanClaimAnyKey(g) ==
    /\ Issued[g] <= now /\ now < Expiry[g]
    /\ ~RevokedAt(g, now)
    /\ claims[g] = None
CanClaim(g) ==
    /\ Issued[g] <= now /\ now < Expiry[g]
    /\ ~RevokedAt(g, now)
    /\ \A h \in Grants : Rival(g, h) => claims[h] = None

Claim(p, g) ==
    /\ pc[p] = "idle" /\ Enters /\ Room
    /\ CanClaim(g)
    /\ claims' = [claims EXCEPT ![g] = now]
    /\ Commits(p)
    /\ UNCHANGED <<receipts, revocations>>

\* sign_action_receipt: the completion time is the guard's clock under the lock.  The
\* same receipt again changes nothing; any other is refused.
CanConcludeOver(g) == claims[g] # None /\ now <= claims[g] + MaxDelay
CanConclude(g) ==
    /\ claims[g] # None /\ receipts[g] = None
    /\ claims[g] <= now /\ now <= claims[g] + MaxDelay

Conclude(p, g, result) ==
    /\ pc[p] = "idle" /\ Enters /\ Room
    /\ CanConclude(g)
    /\ receipts' = [receipts EXCEPT ![g] = [result |-> result, at |-> now]]
    /\ Commits(p)
    /\ UNCHANGED <<claims, revocations>>

-----------------------------------------------------------------------------
(* The dispatch fence: the caller mutates the outside world before the limit *)

\* A revocation that takes effect inside the window closes the whole window.
FenceOpenNow(g, limit) == ~RevokedAt(g, now)
FenceOpen(g, limit) == \A from \in revocations[g] : from >= limit

EnterFence(p, g, limit) ==
    /\ pc[p] = "idle" /\ Enters
    /\ \E at \in Time : at < limit   \* at: the caller's observation
    /\ limit <= Expiry[g]
    /\ claims[g] # None
    /\ FenceOpen(g, limit)
    /\ Begin(p, "fenced", g, limit)
    /\ UNCHANGED <<now, incidents, dbVars, anchorVars, view>>

LeaveFence(p) ==
    /\ pc[p] = "fenced"
    /\ Ends(p)
    /\ UNCHANGED <<now, incidents, dbVars, anchorVars>>

-----------------------------------------------------------------------------
(* Verification and the journal fold: two reads, each under the lock *)

\* verifies_claim: the claim is read first, the revocations in a second snapshot; any
\* time will do.
CheckClaim(p, g, at) ==
    /\ pc[p] = "idle" /\ Enters
    /\ claims[g] # None
    /\ Begin(p, "checked", g, at)
    /\ UNCHANGED <<now, incidents, dbVars, anchorVars, view>>

StillAuthorizedAnyway(p) == pc[p] = "checked"
StillAuthorized(p) == ~RevokedAt(job[p].grant, job[p].time)

CheckRevocations(p) ==
    /\ pc[p] = "checked" /\ Enters
    /\ StillAuthorized(p)
    /\ pc' = [pc EXCEPT ![p] = "valid"]
    /\ UNCHANGED <<now, incidents, dbVars, anchorVars, job, view>>

\* fold_action_journal: one snapshot; every stored artifact must be journaled, so
\* none may be later than the evaluation time. That time is one of the past or present.
FoldSnapshot(p, g, at) ==
    /\ pc[p] = "idle" /\ Enters
    /\ at <= now /\ Issued[g] <= at
    /\ claims[g] # None => claims[g] <= at
    /\ receipts[g] # None => receipts[g].at <= at
    /\ Begin(p, "folding", g, at)
    /\ view' = [view EXCEPT ![p] =
           [revision |-> revision, authority |-> AuthorityState(g, at),
            outcome |-> OutcomeState(g)]]
    /\ UNCHANGED <<now, incidents, dbVars, anchorVars>>

\* _snapshot_is_current, just before the report is returned.
AssumesCurrent(p) == view[p].revision <= revision
IsCurrent(p) == view[p].revision = revision

FoldReturns(p) ==
    /\ pc[p] = "folding" /\ Enters
    /\ IsCurrent(p)
    /\ pc' = [pc EXCEPT ![p] = "reported"]
    /\ UNCHANGED <<now, incidents, dbVars, anchorVars, job, view>>

Return(p) ==
    /\ pc[p] \in {"valid", "reported"}
    /\ Ends(p)
    /\ UNCHANGED <<now, incidents, dbVars, anchorVars>>

-----------------------------------------------------------------------------
(* A call that is refused *)

\* The lock is busy for five seconds.
TimesOutNever(p) == FALSE
TimesOut(p) ==
    /\ pc[p] \in Waiting
    /\ ~LockFree
    /\ Ends(p)
    /\ UNCHANGED <<now, incidents, dbVars, anchorVars>>

\* The store is not intact, or the answer is no.
Refused(p) ==
    /\ pc[p] \in Waiting /\ LockFree
    /\ \/ ~Intact
       \/ pc[p] = "checked" /\ ~StillAuthorized(p)
       \/ pc[p] = "folding" /\ ~IsCurrent(p)
    /\ Ends(p)
    /\ UNCHANGED <<now, incidents, dbVars, anchorVars>>

\* The external anchor, which is read under the lock, cannot be read in time.
ReadFails(p) ==
    /\ pc[p] \in Waiting /\ LockFree /\ Incident
    /\ Ends(p)
    /\ UNCHANGED <<now, dbVars, anchorVars>>

-----------------------------------------------------------------------------
(* _write_anchor: the file, then the pin *)

WriteFile(p) ==
    /\ pc[p] = "committed"
    /\ file' = revision /\ torn' = FALSE
    /\ pc' = [pc EXCEPT ![p] = "written"]
    /\ UNCHANGED <<now, incidents, dbVars, pin, late, job, view>>

PublishPin(p) ==
    /\ pc[p] = "written"
    /\ pin' = revision
    /\ Ends(p)
    /\ UNCHANGED <<now, incidents, dbVars, file, torn, late>>

\* What the anchor file may hold when its rewriting is cut short.
FileAfterFailure ==
    \/ file' = file /\ torn' = torn          \* it was not opened
    \/ file' = file /\ torn' = TRUE          \* it was truncated
    \/ file' = revision /\ torn' = FALSE     \* it was written after all

WriteFails(p) ==
    /\ pc[p] = "committed" /\ Incident
    /\ FileAfterFailure
    /\ Ends(p)
    /\ UNCHANGED <<now, dbVars, pin, late>>

\* The callback raises or its read-back does, or it times out and its thread goes on.
PublishFails(p) ==
    /\ pc[p] = "written" /\ Incident
    /\ \/ pin' \in {pin, revision} /\ UNCHANGED late
       \/ late' = [late EXCEPT ![p] = revision] /\ UNCHANGED pin
    /\ Ends(p)
    /\ UNCHANGED <<now, dbVars, file, torn>>

\* The daemon thread of a timed-out callback reaches the external anchor.
LatePublish(p) ==
    /\ late[p] # 0
    /\ pin' = late[p]
    /\ late' = [late EXCEPT ![p] = 0]
    /\ UNCHANGED <<now, incidents, dbVars, file, torn, guardVars>>

Crash(p) ==
    /\ pc[p] # "closed" /\ Incident
    /\ \/ pc[p] = "committed" /\ FileAfterFailure /\ UNCHANGED pin
       \/ pc[p] = "written" /\ pin' \in {pin, revision} /\ UNCHANGED <<file, torn>>
       \/ pc[p] \notin {"committed", "written"} /\ UNCHANGED <<file, torn, pin>>
    /\ late' = [late EXCEPT ![p] = 0]
    /\ pc' = [pc EXCEPT ![p] = "closed"]
    /\ job' = [job EXCEPT ![p] = NoJob]
    /\ view' = [view EXCEPT ![p] = NoView]
    /\ UNCHANGED <<now, dbVars>>

Tick ==
    /\ now < MaxTime
    /\ now' = now + 1
    /\ UNCHANGED <<incidents, dbVars, anchorVars, guardVars>>

-----------------------------------------------------------------------------
(* Specification *)

\* create(): an empty authenticated store, its anchor published.
Init ==
    /\ now = 0 /\ incidents = 0 /\ revision = 0
    /\ claims = [g \in Grants |-> None]
    /\ receipts = [g \in Grants |-> None]
    /\ revocations = [g \in Grants |-> {}]
    /\ file = 0 /\ torn = FALSE /\ pin = 0 /\ late = [p \in Procs |-> 0]
    /\ pc = [p \in Procs |-> "closed"]
    /\ job = [p \in Procs |-> NoJob]
    /\ view = [p \in Procs |-> NoView]

Starts(p) == \E g \in Grants :
    \/ Claim(p, g)
    \/ \E result \in Results : Conclude(p, g, result)
    \/ \E t \in Time : \/ AskRevocation(p, g, t)
                       \/ EnterFence(p, g, t)
                       \/ CheckClaim(p, g, t)
                       \/ FoldSnapshot(p, g, t)

\* A call that has begun goes on.
Proceeds(p) ==
    \/ Register(p) \/ RegisterAgain(p) \/ CheckRevocations(p) \/ FoldReturns(p)
    \/ Return(p) \/ TimesOut(p) \/ Refused(p) \/ LeaveFence(p)
    \/ WriteFile(p) \/ PublishPin(p)

Mishap(p) ==
    WriteFails(p) \/ PublishFails(p) \/ LatePublish(p) \/ ReadFails(p) \/ Crash(p)

Next == Tick \/ \E p \in Procs : Open(p) \/ Starts(p) \/ Proceeds(p) \/ Mishap(p)

Spec == Init /\ [][Next]_vars

\* Every lock wait and callback has a deadline, and a dispatch ends with its caller's.
FairSpec == Spec /\ \A p \in Procs : WF_vars(Proceeds(p))

-----------------------------------------------------------------------------
(* Properties *)

\* One process at a time is inside a transaction or a fence.
OneHolder == \A p, q \in Procs : pc[p] \in Holding /\ pc[q] \in Holding => p = q

\* The anchors trail the database by at most the transaction in hand, and a pin that
\* a timed-out callback still has to publish is the one the store is waiting for.
AnchorsTrail ==
    /\ pin <= file /\ file <= revision /\ revision <= pin + 1
    /\ \A p \in Procs :
        /\ pc[p] = "committed" => ~torn /\ file = pin /\ revision = pin + 1
        /\ pc[p] = "written" => ~torn /\ file = revision /\ revision = pin + 1
        /\ pc[p] = "fenced" => Intact
        /\ late[p] # 0 =>
              /\ late[p] = revision /\ file = revision /\ revision = pin + 1
              /\ LockFree
              /\ \A q \in Procs : late[q] # 0 => q = p

\* No two claims share a request or a key, and a receipt lies in its claim's window.
ClaimsOK ==
    /\ \A g, h \in Grants :
          Rival(g, h) /\ claims[g] # None /\ claims[h] # None => g = h
    /\ \A g \in Grants : claims[g] # None =>
          Issued[g] <= claims[g] /\ claims[g] < Expiry[g] /\ claims[g] <= now
    /\ \A g \in Grants : receipts[g] # None =>
          /\ claims[g] # None
          /\ claims[g] <= receipts[g].at /\ receipts[g].at <= claims[g] + MaxDelay

\* What an open fence was opened on is still so, whatever other processes did since.
FencesHold ==
    \A p \in Procs : pc[p] = "fenced" =>
        /\ claims[job[p].grant] # None
        /\ job[p].time <= Expiry[job[p].grant]
        /\ \A from \in revocations[job[p].grant] : from >= job[p].time

\* A verified claim is never taken back, and a snapshot whose revision is current
\* is what the store says.
ReadsHold ==
    \A p \in Procs :
        /\ pc[p] = "checked" => claims[job[p].grant] # None
        /\ pc[p] = "folding" =>
              /\ view[p].revision <= revision
              /\ view[p].revision = revision =>
                    /\ view[p].authority = AuthorityState(job[p].grant, job[p].time)
                    /\ view[p].outcome = OutcomeState(job[p].grant)

\* The store is consistent in every state, between the three writes of a transaction
\* and after a crash in any of them (_claim_if_unrevoked, _write_anchor).
GuardInvariant ==
    TypeOK /\ OneHolder /\ AnchorsTrail /\ ClaimsOK /\ FencesHold /\ ReadsHold

\* At every instant at which a fenced caller may still act, its grant is claimed,
\* unexpired and not revoked in the store (dispatch_fence).
MutationWindowIsClean ==
    \A p \in Procs : pc[p] = "fenced" /\ now < job[p].time =>
        /\ claims[job[p].grant] # None
        /\ now < Expiry[job[p].grant]
        /\ ~RevokedAt(job[p].grant, now)

\* The external pin never falls back, although the callback of an abandoned
\* transaction may publish long after it (_bounded_external_store_callback).
PinNeverFallsBack == [][pin' >= pin]_vars

\* An answer put together from two reads is true of the store when it is given:
\* verifies_claim for its time, fold_action_journal for its report.
AnswerIsCurrent(p) ==
    LET g == job[p].grant t == job[p].time IN
    /\ pc[p] = "checked" /\ pc'[p] = "valid" =>
          claims'[g] # None /\ ~\E from \in revocations'[g] : from <= t
    /\ pc[p] = "folding" /\ pc'[p] = "reported" =>
          /\ view[p].authority = AuthorityState(g, t)'
          /\ view[p].outcome = OutcomeState(g)'
AnswersAreCurrent == [][\A p \in Procs : AnswerIsCurrent(p)]_vars

\* The store is a one-shot register of grants: one claim per request and key, never
\* after a revocation took effect; one receipt per claim; nothing is taken back.
RivalPairs == {pair \in Grants \X Grants : Rival(pair[1], pair[2])}
OneShot == INSTANCE OnceOnly WITH
    Items <- Grants, Rivals <- RivalPairs, Outcomes <- Receipts, Times <- Time,
    taken <- claims, outcome <- receipts, withdrawn <- revocations
ImplementsOnceOnly == OneShot!Spec

\* A call that waits for the lock ends, whoever keeps taking the lock (_file_lock).
CallsReturn == \A p \in Procs : pc[p] \in Waiting ~> pc[p] \notin Waiting

\* What docs/P13_ACCEPTANCE_TESTS.md promises of a revocation that meets a fenced
\* mutation: its writer waits until the mutation is over.
RevocationWaitsForMutation == [][\A p, q \in Procs :
    pc[p] = "revoking" /\ pc'[p] = "idle" => pc[q] # "fenced"]_vars
=============================================================================
