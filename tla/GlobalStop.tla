----------------------------- MODULE GlobalStop -----------------------------
(***************************************************************************)
(* The production consumer of saas_preflight (P13/P14): the durable global *)
(* STOP store, the consumers that share it, the provider child process and *)
(* the independent probe.                                                  *)
(*                                                                         *)
(* Several operating-system processes open one authenticated SQLite file.  *)
(* Each owns at most one ProductionConsumer, whose execute() drives one    *)
(* request through the store's phases:                                     *)
(*                                                                         *)
(*   claimed -> dispatched -> (attempt intent -> provider child ->         *)
(*   attempt) -> provider_recorded -> (probe intent -> probe) -> terminal  *)
(*                                                                         *)
(* A store transaction appends one event and raises the revision by one;   *)
(* the external monotonic anchor is published after the SQLite commit, so  *)
(* a transaction may be durable and still raise.                           *)
(***************************************************************************)
EXTENDS Naturals, FiniteSets

CONSTANTS
    Procs,         \* processes that may open the store
    Requests,      \* signed production consumption requests
    Activations,   \* the requests whose operation is activate_public_release
    Key,           \* Key[r]: the request's idempotency key
    Deadline,      \* Deadline[r]: end of the request's signed authority window
    Ttl,           \* policy.maximum_dispatch_ttl_seconds
    Margin,        \* policy.minimum_provider_authority_margin_seconds
    Lag,           \* policy.maximum_clock_observation_lag_seconds
    None,          \* "no process", "no request", "no reset"
    StoreFaults,   \* TRUE: transactions may fail before or after they are durable
    MaxTime,       \* bound: the trusted clock stops here
    MaxIncidents   \* bound: crashes, failures, revocations and resets in a behaviour

ASSUME ActivationsAssumption == Activations \subseteq Requests
ASSUME DeadlineAssumption == Deadline \in [Requests -> Nat]
ASSUME PolicyAssumption ==
    Ttl \in Nat /\ Margin \in Nat /\ Lag \in Nat /\ MaxTime \in Nat
ASSUME NoneAssumption == None \notin Procs \cup Requests
ASSUME FaultsAssumption == StoreFaults \in BOOLEAN /\ MaxIncidents \in Nat

VARIABLES
    now,         \* trusted time
    incidents,   \* incidents so far (bounded by MaxIncidents)
    (* The durable store: production_meta and its external anchor *)
    revision, epoch, stopped, trustedAt, anchor,
    (* The durable store: one production_dispatches row per request *)
    state, token, journal, result,
    (* Operating-system state *)
    owner,       \* the process that holds the in-flight lock file
    store,       \* store[p]: the GlobalStopStore object of process p
    (* Each process's ProductionConsumer *)
    pc, cur, lastObs, frozen, hasClaimed,
    (* The provider and the other authorities *)
    child,       \* child[r]: the provider child process launched for r
    launches,    \* launches[r]: how often a child was launched for r
    mutated,     \* the requests whose external mutation took place
    receipt,     \* receipt[r]: the receipt the provider signed for r
    revoked,     \* the requests whose P11 grant is revoked
    p11Receipts, \* the requests with a P11 success receipt
    probed,      \* probed[r]: when the independent probe read r's post-state back
    reset        \* the last Human reset that was signed

metaVars     == <<revision, epoch, stopped, trustedAt, anchor>>
rowVars      == <<state, token, journal, result>>
consumerVars == <<pc, cur, lastObs, frozen, hasClaimed>>
providerVars == <<child, launches, mutated, receipt>>
outsideVars  == <<revoked, p11Receipts, probed, reset>>
vars == <<now, incidents, metaVars, rowVars, owner, store, consumerVars,
          providerVars, outsideVars>>

-----------------------------------------------------------------------------
(* States *)

InFlight   == {"claimed", "dispatched", "provider_recorded"}
NonSuccess == {"failed", "partial", "unknown"}
Terminal   == NonSuccess \cup {"succeeded"}
RowStates  == {"absent"} \cup InFlight \cup Terminal

Facts == {"intent", "attempt", "receipt", "probe"}

\* What a receipt reports; "mismatched" is a success with another post-state than
\* the token's.
ProviderOutcomes == {"succeeded", "mismatched", "failed", "partial", "unknown"}

\* Where execute() is; "idle" is outside it.
Phases == {"idle", "claimed", "dispatched", "cleared", "intent", "running",
           "escaped", "returned", "attempted", "recorded", "nonsuccess",
           "probe", "probing", "probed", "signed", "failing"}

\* The phases in which the process holds the exclusive store lock file.
Locked == {"intent", "running", "escaped", "returned", "attempted", "probing"}

Time == 0..MaxTime
Tokens == [epoch : Nat, fence : Nat, expires : Nat]
NoToken == [epoch |-> 0, fence |-> 0, expires |-> 0]
Results == [at : Time, evidence : BOOLEAN]
NoResult == [at |-> 0, evidence |-> FALSE]
Receipts == [outcome : ProviderOutcomes, completed : Time]
NoReceipt == [outcome |-> "unknown", completed |-> 0]
Resets == [epoch : Nat, revision : Nat, expires : Nat]

Activation(r) == r \in Activations
Earlier(a, b) == IF a <= b THEN a ELSE b

HasInflightUnlessRecorded == \E r \in Requests : state[r] \in {"claimed", "dispatched"}
HasInflight == \E r \in Requests : state[r] \in InFlight

LockIgnored == TRUE
LockFree == \A p \in Procs : pc[p] \notin Locked
Owns(p) == store[p] = "open" /\ owner = p

MetaOK ==
    /\ now \in Time /\ incidents \in Nat
    /\ revision \in Nat /\ epoch \in Nat /\ stopped \in BOOLEAN
    /\ trustedAt \in Time /\ anchor \in Nat

RowsOK ==
    /\ state \in [Requests -> RowStates]
    /\ token \in [Requests -> Tokens]
    /\ journal \in [Requests -> SUBSET Facts]
    /\ result \in [Requests -> Results]

ProcessesOK ==
    /\ owner \in Procs \cup {None}
    /\ store \in [Procs -> {"none", "open", "quarantined"}]
    /\ pc \in [Procs -> Phases]
    /\ cur \in [Procs -> Requests \cup {None}]
    /\ \A p \in Procs : pc[p] # "idle" => cur[p] \in Requests
    /\ lastObs \in [Procs -> Time]
    /\ frozen \in [Procs -> SUBSET {"clock", "roots"}]
    /\ hasClaimed \in [Procs -> BOOLEAN]

OutsideOK ==
    /\ child \in [Requests -> {"none", "running", "ended"}]
    /\ launches \in [Requests -> Nat]
    /\ mutated \subseteq Requests
    /\ receipt \in [Requests -> Receipts]
    /\ revoked \subseteq Requests
    /\ p11Receipts \subseteq Requests
    /\ probed \in [Requests -> Time]
    /\ reset \in Resets \cup {None}

\* Types; a process inside execute() works on a request.
TypeOK == MetaOK /\ RowsOK /\ ProcessesOK /\ OutsideOK

-----------------------------------------------------------------------------
(* The parts that every transaction shares *)

\* The signed clock attestations the store accepts: no older than the lag the
\* policy allows, and never before the last trusted time it recorded.
Attested == {t \in Time : trustedAt <= t /\ t <= now /\ now <= t + Lag}

\* The attestations a consumer accepts for itself, kept apart from the store's.
Observed(p) == {t \in Time : lastObs[p] <= t /\ t <= now /\ now <= t + Lag}

\* _now(): the consumer's own observation, kept for its next one.
Observe(p) == \E obs \in Observed(p) : lastObs' = [lastObs EXCEPT ![p] = obs]

\* The signed authority of a request: its window, and its P11 claim unrevoked.
Verifies(r, at) == r \notin revoked /\ at < Deadline[r]

\* "ok": durable and returned; "raised": durable, but the anchor callback or its
\* read-back failed, so the caller sees an exception.
Endings == IF StoreFaults THEN {"ok", "raised"} ELSE {"ok"}

\* One event appended: the anchor is published after the SQLite commit.
Advance(ending) ==
    /\ revision' = revision + 1
    /\ anchor' \in IF ending = "ok" THEN {revision + 1}
                                    ELSE {revision, revision + 1}

Incident ==
    /\ incidents < MaxIncidents
    /\ incidents' = incidents + 1

NoIncident == UNCHANGED incidents

StopInSameEpoch == stopped' = TRUE /\ UNCHANGED epoch
StopWithoutFlag == UNCHANGED stopped /\ epoch' = epoch + 1

\* STOP is asserted and every outstanding token's epoch dies.
Stop == stopped' = TRUE /\ epoch' = epoch + 1

Go(p, phase) ==
    /\ pc' = [pc EXCEPT ![p] = phase]
    /\ cur' = [cur EXCEPT ![p] = IF phase = "idle" THEN None ELSE @]

\* An exception inside execute()'s try block leads to the UNKNOWN commit; one
\* raised by that commit leaves execute().
AfterRaise(p) == IF pc[p] \in {"idle", "failing"} THEN "idle" ELSE "failing"

Proceed(p, ending, phase) == Go(p, IF ending = "ok" THEN phase ELSE AfterRaise(p))

Raise(p) ==
    /\ Go(p, AfterRaise(p))
    /\ UNCHANGED <<now, incidents, metaVars, rowVars, owner, store, lastObs,
                   frozen, hasClaimed, providerVars, outsideVars>>

-----------------------------------------------------------------------------
(* The environment: time, processes, authorities *)

Tick ==
    /\ now < MaxTime
    /\ now' = now + 1
    /\ UNCHANGED <<incidents, metaVars, rowVars, owner, store, consumerVars,
                   providerVars, outsideVars>>

\* A P11 revocation. The store lock of P11 is held while a child is running.
Revoke(r) ==
    /\ Incident
    /\ r \notin revoked
    /\ \A p \in Procs : pc[p] # "running"
    /\ revoked' = revoked \cup {r}
    /\ UNCHANGED <<now, metaVars, rowVars, owner, store, consumerVars,
                   providerVars, p11Receipts, probed, reset>>

\* The fixed human signs a reset bound to the STOP it reviewed. (Ttl stands
\* for the reset's own validity limit, maximum_reset_ttl_seconds, as well.)
IssueReset ==
    /\ Incident
    /\ stopped
    /\ reset' = [epoch |-> epoch, revision |-> revision, expires |-> now + Ttl]
    /\ UNCHANGED <<now, metaVars, rowVars, owner, store, consumerVars,
                   providerVars, revoked, p11Receipts, probed>>

\* What a dead consumer leaves behind: nothing; a running child survives it.
FreshConsumer(p) ==
    /\ pc' = [pc EXCEPT ![p] = "idle"]
    /\ cur' = [cur EXCEPT ![p] = None]
    /\ lastObs' = [lastObs EXCEPT ![p] = 0]
    /\ frozen' = [frozen EXCEPT ![p] = {}]
    /\ hasClaimed' = [hasClaimed EXCEPT ![p] = FALSE]

KeepOwner(p) == UNCHANGED owner
Disown(p) == owner' = IF owner = p THEN None ELSE owner

Crash(p) ==
    /\ Incident
    /\ store[p] # "none"
    /\ store' = [store EXCEPT ![p] = "none"]
    /\ Disown(p)
    /\ FreshConsumer(p)
    /\ UNCHANGED <<now, metaVars, rowVars, providerVars, outsideVars>>

\* close() from another thread: it waits for the store's lock, never for execute().
Close(p) ==
    /\ Incident
    /\ store[p] = "open" /\ pc[p] \notin Locked
    /\ store' = [store EXCEPT ![p] = "quarantined"]
    /\ Disown(p)
    /\ UNCHANGED <<now, metaVars, rowVars, consumerVars, providerVars, outsideVars>>

\* fork(): the child inherits the objects but closes its copy of the owner's
\* descriptor without unlocking it.
Fork(p, q) ==
    /\ Incident
    /\ store[p] = "open" /\ pc[p] \notin Locked
    /\ store[q] = "none" /\ pc[q] = "idle"
    /\ store' = [store EXCEPT ![q] = "open"]
    /\ lastObs' = [lastObs EXCEPT ![q] = lastObs[p]]
    /\ frozen' = [frozen EXCEPT ![q] = frozen[p]]
    /\ hasClaimed' = [hasClaimed EXCEPT ![q] = hasClaimed[p]]
    /\ UNCHANGED <<now, metaVars, rowVars, owner, pc, cur, providerVars, outsideVars>>

-----------------------------------------------------------------------------
(* Opening a store, and recovering what a dead owner left in flight *)

EvidenceOnlyVerified(r) == "receipt" \in journal[r]

\* The provider evidence a terminal result carries: the journaled attempt.
Evidence(r) == "attempt" \in journal[r]

RecoverWithoutStop(ending) ==
    /\ state' = [r \in Requests |->
                   IF state[r] \in InFlight THEN "unknown" ELSE state[r]]
    /\ result' = [r \in Requests |->
                   IF state[r] \in InFlight
                   THEN [at |-> now, evidence |-> Evidence(r)] ELSE result[r]]
    /\ Advance(ending)
    /\ UNCHANGED <<epoch, stopped, trustedAt, token, journal>>

RecoverUnlessRecorded(ending) ==
    /\ \A r \in Requests : state[r] # "provider_recorded"
    /\ RecoverWithoutStop(ending)

RecoverAlone(ending) ==
    /\ \A p \in Procs : store[p] = "none"
    /\ RecoverWithoutStop(ending)

Recover(ending) ==
    /\ state' = [r \in Requests |->
                   IF state[r] \in InFlight THEN "unknown" ELSE state[r]]
    /\ result' = [r \in Requests |->
                   IF state[r] \in InFlight
                   THEN [at |-> now, evidence |-> Evidence(r)] ELSE result[r]]
    /\ Stop
    /\ Advance(ending)
    /\ UNCHANGED <<trustedAt, token, journal>>

OrphanedOrNot == HasInflight

\* A row in flight whose owner lock nobody holds any more.
Orphaned == HasInflight /\ owner = None

Open(p) ==
    /\ pc[p] = "idle" /\ store[p] # "open"
    /\ LockFree
    /\ \/ /\ ~Orphaned
          /\ store' = [store EXCEPT ![p] = "open"]
          /\ UNCHANGED <<metaVars, rowVars>>
       \/ /\ Orphaned
          /\ \E ending \in Endings :
                /\ Recover(ending)
                /\ store' = [store EXCEPT ![p] =
                                IF ending = "ok" THEN "open" ELSE "none"]
    /\ FreshConsumer(p)
    /\ UNCHANGED <<now, incidents, owner, providerVars, outsideVars>>

\* Any transaction's integrity check first completes an anchor that is one
\* revision behind; snapshot() does nothing else.
RecoverAnchor(p) ==
    /\ store[p] # "none" /\ pc[p] = "idle"
    /\ LockFree
    /\ anchor # revision
    /\ anchor' = revision
    /\ UNCHANGED <<now, incidents, revision, epoch, stopped, trustedAt, rowVars,
                   owner, store, consumerVars, providerVars, outsideVars>>

-----------------------------------------------------------------------------
(* Failures of the authorities *)

\* The transactions of these phases follow a _now() of the consumer.
AfterObservation(p) ==
    \/ pc[p] \in {"idle", "claimed", "probe", "probed", "signed"} /\ Observe(p)
    \/ pc[p] \notin {"claimed", "probe", "probed", "signed"} /\ UNCHANGED lastObs

\* _require_authority() cannot get a valid clock or current roots: the STOP it
\* commits is durable, the caller sees an exception.
AuthorityFails(p) ==
    /\ Incident
    /\ store[p] # "none"
    /\ \/ pc[p] = "attempted"
       \/ LockFree /\ pc[p] \in {"idle", "claimed", "cleared", "probe", "signed",
                                  "nonsuccess", "failing"}
    /\ Stop
    /\ Advance("raised")
    /\ Go(p, AfterRaise(p))
    /\ AfterObservation(p)
    /\ UNCHANGED <<now, trustedAt, rowVars, owner, store, frozen, hasClaimed,
                   providerVars, outsideVars>>

\* A clock failure, or a failure of the roots that activations are checked against
\* once the clock is known; the consumer remembers either.
FailureOf(p, cause, requests) ==
    /\ frozen' = [frozen EXCEPT ![p] = @ \cup {cause}]
    /\ \/ cause = "clock" /\ UNCHANGED lastObs
       \/ cause = "roots" /\ requests \cap Activations # {} /\ Observe(p)

\* _now() before the claim: the failure is sticky, and the consumer freezes the
\* store unless it believes that a claim of its own is still outstanding. The
\* freeze itself may fail: it waits for the store lock for five seconds only.
FailsBeforeClaim(p, cause) ==
    /\ Incident
    /\ pc[p] = "idle" /\ store[p] # "none"
    /\ "clock" \notin frozen[p] /\ cause \notin frozen[p]
    /\ FailureOf(p, cause, Activations)
    /\ \/ (hasClaimed[p] \/ StoreFaults \/ ~LockFree) /\ UNCHANGED metaVars
       \/ /\ ~hasClaimed[p] /\ LockFree
          /\ Stop
          /\ \E ending \in Endings : Advance(ending)
          /\ UNCHANGED trustedAt
    /\ UNCHANGED <<now, rowVars, owner, store, pc, cur, hasClaimed,
                   providerVars, outsideVars>>

\* _now() inside the try block: sticky, and left to the UNKNOWN commit.
FailsAfterClaim(p, cause) ==
    /\ Incident
    /\ pc[p] \in {"claimed", "dispatched", "probe", "probed", "signed"}
    /\ FailureOf(p, cause, {cur[p]})
    /\ Go(p, "failing")
    /\ UNCHANGED <<now, metaVars, rowVars, owner, store, hasClaimed,
                   providerVars, outsideVars>>

\* A transaction that fails before it is durable: the lock wait timed out, the
\* anchor could not be read, SQLite refused.
TransactionFails(p) ==
    /\ StoreFaults
    /\ Incident
    /\ pc[p] \in {"claimed", "cleared", "returned", "attempted", "nonsuccess",
                  "probe", "probed", "signed", "failing"}
    /\ Go(p, AfterRaise(p))
    /\ AfterObservation(p)
    /\ UNCHANGED <<now, metaVars, rowVars, owner, store, frozen, hasClaimed,
                   providerVars, outsideVars>>

-----------------------------------------------------------------------------
(* execute(): claim and redemption *)

\* The consumer refuses everything after a clock failure, and activations after
\* a failure of the authority roots.
Refuses(p, r) == "clock" \in frozen[p] \/ ("roots" \in frozen[p] /\ Activation(r))

StopIgnored(r) == FALSE
Stopped(r) == Activation(r) /\ stopped

CanClaimReusingKey(p, r, at) ==
    /\ store[p] = "open" /\ owner \in {None, p}
    /\ state[r] = "absent" /\ ~HasInflight /\ ~Stopped(r) /\ Verifies(r, at)

CanClaimAgain(p, r, at) ==
    /\ store[p] = "open" /\ owner \in {None, p}
    /\ ~HasInflight /\ ~Stopped(r) /\ Verifies(r, at)

CanClaim(p, r, at) ==
    /\ store[p] = "open" /\ owner \in {None, p}
    /\ \A q \in Requests : Key[q] = Key[r] => state[q] = "absent"
    /\ ~HasInflight
    /\ ~Stopped(r)
    /\ Verifies(r, at)

\* A token never outlives the request, the launch boundary or the policy's limit.
TokenExpiry(r, at) == Earlier(Deadline[r], at + Ttl)

\* The row and its one-shot token, whose fence is the revision they are born at.
ClaimRow(p, r, at, ending) ==
    /\ CanClaim(p, r, at)
    /\ state' = [state EXCEPT ![r] = "claimed"]
    /\ token' = [token EXCEPT ![r] =
                   [epoch |-> epoch, fence |-> revision + 1,
                    expires |-> TokenExpiry(r, at)]]
    /\ trustedAt' = at
    /\ Advance(ending)
    /\ cur' = [cur EXCEPT ![p] = IF ending = "ok" THEN r ELSE None]
    /\ hasClaimed' = [hasClaimed EXCEPT ![p] = @ \/ ending = "ok"]
    /\ pc' = [pc EXCEPT ![p] = IF ending = "ok" THEN "claimed" ELSE "idle"]

Claim(p, r) ==
    /\ pc[p] = "idle"
    /\ LockFree
    /\ ~Refuses(p, r)
    /\ Observe(p)
    /\ \E at \in Attested, ending \in Endings : ClaimRow(p, r, at, ending)
    /\ owner' = p
    /\ UNCHANGED <<now, incidents, epoch, stopped, journal, result, store, frozen,
                   providerVars, outsideVars>>

\* The claim of a request that is over, in progress or not permitted: the stored
\* result or an exception, and nothing but the clock observation remains.
ClaimRefused(p, r) ==
    /\ pc[p] = "idle" /\ store[p] # "none"
    /\ "clock" \notin frozen[p]
    /\ Refuses(p, r) \/ ~LockFree \/ \E at \in Attested : ~CanClaim(p, r, at)
    /\ Observe(p)
    /\ UNCHANGED <<now, incidents, metaVars, rowVars, owner, store, pc, cur, frozen,
                   hasClaimed, providerVars, outsideVars>>

CanRedeem(r, at) ==
    /\ token[r].epoch = epoch /\ token[r].fence = revision
    /\ at < token[r].expires
    /\ Verifies(r, at)
    /\ ~Stopped(r)

ConcludeAtExpiry(r, verdict, at) ==
    /\ state' = [state EXCEPT ![r] = verdict]
    /\ result' = [result EXCEPT ![r] = [at |-> token[r].expires, evidence |-> Evidence(r)]]
    /\ UNCHANGED <<token, journal>>

\* What a transaction that ends a request writes.
Conclude(r, verdict, at) ==
    /\ state' = [state EXCEPT ![r] = verdict]
    /\ result' = [result EXCEPT ![r] = [at |-> at, evidence |-> Evidence(r)]]
    /\ UNCHANGED <<token, journal>>

\* The row is authoritative and unclaimed by others: dispatch it, or end it.
RedeemOwned(p, r, at, ending) ==
    /\ Owns(p) /\ state[r] = "claimed"
    /\ Advance(ending)
    /\ trustedAt' = at
    /\ \/ /\ CanRedeem(r, at)
          /\ state' = [state EXCEPT ![r] = "dispatched"]
          /\ Proceed(p, ending, "dispatched")
          /\ UNCHANGED <<epoch, stopped, token, journal, result, owner, hasClaimed>>
       \/ /\ ~CanRedeem(r, at)
          /\ Conclude(r, "unknown", at)
          /\ Stop
          /\ owner' = None
          /\ hasClaimed' = [hasClaimed EXCEPT ![p] = @ /\ ending # "ok"]
          /\ Proceed(p, ending, "idle")

Redeem(p) ==
    LET r == cur[p] IN
    /\ pc[p] = "claimed"
    /\ LockFree
    /\ Observe(p)
    /\ \/ \E at \in Attested, ending \in Endings : RedeemOwned(p, r, at, ending)
       \/ /\ state[r] \in Terminal
          /\ Go(p, "idle")
          /\ hasClaimed' = [hasClaimed EXCEPT ![p] = FALSE]
          /\ UNCHANGED <<metaVars, rowVars, owner>>
       \/ /\ state[r] \notin Terminal /\ ~Owns(p)
          /\ Go(p, "failing")
          /\ UNCHANGED <<metaVars, rowVars, owner, hasClaimed>>
    /\ UNCHANGED <<now, incidents, store, frozen, providerVars, outsideVars>>

-----------------------------------------------------------------------------
(* execute(): the provider, under the exclusive store lock *)

\* verifies_execution_boundary(): only activations depend on launch authority.
WithinBoundary(r, at) == Activation(r) => at < Deadline[r]

\* The boundary is judged at the consumer's own PRE_PROVIDER observation.
CheckBoundary(p) ==
    /\ pc[p] = "dispatched"
    /\ \E obs \in Observed(p) :
          /\ lastObs' = [lastObs EXCEPT ![p] = obs]
          /\ Go(p, IF WithinBoundary(cur[p], obs) THEN "cleared" ELSE "failing")
    /\ UNCHANGED <<now, incidents, metaVars, rowVars, owner, store, frozen,
                   hasClaimed, providerVars, outsideVars>>

CanInvoke(p, r, at) ==
    /\ Owns(p)
    /\ state[r] = "dispatched" /\ journal[r] = {}
    /\ token[r].epoch = epoch /\ token[r].fence + 1 = revision
    /\ at < token[r].expires /\ at + Margin <= token[r].expires
    /\ Verifies(r, at)
    /\ ~Stopped(r)

NoteLatest(p, r, fact, ending, phase) ==
    /\ journal' = [journal EXCEPT ![r] = {fact}]
    /\ Advance(ending)
    /\ Proceed(p, ending, phase)
    /\ UNCHANGED <<token, result, epoch, stopped>>

NoteExceptProbe(p, r, fact, ending, phase) ==
    /\ journal' = [journal EXCEPT ![r] = @ \cup ({fact} \ {"probe"})]
    /\ Advance(ending)
    /\ Proceed(p, ending, phase)
    /\ UNCHANGED <<token, result, epoch, stopped>>

\* Journal a fact in the transaction that ends with this phase.
Note(p, r, fact, ending, phase) ==
    /\ journal' = [journal EXCEPT ![r] = @ \cup {fact}]
    /\ Advance(ending)
    /\ Proceed(p, ending, phase)
    /\ UNCHANGED <<token, result, epoch, stopped>>

RecordIntent(p) ==
    LET r == cur[p] IN
    /\ pc[p] = "cleared"
    /\ LockFree
    /\ \/ /\ \E at \in Attested, ending \in Endings :
                /\ CanInvoke(p, r, at)
                /\ trustedAt' = at
                /\ Note(p, r, "intent", ending, "intent")
          /\ UNCHANGED <<now, incidents, state, owner, store, lastObs, frozen,
                         hasClaimed, providerVars, outsideVars>>
       \/ (\E at \in Attested : ~CanInvoke(p, r, at)) /\ Raise(p)

\* The P11 dispatch fence and the one-shot capability, both rechecked against
\* durable state at the subprocess boundary.
MayLaunch(p, r) ==
    /\ r \notin revoked
    /\ Owns(p)
    /\ state[r] = "dispatched" /\ journal[r] = {"intent"}
    /\ token[r].epoch = epoch /\ token[r].fence + 2 = revision
    /\ trustedAt < token[r].expires
    /\ ~Stopped(r)

Launch(p) ==
    LET r == cur[p] IN
    /\ pc[p] = "intent"
    /\ \/ /\ MayLaunch(p, r)
          /\ child' = [child EXCEPT ![r] = "running"]
          /\ launches' = [launches EXCEPT ![r] = @ + 1]
          /\ Go(p, "running")
          /\ NoIncident
       \/ /\ \/ ~MayLaunch(p, r) /\ NoIncident
             \/ StoreFaults /\ Incident
          /\ Go(p, "escaped")
          /\ UNCHANGED <<child, launches>>
    /\ UNCHANGED <<now, metaVars, rowVars, owner, store, lastObs,
                   frozen, hasClaimed, mutated, receipt, outsideVars>>

\* The child mutates the provider, with or without a parent that still waits.
Mutate(r) ==
    /\ child[r] = "running" /\ r \notin mutated
    /\ mutated' = mutated \cup {r}
    /\ UNCHANGED <<now, incidents, metaVars, rowVars, owner, store, consumerVars,
                   child, launches, receipt, outsideVars>>

\* A child whose parent died runs to its end unobserved.
OrphanEnds(r) ==
    /\ child[r] = "running"
    /\ ~\E p \in Procs : pc[p] = "running" /\ cur[p] = r
    /\ child' = [child EXCEPT ![r] = "ended"]
    /\ UNCHANGED <<now, incidents, metaVars, rowVars, owner, store, consumerVars,
                   launches, mutated, receipt, outsideVars>>

\* The receipt the child signed is authentic and complete before the expiry.
ProviderReturns(p) ==
    LET r == cur[p] IN
    /\ pc[p] = "running"
    /\ now < token[r].expires
    /\ \E outcome \in ProviderOutcomes :
          /\ outcome = "succeeded" => r \in mutated
          /\ outcome = "failed" => r \notin mutated
          /\ receipt' = [receipt EXCEPT ![r] =
                           [outcome |-> outcome, completed |-> now]]
    /\ child' = [child EXCEPT ![r] = "ended"]
    /\ Go(p, "returned")
    /\ UNCHANGED <<now, incidents, metaVars, rowVars, owner, store, lastObs,
                   frozen, hasClaimed, launches, mutated, outsideVars>>

ProviderNeverExpires(p) ==
    /\ pc[p] = "running" /\ Incident
    /\ child' = [child EXCEPT ![cur[p]] = "ended"]
    /\ Go(p, "escaped")
    /\ UNCHANGED <<now, metaVars, rowVars, owner, store, lastObs, frozen,
                   hasClaimed, launches, mutated, receipt, outsideVars>>

\* Timeout (the process group is killed), a bad frame, an invalid or late receipt.
ProviderEscapes(p) ==
    /\ pc[p] = "running"
    /\ \/ Incident
       \/ now >= token[cur[p]].expires /\ NoIncident
    /\ child' = [child EXCEPT ![cur[p]] = "ended"]
    /\ Go(p, "escaped")
    /\ UNCHANGED <<now, metaVars, rowVars, owner, store, lastObs, frozen,
                   hasClaimed, launches, mutated, receipt, outsideVars>>

\* An escaped call is closed as UNKNOWN + STOP; when that close fails as well, the
\* store object loses its authority and its owner lock for good.
CloseUncertain(p) ==
    LET r == cur[p] IN
    /\ pc[p] = "escaped"
    /\ \/ /\ state[r] = "dispatched"
          /\ Conclude(r, "unknown", trustedAt)
          /\ Stop
          /\ \E ending \in Endings :
                /\ Advance(ending)
                /\ store' = [store EXCEPT ![p] =
                                IF ending = "ok" THEN @ ELSE "quarantined"]
          /\ UNCHANGED <<trustedAt, incidents>>
       \/ /\ StoreFaults /\ Incident
          /\ store' = [store EXCEPT ![p] = "quarantined"]
          /\ UNCHANGED <<metaVars, rowVars>>
    /\ Disown(p)
    /\ Go(p, "failing")
    /\ UNCHANGED <<now, lastObs, frozen, hasClaimed, providerVars, outsideVars>>

CanRecordAttempt(r) ==
    /\ state[r] = "dispatched" /\ "attempt" \notin journal[r]
    /\ token[r].epoch = epoch /\ token[r].fence + 2 = revision

RecordAttempt(p) ==
    LET r == cur[p] IN
    /\ pc[p] = "returned"
    /\ CanRecordAttempt(r)
    /\ \E ending \in Endings : Note(p, r, "attempt", ending, "attempted")
    /\ UNCHANGED <<now, incidents, trustedAt, state, owner, store, lastObs,
                   frozen, hasClaimed, providerVars, outsideVars>>

VerifiesExpiryOnly(r, at) == receipt[r].completed < token[r].expires

\* verifies_provider_result()
VerifiesProvider(r, at) ==
    receipt[r].completed <= at /\ receipt[r].completed < token[r].expires

CanRecordReceipt(r, at) ==
    /\ VerifiesProvider(r, at)
    /\ state[r] = "dispatched" /\ "attempt" \in journal[r]
    /\ token[r].epoch = epoch /\ token[r].fence + 3 = revision

RecordReceipt(p) ==
    LET r == cur[p] IN
    /\ pc[p] = "attempted"
    /\ \/ /\ \E at \in Attested, ending \in Endings :
                /\ CanRecordReceipt(r, at)
                /\ trustedAt' = at
                /\ state' = [state EXCEPT ![r] = "provider_recorded"]
                /\ Note(p, r, "receipt", ending, "recorded")
          /\ UNCHANGED <<now, incidents, owner, store, lastObs, frozen,
                         hasClaimed, providerVars, outsideVars>>
       \/ (\E at \in Attested : ~CanRecordReceipt(r, at)) /\ Raise(p)

-----------------------------------------------------------------------------
(* execute(): judging the receipt, probing, and the terminal commit *)

\* execute() judges the receipt at its own last observation, which it made
\* before the provider ran.
Accepts(p, r) == VerifiesProvider(r, lastObs[p])

JudgeProvider(p) ==
    LET r == cur[p] IN
    /\ pc[p] = "recorded"
    /\ Go(p, IF ~Accepts(p, r) THEN "failing"
             ELSE IF receipt[r].outcome # "succeeded" THEN "nonsuccess"
             ELSE IF Verifies(r, lastObs[p]) THEN "probe"
             ELSE "failing")
    /\ UNCHANGED <<now, incidents, metaVars, rowVars, owner, store, lastObs,
                   frozen, hasClaimed, providerVars, outsideVars>>

CanProbe(p, r, at) ==
    /\ Owns(p)
    /\ state[r] = "provider_recorded"
    /\ token[r].epoch = epoch /\ token[r].fence + 4 = revision
    /\ at < token[r].expires
    /\ Verifies(r, at)
    /\ ~Stopped(r)

RecordProbeIntent(p) ==
    LET r == cur[p] IN
    /\ pc[p] = "probe"
    /\ LockFree
    /\ Observe(p)
    /\ \/ \E at \in Attested, ending \in Endings :
             /\ CanProbe(p, r, at)
             /\ trustedAt' = at
             /\ Note(p, r, "probe", ending, "probing")
       \/ /\ \E at \in Attested : ~CanProbe(p, r, at)
          /\ Go(p, "failing")
          /\ UNCHANGED <<metaVars, journal, token, result>>
    /\ UNCHANGED <<now, incidents, state, owner, store, frozen, hasClaimed,
                   providerVars, outsideVars>>

\* The independent readback of the post-state signs its time; it changes nothing
\* outside.
ProbeReturns(p) ==
    /\ pc[p] = "probing"
    /\ cur[p] \in mutated
    /\ probed' = [probed EXCEPT ![cur[p]] = now]
    /\ Go(p, "probed")
    /\ UNCHANGED <<now, incidents, metaVars, rowVars, owner, store, lastObs,
                   frozen, hasClaimed, providerVars, revoked, p11Receipts, reset>>

ProbeFails(p) ==
    /\ Incident
    /\ pc[p] = "probing"
    /\ Go(p, "failing")
    /\ UNCHANGED <<now, metaVars, rowVars, owner, store, lastObs, frozen,
                   hasClaimed, providerVars, outsideVars>>

\* verifies_probe()
VerifiesProbe(r, at) ==
    /\ VerifiesProvider(r, at)
    /\ receipt[r].completed <= probed[r] /\ probed[r] <= at
    /\ at < token[r].expires

\* The probe is judged at a POST_PROBE observation; then the P11 receipt, which is
\* committed to another database.
SignActionReceipt(p) ==
    LET r == cur[p] IN
    /\ pc[p] = "probed"
    /\ \E obs \in Observed(p) :
          /\ lastObs' = [lastObs EXCEPT ![p] = obs]
          /\ \/ /\ VerifiesProbe(r, obs)
                /\ p11Receipts' = p11Receipts \cup {r}
                /\ \E ending \in Endings : Proceed(p, ending, "signed")
             \/ /\ ~VerifiesProbe(r, obs)
                /\ Go(p, "failing")
                /\ UNCHANGED p11Receipts
    /\ UNCHANGED <<now, incidents, metaVars, rowVars, owner, store, frozen,
                   hasClaimed, providerVars, revoked, probed, reset>>

\* The revision the row's phase must have reached before a terminal commit.
PhaseOffset(r) ==
    IF state[r] = "claimed" THEN 0
    ELSE IF state[r] = "provider_recorded" THEN 4
    ELSE IF "attempt" \in journal[r] THEN 3
    ELSE IF "intent" \in journal[r] THEN 2
    ELSE 1

\* The one STOP a request may outlive: its own post-provider authority failure.
AuthorityFailureStop(r, verdict) ==
    /\ verdict = "unknown"
    /\ state[r] = "dispatched" /\ "attempt" \in journal[r]
    /\ stopped /\ token[r].epoch + 1 = epoch

AllowedRevisions(r, verdict) ==
    LET base == token[r].fence + PhaseOffset(r) IN
    IF verdict = "succeeded" THEN {base + 1}
    ELSE IF state[r] = "provider_recorded" THEN {base, base + 1}
    ELSE IF AuthorityFailureStop(r, verdict) THEN {base + 1}
    ELSE {base}

\* The verdict for a receipt that is not the expected success.
Verdict(outcome) == IF outcome = "mismatched" THEN "unknown" ELSE outcome

\* verifies_terminal_result(); that the probe does not predate the journaled receipt
\* goes without saying here, since it runs later and signs the true time.
VerifiesTerminal(r, verdict, at) ==
    IF verdict = "succeeded"
    THEN /\ Verifies(r, at)
         /\ receipt[r].outcome = "succeeded" /\ VerifiesProbe(r, at)
         /\ r \in p11Receipts
    ELSE IF Evidence(r)
         THEN VerifiesProvider(r, at) /\ verdict \in {Verdict(receipt[r].outcome), "unknown"}
         ELSE verdict = "unknown"

CanCommit(p, r, verdict, at) ==
    /\ Owns(p)
    /\ state[r] \in IF verdict = "succeeded" THEN {"provider_recorded"} ELSE InFlight
    /\ token[r].epoch = epoch \/ AuthorityFailureStop(r, verdict)
    /\ revision \in AllowedRevisions(r, verdict)
    /\ VerifiesTerminal(r, verdict, at)
    /\ verdict = "succeeded" => ~Stopped(r)

\* An identical stored result is returned; any other is immutable.
IsStored(r, verdict, at) ==
    state[r] = verdict /\ result[r] = [at |-> at, evidence |-> Evidence(r)]

\* commit_result(): store the verdict, find it stored, or raise.
CommitResult(p, verdict) ==
    LET r == cur[p] IN
    /\ LockFree
    /\ \E at \in Attested :
          \/ /\ CanCommit(p, r, verdict, at)
             /\ Conclude(r, verdict, at)
             /\ trustedAt' = at
             /\ IF verdict = "succeeded" THEN UNCHANGED <<stopped, epoch>> ELSE Stop
             /\ owner' = None
             /\ \E ending \in Endings :
                   /\ Advance(ending)
                   /\ hasClaimed' = [hasClaimed EXCEPT ![p] = @ /\ ending # "ok"]
                   /\ Proceed(p, ending, "idle")
          \/ /\ IsStored(r, verdict, at)
             /\ hasClaimed' = [hasClaimed EXCEPT ![p] = FALSE]
             /\ Go(p, "idle")
             /\ UNCHANGED <<metaVars, rowVars, owner>>
          \/ /\ ~CanCommit(p, r, verdict, at) /\ ~IsStored(r, verdict, at)
             /\ Go(p, AfterRaise(p))
             /\ UNCHANGED <<metaVars, rowVars, owner, hasClaimed>>
    /\ UNCHANGED <<now, incidents, store, frozen, providerVars, outsideVars>>

CommitSuccess(p) ==
    /\ pc[p] = "signed"
    /\ Observe(p)
    /\ CommitResult(p, "succeeded")

CommitNonSuccess(p) ==
    /\ pc[p] = "nonsuccess"
    /\ CommitResult(p, Verdict(receipt[cur[p]].outcome))
    /\ UNCHANGED lastObs

CommitUnknown(p) ==
    /\ pc[p] = "failing"
    /\ CommitResult(p, "unknown")
    /\ UNCHANGED lastObs

-----------------------------------------------------------------------------
(* The Human reset, applied through any open store *)

CanResetAnyway(at) ==
    /\ reset # None
    /\ stopped
    /\ reset.epoch = epoch /\ reset.revision = revision
    /\ at < reset.expires

CanReset(at) ==
    /\ reset # None
    /\ stopped
    /\ reset.epoch = epoch /\ reset.revision = revision
    /\ at < reset.expires
    /\ ~HasInflight

ApplyReset(p) ==
    /\ store[p] # "none" /\ pc[p] = "idle"
    /\ LockFree
    /\ \E at \in Attested, ending \in Endings :
          /\ CanReset(at)
          /\ trustedAt' = at
          /\ Advance(ending)
    /\ stopped' = FALSE
    /\ epoch' = epoch + 1
    /\ UNCHANGED <<now, incidents, rowVars, owner, store, consumerVars,
                   providerVars, outsideVars>>

-----------------------------------------------------------------------------
(* The specification *)

\* create(): STOP is asserted, nothing has been claimed.
Init ==
    /\ now = 0 /\ incidents = 0
    /\ revision = 0 /\ epoch = 0 /\ stopped = TRUE /\ trustedAt = 0 /\ anchor = 0
    /\ state = [r \in Requests |-> "absent"]
    /\ token = [r \in Requests |-> NoToken]
    /\ journal = [r \in Requests |-> {}]
    /\ result = [r \in Requests |-> NoResult]
    /\ owner = None
    /\ store = [p \in Procs |-> "none"]
    /\ pc = [p \in Procs |-> "idle"]
    /\ cur = [p \in Procs |-> None]
    /\ lastObs = [p \in Procs |-> 0]
    /\ frozen = [p \in Procs |-> {}]
    /\ hasClaimed = [p \in Procs |-> FALSE]
    /\ child = [r \in Requests |-> "none"]
    /\ launches = [r \in Requests |-> 0]
    /\ mutated = {}
    /\ receipt = [r \in Requests |-> NoReceipt]
    /\ revoked = {} /\ p11Receipts = {} /\ probed = [r \in Requests |-> 0] /\ reset = None

\* What a process does of its own accord once execute() has begun.
Execute(p) ==
    \/ Redeem(p) \/ CheckBoundary(p) \/ RecordIntent(p) \/ Launch(p)
    \/ ProviderReturns(p) \/ ProviderEscapes(p) \/ CloseUncertain(p)
    \/ RecordAttempt(p) \/ RecordReceipt(p) \/ JudgeProvider(p)
    \/ RecordProbeIntent(p) \/ ProbeReturns(p) \/ ProbeFails(p)
    \/ SignActionReceipt(p)
    \/ CommitSuccess(p) \/ CommitNonSuccess(p) \/ CommitUnknown(p)

Fails(p) ==
    \/ AuthorityFails(p) \/ TransactionFails(p)
    \/ \E cause \in {"clock", "roots"} :
          FailsBeforeClaim(p, cause) \/ FailsAfterClaim(p, cause)
    \/ Crash(p) \/ Close(p)
    \/ \E q \in Procs : Fork(p, q)

Next ==
    \/ Tick
    \/ IssueReset
    \/ \E r \in Requests : Revoke(r) \/ Mutate(r) \/ OrphanEnds(r)
    \/ \E p \in Procs :
          \/ Open(p) \/ RecoverAnchor(p) \/ ApplyReset(p)
          \/ \E r \in Requests : Claim(p, r) \/ ClaimRefused(p, r)
          \/ Execute(p)
          \/ Fails(p)

Spec == Init /\ [][Next]_vars

\* A supervisor reopens the store; execute() runs on, its callbacks and its
\* children being bounded by deadlines.
FairSpec ==
    /\ Spec
    /\ WF_vars(\E p \in Procs : Open(p))
    /\ \A p \in Procs : WF_vars(Execute(p))

-----------------------------------------------------------------------------
(* Invariants *)

\* One provider child at most for an idempotency key, whatever crashes, retries
\* or competing processes did (CREATE TABLE production_dispatches, claim()).
AtMostOneLaunch ==
    \A r \in Requests :
        /\ launches[r] <= 1
        /\ \A q \in Requests \ {r} :
              Key[q] = Key[r] => launches[r] = 0 \/ launches[q] = 0

\* Nothing happens outside before the attempt intent is durable, so recovery can
\* always tell that the provider may have acted (_invoke_and_record_provider()).
MutationHasIntent ==
    \A r \in Requests :
        child[r] # "none" \/ r \in mutated =>
            /\ "intent" \in journal[r]
            /\ state[r] \notin {"absent", "claimed"}

SingleInflight ==
    \A q, r \in Requests :
        state[q] \in InFlight /\ state[r] \in InFlight => q = r

\* One request in flight, one owner: an owner lock without a row in flight would
\* block every later claim, two rows would share one owner.
OneOwnedInflight ==
    /\ SingleInflight
    /\ owner # None => HasInflight /\ store[owner] = "open"

\* While a provider child runs under a live parent, its authority cannot change:
\* no STOP, no new epoch, no revocation, no loss of the owner lock.
RunningUnderAuthority ==
    \A p \in Procs : pc[p] = "running" =>
        LET r == cur[p] IN
        /\ Owns(p) /\ state[r] = "dispatched"
        /\ token[r].epoch = epoch
        /\ r \notin revoked
        /\ ~Stopped(r)

\* Success is more than a receipt: the mutation happened once, every fact is in
\* the journal, and the P11 database holds the action receipt as well.
SuccessIsProven ==
    \A r \in Requests : state[r] = "succeeded" =>
        /\ launches[r] = 1 /\ r \in mutated
        /\ receipt[r].outcome = "succeeded"
        /\ journal[r] = Facts
        /\ r \in p11Receipts

\* A request that ended without success left a dead epoch behind: no token of
\* its epoch can be redeemed, launched, probed or committed any more.
FailureEndsEpoch ==
    \A r \in Requests : state[r] \in NonSuccess => token[r].epoch < epoch

\* A live activation token and STOP exclude each other.
StopKillsActivation ==
    \A r \in Activations :
        state[r] \in InFlight /\ token[r].epoch = epoch => ~stopped

\* Every phase of the live token has its own revision: no transaction of any
\* other process can slip in between two phases of a request.
PhaseFence ==
    \A r \in Requests : state[r] \in InFlight /\ token[r].epoch = epoch =>
        revision = token[r].fence + PhaseOffset(r)
                   + (IF "probe" \in journal[r] THEN 1 ELSE 0)

\* A terminal result carries exactly the provider fact that was durable when it
\* was written, also when a new process recovers the row of a dead one.
EvidencePreserved ==
    \A r \in Requests : state[r] \in Terminal =>
        (result[r].evidence <=> "attempt" \in journal[r])

\* A verified receipt is neither from the future nor later than its token.
ReceiptChronology ==
    \A r \in Requests : "receipt" \in journal[r] =>
        /\ receipt[r].completed <= trustedAt
        /\ receipt[r].completed < token[r].expires

\* The inductive invariant behind the four invariants on epochs and evidence: it
\* adds that one row is in flight, that no token is younger than the store's
\* epoch, and which facts a row of each state has (as
\* _assert_provider_journal_integrity() demands of every row).
TokensAge == \A r \in Requests : state[r] # "absent" => token[r].epoch <= epoch

JournalShape ==
    \A r \in Requests :
        /\ state[r] \in {"absent", "claimed"} => journal[r] = {}
        /\ state[r] = "dispatched" =>
              journal[r] \in {{}, {"intent"}, {"intent", "attempt"}}
        /\ state[r] = "provider_recorded" =>
              journal[r] \in {{"intent", "attempt", "receipt"}, Facts}

StoreInvariant ==
    /\ SingleInflight /\ TokensAge /\ JournalShape
    /\ PhaseFence /\ StopKillsActivation /\ FailureEndsEpoch /\ EvidencePreserved

-----------------------------------------------------------------------------
(* What a step may never do *)

\* A terminal row, its journal and its result never change again, though
\* recovery, late commits and replays all try to write results.
TerminalIsFinal ==
    [][\A r \in Requests : state[r] \in Terminal =>
          UNCHANGED <<state[r], result[r], journal[r], token[r]>>]_vars

\* Only the owner's own step ends its row; others may once the owner is gone.
OnlyOwnerEndsRow ==
    [][\A r \in Requests :
          state[r] \in InFlight /\ state'[r] \in Terminal /\ owner # None =>
              cur[owner] = r /\ pc'[owner] # pc[owner]]_vars

\* When a Human reset clears STOP, nobody is left who could act for an earlier
\* epoch: no row is in flight, and a consumer still inside execute() holds a
\* request that is over.
ResetFindsNothingPending ==
    [][stopped /\ ~stopped' =>
          /\ epoch' = epoch + 1
          /\ \A r \in Requests : state[r] \notin InFlight
          /\ \A p \in Procs : pc[p] # "idle" => state[cur[p]] \in Terminal]_vars

-----------------------------------------------------------------------------
(* Liveness, under FairSpec *)

\* A row whose owner is gone is recovered by whoever opens the store next: after an
\* outage of all processes, and as well when others have the store open all along and
\* can neither claim nor reset meanwhile. It stays only if every process that could
\* open the store has it open already (__init__ alone calls _recover_inflight()).
OrphanIsRecovered ==
    \A r \in Requests :
        /\ state[r] \in InFlight /\ (\A p \in Procs : store[p] = "none")
               ~> state[r] \in Terminal
        /\ state[r] \in InFlight /\ owner = None
               ~> state[r] \in Terminal \/ \A p \in Procs : store[p] = "open"

\* execute() returns or raises.
ExecuteEnds == \A p \in Procs : pc[p] # "idle" ~> pc[p] = "idle"

-----------------------------------------------------------------------------
(* The abstract promise, with the row's phases forgotten *)

Status(r) ==
    IF state[r] = "absent" THEN "new"
    ELSE IF state[r] \in InFlight THEN "open"
    ELSE IF state[r] = "succeeded" THEN "succeeded"
    ELSE "ended"

Contract == INSTANCE StopContract WITH
    status <- [r \in Requests |-> Status(r)],
    born <- [r \in Requests |-> token[r].epoch]

\* Whatever fails, crashes or interleaves, the store is a StopContract.
ImplementsContract == Contract!Spec

-----------------------------------------------------------------------------
(* What the repository says of the program *)

\* docs/P13_PRODUCTION_CONSUMER.md: a failure after the claim "is committed as
\* terminal UNKNOWN + STOP" when execute() gives up.
FailureAfterClaimIsTerminal ==
    [][\A p \in Procs :
          pc[p] = "failing" /\ pc'[p] = "idle" /\ store'[p] = "open" =>
              state'[cur[p]] \in Terminal]_vars

\* The same document: a failure before the claim "persists a fenced Global STOP".
FailureBeforeClaimStops ==
    [][\A p \in Procs :
          /\ pc[p] = "idle" /\ store[p] = "open"
          /\ ~(frozen'[p] \subseteq frozen[p])
          => stopped']_vars

\* The same document: an honest completion after the pre-call timestamp is judged
\* by the fresh post-provider attestation, not by a captured stale time.
FreshTimeJudgesReceipt ==
    [][\A p \in Procs :
          /\ pc[p] = "recorded" /\ pc'[p] = "failing"
          /\ receipt[cur[p]].outcome = "succeeded"
          => ~Verifies(cur[p], trustedAt) \/ ~VerifiesProvider(cur[p], trustedAt)]_vars
=============================================================================
