----------------------- MODULE GlobalStopProcessProofs -----------------------
(***************************************************************************)
(* What the processes, the provider and the P11 receipts of GlobalStop     *)
(* keep true, for any number of processes and requests: who owns the row   *)
(* in flight, under which authority a child runs, and what a success       *)
(* rests on.                                                               *)
(*                                                                         *)
(* The key is that whoever holds the store lock owns the row in flight:    *)
(* every other process's transaction waits, so that what was checked at a  *)
(* phase of the provider call still holds at the next one.                 *)
(***************************************************************************)
EXTENDS GlobalStopStoreProofs

\* Whoever is in a phase under the store lock owns the row in flight.
LockedOwns == \A p \in Procs : pc[p] \in Locked => Owns(p)

\* A process inside execute() is at a request that has a row.
WorkIsClaimed == \A p \in Procs : pc[p] # "idle" => state[cur[p]] # "absent"

-----------------------------------------------------------------------------
(* Steps of one process *)

\* A step of p leaves the others where they are.
Alone(p) == \A q \in Procs : q # p => pc'[q] = pc[q] /\ cur'[q] = cur[q]

\* Going on is a step of one process, on the request it is at (execute()).
LEMMA GoAlone ==
    ASSUME ProcessesOK, NEW p \in Procs, NEW phase, Go(p, phase)
    PROVE  /\ Alone(p) /\ pc'[p] = phase
           /\ cur'[p] = IF phase = "idle" THEN None ELSE cur[p]
BY DEF Go, Alone, ProcessesOK

\* So is a transaction, whose caller goes on or fails.
LEMMA ProceedAlone ==
    ASSUME ProcessesOK, NEW p \in Procs, NEW phase, NEW ending, Proceed(p, ending, phase)
    PROVE  /\ Alone(p) /\ pc'[p] \in {phase, "idle", "failing"}
           /\ pc'[p] # "idle" => cur'[p] = cur[p]
           /\ pc'[p] = "idle" => phase = "idle" \/ pc[p] \in {"idle", "failing"}
<1>1. PICK next : Go(p, next) /\ next \in {phase, AfterRaise(p)}
  BY DEF Proceed
<1> QED
  BY <1>1, GoAlone DEF AfterRaise

\* And a dead consumer leaves the others alone.
LEMMA FreshAlone ==
    ASSUME ProcessesOK, NEW p \in Procs, FreshConsumer(p)
    PROVE  Alone(p) /\ pc'[p] = "idle" /\ cur'[p] = None
BY DEF FreshConsumer, Alone, ProcessesOK

\* The phases in which an exception leads to the UNKNOWN commit or out of execute().
LEMMA Unlocked ==
    /\ {"idle", "claimed", "dispatched", "cleared", "recorded", "nonsuccess", "probe",
        "probed", "signed", "failing"} \cap Locked = {}
    /\ {"intent", "running", "escaped", "returned", "attempted", "probing"} = Locked
BY DEF Locked

-----------------------------------------------------------------------------
(* Whoever holds the store lock owns the row in flight *)

\* Two processes never hold the store lock at once (_shared_transaction()).
LEMMA OneLocked ==
    ASSUME LockedOwns, NEW p \in Procs, NEW q \in Procs, pc[p] \in Locked, pc[q] \in Locked
    PROVE  p = q
BY DEF LockedOwns, Owns

\* A step that keeps the owner and the stores.
LEMMA LockKeeps ==
    ASSUME LockedOwns, UNCHANGED <<owner, store>>, NEW p \in Procs, Alone(p),
           pc'[p] \in Locked => pc[p] \in Locked \/ Owns(p)
    PROVE  LockedOwns'
BY DEF LockedOwns, Owns, Alone

\* A step that nobody could take while somebody held the lock.
LEMMA LockStaysFree ==
    ASSUME LockFree, NEW p \in Procs, Alone(p), pc'[p] \notin Locked
    PROVE  LockedOwns'
BY DEF LockFree, LockedOwns, Alone

\* The provider's phases are steps of the lock's holder, who stays the owner or lets go
\* of the lock.
LEMMA LockOfProvider ==
    ASSUME TypeOK, LockedOwns, NEW p \in Procs,
           \/ CheckBoundary(p) \/ RecordIntent(p) \/ Launch(p) \/ ProviderReturns(p)
           \/ ProviderEscapes(p) \/ RecordAttempt(p) \/ RecordReceipt(p) \/ JudgeProvider(p)
           \/ RecordProbeIntent(p) \/ ProbeReturns(p) \/ ProbeFails(p) \/ SignActionReceipt(p)
    PROVE  LockedOwns'
<1> USE DEF TypeOK
<1>1. ASSUME NEW phase, Go(p, phase), UNCHANGED <<owner, store>>,
             phase \in Locked => pc[p] \in Locked \/ Owns(p)
      PROVE  LockedOwns'
  BY <1>1, GoAlone, LockKeeps
<1>2. ASSUME NEW phase, NEW ending, Proceed(p, ending, phase), UNCHANGED <<owner, store>>,
             phase \in Locked => pc[p] \in Locked \/ Owns(p)
      PROVE  LockedOwns'
  BY <1>2, ProceedAlone, LockKeeps, Unlocked
<1>3. AfterRaise(p) \notin Locked
  BY Unlocked DEF AfterRaise
<1>4. CASE CheckBoundary(p)
  BY <1>1, <1>4, Unlocked DEF CheckBoundary
<1>5. CASE RecordIntent(p)
  BY <1>1, <1>2, <1>3, <1>5 DEF RecordIntent, Note, CanInvoke, Raise
<1>6. CASE Launch(p)
  BY <1>1, <1>6, Unlocked DEF Launch
<1>7. CASE ProviderReturns(p)
  BY <1>1, <1>7, Unlocked DEF ProviderReturns
<1>8. CASE ProviderEscapes(p)
  BY <1>1, <1>8, Unlocked DEF ProviderEscapes
<1>9. CASE RecordAttempt(p)
  BY <1>2, <1>9, Unlocked DEF RecordAttempt, Note
<1>10. CASE RecordReceipt(p)
  BY <1>1, <1>2, <1>3, <1>10, Unlocked DEF RecordReceipt, Note, Raise
<1>11. CASE JudgeProvider(p)
  BY <1>1, <1>11, Unlocked DEF JudgeProvider
<1>12. CASE RecordProbeIntent(p)
  BY <1>1, <1>2, <1>12, Unlocked DEF RecordProbeIntent, Note, CanProbe
<1>13. CASE ProbeReturns(p) \/ ProbeFails(p)
  BY <1>1, <1>13, Unlocked DEF ProbeReturns, ProbeFails
<1>14. CASE SignActionReceipt(p)
  BY <1>1, <1>2, <1>14, Unlocked DEF SignActionReceipt
<1> QED
  BY <1>4, <1>5, <1>6, <1>7, <1>8, <1>9, <1>10, <1>11, <1>12, <1>13, <1>14

\* The other transactions wait for the lock; closing an uncertain call frees it.
LEMMA LockOfStore ==
    ASSUME TypeOK, LockedOwns, NEW p \in Procs,
           \/ Open(p) \/ RecoverAnchor(p) \/ ApplyReset(p) \/ Redeem(p) \/ CloseUncertain(p)
           \/ \E r \in Requests : Claim(p, r) \/ ClaimRefused(p, r)
           \/ CommitSuccess(p) \/ CommitNonSuccess(p) \/ CommitUnknown(p)
    PROVE  LockedOwns'
<1> USE DEF TypeOK
<1>1. ASSUME NEW phase, Go(p, phase), LockFree, phase \notin Locked
      PROVE  LockedOwns'
  BY <1>1, GoAlone, LockStaysFree
<1>2. ASSUME NEW phase, NEW ending, Proceed(p, ending, phase), LockFree, phase \notin Locked
      PROVE  LockedOwns'
  BY <1>2, ProceedAlone, LockStaysFree, Unlocked
<1>3. AfterRaise(p) \notin Locked
  BY Unlocked DEF AfterRaise
<1>4. CASE Open(p)
  <2>1. LockFree /\ FreshConsumer(p)
    BY <1>4 DEF Open
  <2> QED
    BY <2>1, FreshAlone, LockStaysFree, Unlocked
<1>5. CASE RecoverAnchor(p) \/ ApplyReset(p) \/ \E r \in Requests : ClaimRefused(p, r)
  BY <1>5 DEF RecoverAnchor, ApplyReset, ClaimRefused, consumerVars, LockedOwns, Owns
<1>6. CASE Redeem(p)
  BY <1>1, <1>2, <1>6, Unlocked DEF Redeem, RedeemOwned
<1>7. CASE CloseUncertain(p)
  <2>1. pc[p] \in Locked /\ Go(p, "failing") /\ "failing" \notin Locked
    BY <1>7, Unlocked DEF CloseUncertain
  <2>2. \A q \in Procs : pc'[q] \notin Locked
    BY <2>1, GoAlone, OneLocked DEF Alone
  <2> QED
    BY <2>2 DEF LockedOwns
<1>8. ASSUME NEW r \in Requests, Claim(p, r)
      PROVE  LockedOwns'
  <2>1. LockFree /\ \E phase \in {"claimed", "idle"} : pc' = [pc EXCEPT ![p] = phase]
    BY <1>8 DEF Claim, ClaimRow
  <2>2. \A q \in Procs : pc'[q] \notin Locked
    BY <2>1, Unlocked DEF LockFree, ProcessesOK
  <2> QED
    BY <2>2 DEF LockedOwns
<1>9. CASE CommitSuccess(p) \/ CommitNonSuccess(p) \/ CommitUnknown(p)
  BY <1>1, <1>2, <1>3, <1>9, Unlocked DEF CommitSuccess, CommitNonSuccess, CommitUnknown, CommitResult
<1> QED
  BY <1>4, <1>5, <1>6, <1>7, <1>8, <1>9

\* No failure takes the row away from the lock's holder and leaves it the lock: close()
\* and fork() wait for the lock, and a dead process holds none.
LEMMA LockOfFailure ==
    ASSUME TypeOK, LockedOwns, NEW p \in Procs, Fails(p)
    PROVE  LockedOwns'
<1> USE DEF TypeOK
<1>1. ASSUME NEW phase, Go(p, phase), UNCHANGED <<owner, store>>, phase \notin Locked
      PROVE  LockedOwns'
  BY <1>1, GoAlone, LockKeeps
<1>2. AfterRaise(p) \notin Locked /\ "failing" \notin Locked
  BY Unlocked DEF AfterRaise
<1>3. CASE AuthorityFails(p)
  BY <1>1, <1>2, <1>3 DEF AuthorityFails
<1>4. CASE TransactionFails(p)
  BY <1>1, <1>2, <1>4 DEF TransactionFails
<1>5. CASE \E cause \in {"clock", "roots"} : FailsBeforeClaim(p, cause)
  BY <1>5 DEF FailsBeforeClaim, LockedOwns, Owns
<1>6. CASE \E cause \in {"clock", "roots"} : FailsAfterClaim(p, cause)
  BY <1>1, <1>2, <1>6 DEF FailsAfterClaim
<1>7. CASE Crash(p)
  <2>1. /\ store' = [store EXCEPT ![p] = "none"] /\ Disown(p) /\ FreshConsumer(p)
    BY <1>7 DEF Crash
  <2>2. \A q \in Procs : q # p /\ Owns(q) => Owns(q)'
    BY <2>1 DEF Owns, Disown, ProcessesOK
  <2> QED
    BY <2>1, <2>2, FreshAlone, Unlocked DEF LockedOwns, Alone
<1>8. CASE Close(p)
  <2>1. /\ store' = [store EXCEPT ![p] = "quarantined"] /\ Disown(p) /\ UNCHANGED pc
        /\ pc[p] \notin Locked
    BY <1>8 DEF Close, consumerVars
  <2>2. \A q \in Procs : q # p /\ Owns(q) => Owns(q)'
    BY <2>1 DEF Owns, Disown, ProcessesOK
  <2> QED
    BY <2>1, <2>2 DEF LockedOwns
<1>9. ASSUME NEW q \in Procs, Fork(p, q)
      PROVE  LockedOwns'
  BY <1>9 DEF Fork, LockedOwns, Owns, ProcessesOK
<1> QED
  BY <1>3, <1>4, <1>5, <1>6, <1>7, <1>8, <1>9 DEF Fails

\* Every step, of the environment or of one process.
LEMMA LockStep ==
    ASSUME TypeOK, LockedOwns, [Next]_vars
    PROVE  LockedOwns'
<1>1. CASE UNCHANGED vars
  BY <1>1 DEF vars, consumerVars, LockedOwns, Owns
<1>2. CASE Tick \/ IssueReset \/ \E r \in Requests : Revoke(r) \/ Mutate(r) \/ OrphanEnds(r)
  BY <1>2 DEF Tick, IssueReset, Revoke, Mutate, OrphanEnds, consumerVars, LockedOwns, Owns
<1> QED
  BY <1>1, <1>2, LockOfProvider, LockOfStore, LockOfFailure DEF Next, Execute

-----------------------------------------------------------------------------
(* One row in flight, one owner *)

\* Every process at work is at a request that was claimed, and an owner has a row
\* in flight and its store open.
OwnerHasWork == owner # None => HasInflight /\ store[owner] = "open"

\* A row that exists goes on existing, and one in flight goes on or ends.
RowsGoOn == \A r \in Requests : state[r] # "absent" => state'[r] # "absent"

\* No row is ever deleted.
LEMMA RowsStay ==
    ASSUME TypeOK, [Next]_vars PROVE RowsGoOn
<1> USE DEF TypeOK, RowsOK
<1>1. ASSUME UNCHANGED state PROVE RowsGoOn
  BY <1>1 DEF RowsGoOn
<1>2. ASSUME NEW r \in Requests, NEW next, next # "absent", state' = [state EXCEPT ![r] = next]
      PROVE  RowsGoOn
  BY <1>2 DEF RowsGoOn
<1>3. ASSUME NEW p \in Procs, Open(p) PROVE RowsGoOn
  BY <1>1, <1>3 DEF Open, Recover, RowsGoOn, rowVars
<1>4. ASSUME NEW p \in Procs, NEW r \in Requests, Claim(p, r) PROVE RowsGoOn
  BY <1>2, <1>4 DEF Claim, ClaimRow
<1>5. ASSUME NEW p \in Procs, Redeem(p) PROVE RowsGoOn
  <2>1. PICK r \in Requests : r = cur[p]
    BY <1>5 DEF Redeem, ProcessesOK
  <2> QED
    BY <1>1, <1>2, <1>5, <2>1 DEF Redeem, RedeemOwned, Conclude, rowVars
<1>6. ASSUME NEW p \in Procs, CloseUncertain(p) PROVE RowsGoOn
  <2>1. PICK r \in Requests : r = cur[p]
    BY <1>6 DEF CloseUncertain, ProcessesOK
  <2> QED
    BY <1>1, <1>2, <1>6, <2>1 DEF CloseUncertain, Conclude, rowVars
<1>7. ASSUME NEW p \in Procs,
             \/ RecordIntent(p) \/ RecordAttempt(p) \/ RecordReceipt(p)
             \/ RecordProbeIntent(p)
      PROVE  RowsGoOn
  <2>1. PICK r \in Requests : r = cur[p]
    BY <1>7 DEF RecordIntent, RecordAttempt, RecordReceipt, RecordProbeIntent, ProcessesOK
  <2> QED
    BY <1>1, <1>2, <1>7, <2>1
       DEF RecordIntent, RecordAttempt, RecordReceipt, RecordProbeIntent, Raise, rowVars
<1>8. ASSUME NEW p \in Procs, CommitSuccess(p) \/ CommitNonSuccess(p) \/ CommitUnknown(p)
      PROVE  RowsGoOn
  <2>1. PICK r \in Requests : r = cur[p]
    BY <1>8 DEF CommitSuccess, CommitNonSuccess, CommitUnknown, ProcessesOK
  <2>2. PICK verdict \in Terminal : CommitResult(p, verdict)
    <3>1. receipt[r].outcome \in ProviderOutcomes
      BY <2>1 DEF OutsideOK, Receipts
    <3> QED
      BY <1>8, <2>1, <3>1, VerdictType, InFlightStates
         DEF CommitSuccess, CommitNonSuccess, CommitUnknown, Terminal, NonSuccess
  <2> QED
    BY <1>1, <1>2, <2>1, <2>2, InFlightStates DEF CommitResult, Conclude, rowVars
<1>9. CASE Aside \/ UNCHANGED vars
  BY <1>1, <1>9, AsideKeepsRows DEF rowVars, vars
<1>10. ASSUME NEW p \in Procs,
              \/ ApplyReset(p) \/ AuthorityFails(p)
              \/ \E cause \in {"clock", "roots"} : FailsBeforeClaim(p, cause)
       PROVE  RowsGoOn
  BY <1>1, <1>10, FailureStops DEF ApplyReset, rowVars
<1> QED
  BY <1>3, <1>4, <1>5, <1>6, <1>7, <1>8, <1>9, <1>10, NextCases

\* A process at work was at work on the same request, or has just claimed it.
LEMMA WorkComesFromClaim ==
    ASSUME TypeOK, [Next]_vars, NEW p \in Procs, pc'[p] # "idle"
    PROVE  \/ pc[p] # "idle" /\ cur'[p] = cur[p]
           \/ \E r \in Requests : Claim(p, r) /\ cur'[p] = r /\ state'[r] = "claimed"
<1> USE DEF TypeOK
<1>1. ASSUME UNCHANGED <<pc, cur>>
      PROVE  pc[p] # "idle" /\ cur'[p] = cur[p]
  BY <1>1
<1>2. ASSUME NEW q \in Procs, NEW phase, Go(q, phase), pc[q] # "idle" \/ phase = "idle"
      PROVE  pc[p] # "idle" /\ cur'[p] = cur[p]
  BY <1>2, GoAlone DEF Alone
<1>3. ASSUME NEW q \in Procs, NEW phase, NEW ending, Proceed(q, ending, phase), pc[q] # "idle"
      PROVE  pc[p] # "idle" /\ cur'[p] = cur[p]
  BY <1>3, ProceedAlone DEF Alone
<1>4. ASSUME NEW q \in Procs, FreshConsumer(q)
      PROVE  pc[p] # "idle" /\ cur'[p] = cur[p]
  BY <1>4, FreshAlone DEF Alone
<1>5. ASSUME NEW q \in Procs
      PROVE  pc[q] # "idle" \/ AfterRaise(q) = "idle"
  BY DEF AfterRaise
<1>6. CASE \/ UNCHANGED vars
           \/ Tick \/ IssueReset \/ \E r \in Requests : Revoke(r) \/ Mutate(r) \/ OrphanEnds(r)
  BY <1>1, <1>6 DEF vars, Tick, IssueReset, Revoke, Mutate, OrphanEnds, consumerVars
<1>7. ASSUME NEW q \in Procs, NEW r \in Requests, Claim(q, r)
      PROVE  \/ pc[p] # "idle" /\ cur'[p] = cur[p]
             \/ q = p /\ cur'[p] = r /\ state'[r] = "claimed"
  <2>1. PICK at \in Attested, ending \in Endings : ClaimRow(q, r, at, ending)
    BY <1>7 DEF Claim
  <2>2. CASE q = p
    BY <2>1, <2>2 DEF ClaimRow, ProcessesOK, RowsOK
  <2>3. CASE q # p
    BY <2>1, <2>3 DEF ClaimRow, ProcessesOK
  <2> QED
    BY <2>2, <2>3
<1>8. ASSUME NEW q \in Procs,
             \/ Open(q) \/ RecoverAnchor(q) \/ ApplyReset(q) \/ Crash(q) \/ Close(q)
             \/ \E r \in Requests : ClaimRefused(q, r)
             \/ \E s \in Procs : Fork(q, s)
             \/ \E cause \in {"clock", "roots"} : FailsBeforeClaim(q, cause)
      PROVE  pc[p] # "idle" /\ cur'[p] = cur[p]
  BY <1>1, <1>4, <1>8 DEF Open, RecoverAnchor, ApplyReset, Crash, Close, ClaimRefused, Fork,
     FailsBeforeClaim, consumerVars
<1>9. ASSUME NEW q \in Procs,
             \/ AuthorityFails(q) \/ TransactionFails(q)
             \/ \E cause \in {"clock", "roots"} : FailsAfterClaim(q, cause)
      PROVE  pc[p] # "idle" /\ cur'[p] = cur[p]
  BY <1>2, <1>5, <1>9 DEF AuthorityFails, TransactionFails, FailsAfterClaim
<1>10. ASSUME NEW q \in Procs,
             \/ Redeem(q) \/ CheckBoundary(q) \/ Launch(q) \/ ProviderReturns(q)
             \/ ProviderEscapes(q) \/ CloseUncertain(q) \/ JudgeProvider(q)
             \/ ProbeReturns(q) \/ ProbeFails(q) \/ SignActionReceipt(q)
      PROVE  pc[p] # "idle" /\ cur'[p] = cur[p]
  BY <1>2, <1>3, <1>10 DEF Redeem, RedeemOwned, CheckBoundary, Launch, ProviderReturns,
     ProviderEscapes, CloseUncertain, JudgeProvider, ProbeReturns, ProbeFails, SignActionReceipt
<1>11. ASSUME NEW q \in Procs,
             \/ RecordIntent(q) \/ RecordAttempt(q) \/ RecordReceipt(q) \/ RecordProbeIntent(q)
      PROVE  pc[p] # "idle" /\ cur'[p] = cur[p]
  BY <1>2, <1>3, <1>5, <1>11 DEF RecordIntent, RecordAttempt, RecordReceipt, RecordProbeIntent,
     Note, Raise
<1>12. ASSUME NEW q \in Procs, CommitSuccess(q) \/ CommitNonSuccess(q) \/ CommitUnknown(q)
      PROVE  pc[p] # "idle" /\ cur'[p] = cur[p]
  BY <1>2, <1>3, <1>5, <1>12 DEF CommitSuccess, CommitNonSuccess, CommitUnknown, CommitResult
<1> QED
  BY <1>6, <1>7, <1>8, <1>9, <1>10, <1>11, <1>12 DEF Next, Execute, Fails

\* So the request of a process at work keeps its row, once claimed.
LEMMA WorkStep ==
    ASSUME TypeOK, WorkIsClaimed, [Next]_vars
    PROVE  WorkIsClaimed'
<1> SUFFICES ASSUME NEW p \in Procs, pc'[p] # "idle"
             PROVE  state'[cur'[p]] # "absent"
  BY DEF WorkIsClaimed
<1>1. CASE pc[p] # "idle" /\ cur'[p] = cur[p]
  BY <1>1, RowsStay DEF WorkIsClaimed, RowsGoOn, TypeOK, ProcessesOK
<1> QED
  BY <1>1, WorkComesFromClaim

\* The owner lock is given up with the row, in the same step (_close(), close(), a crash).
LEMMA OwnerStep ==
    ASSUME TypeOK, StoreInvariant, LockedOwns, OwnerHasWork, [Next]_vars
    PROVE  OwnerHasWork'
<1> USE DEF TypeOK
<1>1. ASSUME UNCHANGED state, owner' = None \/ owner' = owner,
             owner' # None /\ store[owner] = "open" => store'[owner] = "open"
      PROVE  OwnerHasWork'
  BY <1>1 DEF OwnerHasWork, HasInflight
<1>2. ASSUME owner' = None PROVE OwnerHasWork'
  BY <1>2 DEF OwnerHasWork
<1>3. ASSUME NEW r \in Requests, NEW next \in InFlight, state' = [state EXCEPT ![r] = next],
             owner' # None, store'[owner'] = "open"
      PROVE  OwnerHasWork'
  BY <1>3 DEF OwnerHasWork, HasInflight, RowsOK
<1>4. CASE \/ UNCHANGED vars
           \/ Tick \/ IssueReset \/ \E r \in Requests : Revoke(r) \/ Mutate(r) \/ OrphanEnds(r)
  BY <1>1, <1>4 DEF vars, Tick, IssueReset, Revoke, Mutate, OrphanEnds, rowVars
<1>5. ASSUME NEW p \in Procs, Open(p)
      PROVE  OwnerHasWork'
  <2>1. CASE Orphaned
    BY <1>2, <1>5, <2>1 DEF Open, Orphaned
  <2>2. CASE ~Orphaned
    BY <1>1, <1>5, <2>2 DEF Open, rowVars, ProcessesOK
  <2> QED
    BY <2>1, <2>2
<1>6. ASSUME NEW p \in Procs,
             \/ RecoverAnchor(p) \/ ApplyReset(p) \/ AuthorityFails(p) \/ TransactionFails(p)
             \/ \E r \in Requests : ClaimRefused(p, r)
             \/ \E cause \in {"clock", "roots"} :
                    FailsBeforeClaim(p, cause) \/ FailsAfterClaim(p, cause)
      PROVE  OwnerHasWork'
  BY <1>1, <1>6 DEF RecoverAnchor, ApplyReset, AuthorityFails, TransactionFails, ClaimRefused,
     FailsBeforeClaim, FailsAfterClaim, rowVars
<1>7. ASSUME NEW p \in Procs, Crash(p) \/ Close(p)
      PROVE  OwnerHasWork'
  <2>1. /\ Disown(p) /\ UNCHANGED state
        /\ \E s : store' = [store EXCEPT ![p] = s]
    BY <1>7 DEF Crash, Close, rowVars
  <2> QED
    BY <1>1, <2>1 DEF Disown, ProcessesOK
<1>8. ASSUME NEW p \in Procs, NEW q \in Procs, Fork(p, q)
      PROVE  OwnerHasWork'
  BY <1>1, <1>8 DEF Fork, rowVars, ProcessesOK
<1>9. ASSUME NEW p \in Procs, NEW r \in Requests, Claim(p, r)
      PROVE  OwnerHasWork'
  <2>1. /\ owner' = p /\ store'[p] = "open" /\ p # None
        /\ state' = [state EXCEPT ![r] = "claimed"]
    BY <1>9, NoneAssumption DEF Claim, ClaimRow, CanClaim
  <2> QED
    BY <1>3, <2>1 DEF InFlight
<1>10. ASSUME NEW p \in Procs,
             \/ CheckBoundary(p) \/ Launch(p) \/ ProviderReturns(p) \/ ProviderEscapes(p)
             \/ JudgeProvider(p) \/ ProbeReturns(p) \/ ProbeFails(p) \/ SignActionReceipt(p)
      PROVE  OwnerHasWork'
  BY <1>1, <1>10 DEF CheckBoundary, Launch, ProviderReturns, ProviderEscapes, JudgeProvider,
     ProbeReturns, ProbeFails, SignActionReceipt, rowVars
<1>11. ASSUME NEW p \in Procs,
             \/ RecordIntent(p) \/ RecordAttempt(p) \/ RecordReceipt(p) \/ RecordProbeIntent(p)
      PROVE  OwnerHasWork'
  <2>1. CASE UNCHANGED <<state, owner, store>>
    BY <1>1, <2>1
  <2>2. PICK r \in Requests : r = cur[p]
    BY <1>11 DEF RecordIntent, RecordAttempt, RecordReceipt, RecordProbeIntent, ProcessesOK
  <2>3. CASE state' = [state EXCEPT ![r] = "provider_recorded"] /\ UNCHANGED <<owner, store>>
    BY <1>2, <1>3, <2>2, <2>3 DEF InFlight, OwnerHasWork
  <2> QED
    BY <1>11, <2>1, <2>2, <2>3 DEF RecordIntent, RecordAttempt, RecordReceipt, RecordProbeIntent,
       Raise, rowVars
<1>12. ASSUME NEW p \in Procs, Redeem(p)
      PROVE  OwnerHasWork'
  <2>1. CASE UNCHANGED <<state, owner, store>>
    BY <1>1, <2>1
  <2>2. PICK r \in Requests : r = cur[p]
    BY <1>12 DEF Redeem, ProcessesOK
  <2>3. CASE state' = [state EXCEPT ![r] = "dispatched"] /\ UNCHANGED <<owner, store>>
    BY <1>2, <1>3, <2>3 DEF InFlight, OwnerHasWork
  <2> QED
    BY <1>2, <1>12, <2>1, <2>2, <2>3 DEF Redeem, RedeemOwned, rowVars
<1>13. ASSUME NEW p \in Procs, CloseUncertain(p)
      PROVE  OwnerHasWork'
  <2>1. owner = p
    BY <1>13, Unlocked DEF CloseUncertain, LockedOwns, Owns
  <2> QED
    BY <1>2, <1>13, <2>1 DEF CloseUncertain, Disown
<1>14. ASSUME NEW p \in Procs, CommitSuccess(p) \/ CommitNonSuccess(p) \/ CommitUnknown(p)
      PROVE  OwnerHasWork'
  BY <1>1, <1>2, <1>14 DEF CommitSuccess, CommitNonSuccess, CommitUnknown, CommitResult, rowVars
<1> QED
  BY <1>4, <1>5, <1>6, <1>7, <1>8, <1>9, <1>10, <1>11, <1>12, <1>13, <1>14 DEF Next, Execute, Fails

-----------------------------------------------------------------------------
(* Under the lock nothing moves but its holder *)

\* While p keeps the store lock and stays where it is, no transaction of another
\* process changes the store (_shared_transaction(), close(), apply_reset()).
LEMMA LockedStill ==
    ASSUME TypeOK, LockedOwns, [Next]_vars,
           NEW p \in Procs, pc[p] \in Locked, pc'[p] = pc[p]
    PROVE  UNCHANGED <<revision, epoch, stopped, trustedAt, rowVars>>
<1> USE DEF TypeOK
<1>1. ~LockFree
  BY DEF LockFree
<1>2. ASSUME NEW q \in Procs, pc[q] \in Locked, NEW phase, Go(q, phase), phase # pc[q]
      PROVE  FALSE
  BY <1>2, OneLocked, GoAlone
<1>3. ASSUME NEW q \in Procs, pc[q] \in Locked, NEW phase, NEW ending,
             Proceed(q, ending, phase), phase # pc[q]
      PROVE  FALSE
  BY <1>3, OneLocked, ProceedAlone, Unlocked
<1>4. CASE \/ UNCHANGED vars
           \/ Tick \/ IssueReset \/ \E r \in Requests : Revoke(r) \/ Mutate(r) \/ OrphanEnds(r)
  BY <1>4 DEF vars, Tick, IssueReset, Revoke, Mutate, OrphanEnds, metaVars
<1>5. ASSUME NEW q \in Procs,
             \/ Open(q) \/ RecoverAnchor(q) \/ ApplyReset(q) \/ Redeem(q) \/ RecordIntent(q)
             \/ RecordProbeIntent(q)
             \/ \E r \in Requests : Claim(q, r)
             \/ CommitSuccess(q) \/ CommitNonSuccess(q) \/ CommitUnknown(q)
      PROVE  FALSE
  BY <1>1, <1>5 DEF Open, RecoverAnchor, ApplyReset, Redeem, RecordIntent, RecordProbeIntent,
     Claim, CommitSuccess, CommitNonSuccess, CommitUnknown, CommitResult
<1>6. ASSUME NEW q \in Procs,
             \/ TransactionFails(q) \/ Crash(q) \/ Close(q) \/ \E s \in Procs : Fork(q, s)
             \/ \E r \in Requests : ClaimRefused(q, r)
             \/ \E cause \in {"clock", "roots"} : FailsAfterClaim(q, cause)
             \/ CheckBoundary(q) \/ Launch(q) \/ ProviderReturns(q) \/ ProviderEscapes(q)
             \/ JudgeProvider(q) \/ ProbeReturns(q) \/ ProbeFails(q) \/ SignActionReceipt(q)
      PROVE  UNCHANGED <<revision, epoch, stopped, trustedAt, rowVars>>
  BY <1>6 DEF TransactionFails, Crash, Close, Fork, ClaimRefused, FailsAfterClaim, CheckBoundary,
     Launch, ProviderReturns, ProviderEscapes, JudgeProvider, ProbeReturns, ProbeFails,
     SignActionReceipt, metaVars
<1>7. ASSUME NEW q \in Procs, \E cause \in {"clock", "roots"} : FailsBeforeClaim(q, cause)
      PROVE  UNCHANGED <<revision, epoch, stopped, trustedAt, rowVars>>
  BY <1>1, <1>7 DEF FailsBeforeClaim, metaVars
<1>8. ASSUME NEW q \in Procs, AuthorityFails(q)
      PROVE  FALSE
  BY <1>1, <1>2, <1>8, Unlocked DEF AuthorityFails, AfterRaise
<1>9. ASSUME NEW q \in Procs, CloseUncertain(q)
      PROVE  FALSE
  BY <1>2, <1>9, Unlocked DEF CloseUncertain
<1>10. ASSUME NEW q \in Procs, RecordAttempt(q)
      PROVE  FALSE
  BY <1>3, <1>10, Unlocked DEF RecordAttempt, Note
<1>11. ASSUME NEW q \in Procs, RecordReceipt(q)
      PROVE  FALSE
  BY <1>2, <1>3, <1>11, Unlocked DEF RecordReceipt, Note, Raise, AfterRaise
<1> QED
  BY <1>4, <1>5, <1>6, <1>7, <1>8, <1>9, <1>10, <1>11 DEF Next, Execute, Fails

\* The three phases around the provider call are entered by one action each.
LEMMA ProviderPhases ==
    ASSUME TypeOK, [Next]_vars, NEW p \in Procs, pc'[p] # pc[p]
    PROVE  /\ pc'[p] = "intent" =>
                RecordIntent(p) /\ \E at \in Attested : CanInvoke(p, cur[p], at)
           /\ pc'[p] = "running" => Launch(p) /\ MayLaunch(p, cur[p])
           /\ pc'[p] = "returned" => ProviderReturns(p)
<1> USE DEF TypeOK
<1> DEFINE Entered == /\ pc'[p] = "intent" =>
                           RecordIntent(p) /\ \E at \in Attested : CanInvoke(p, cur[p], at)
                      /\ pc'[p] = "running" => Launch(p) /\ MayLaunch(p, cur[p])
                      /\ pc'[p] = "returned" => ProviderReturns(p)
<1>1. ASSUME NEW q \in Procs, NEW phase, Go(q, phase),
             phase \notin {"intent", "running", "returned"}
      PROVE  Entered
  BY <1>1, GoAlone DEF Alone
<1>2. ASSUME NEW q \in Procs, NEW phase, NEW ending, Proceed(q, ending, phase),
             phase \notin {"intent", "running", "returned"}
      PROVE  Entered
  BY <1>2, ProceedAlone DEF Alone
<1>3. ASSUME NEW q \in Procs
      PROVE  AfterRaise(q) \notin {"intent", "running", "returned"}
  BY DEF AfterRaise
<1>4. CASE \/ UNCHANGED vars
           \/ Tick \/ IssueReset \/ \E r \in Requests : Revoke(r) \/ Mutate(r) \/ OrphanEnds(r)
  BY <1>4 DEF vars, Tick, IssueReset, Revoke, Mutate, OrphanEnds, consumerVars
<1>5. ASSUME NEW q \in Procs, FreshConsumer(q)
      PROVE  Entered
  BY <1>5, FreshAlone DEF Alone
<1>6. ASSUME NEW q \in Procs,
             \/ Open(q) \/ RecoverAnchor(q) \/ ApplyReset(q) \/ Crash(q) \/ Close(q)
             \/ \E r \in Requests : ClaimRefused(q, r)
             \/ \E s \in Procs : Fork(q, s)
             \/ \E cause \in {"clock", "roots"} : FailsBeforeClaim(q, cause)
      PROVE  Entered
  BY <1>5, <1>6 DEF Open, RecoverAnchor, ApplyReset, Crash, Close, ClaimRefused, Fork,
     FailsBeforeClaim, consumerVars
<1>7. ASSUME NEW q \in Procs, NEW r \in Requests, Claim(q, r)
      PROVE  Entered
  <2>1. \E phase \in {"claimed", "idle"} : pc' = [pc EXCEPT ![q] = phase]
    BY <1>7 DEF Claim, ClaimRow
  <2> QED
    BY <2>1 DEF ProcessesOK
<1>8. ASSUME NEW q \in Procs,
             \/ AuthorityFails(q) \/ TransactionFails(q)
             \/ \E cause \in {"clock", "roots"} : FailsAfterClaim(q, cause)
      PROVE  Entered
  BY <1>1, <1>3, <1>8 DEF AuthorityFails, TransactionFails, FailsAfterClaim
<1>9. ASSUME NEW q \in Procs,
             \/ Redeem(q) \/ CheckBoundary(q) \/ ProviderEscapes(q) \/ CloseUncertain(q)
             \/ JudgeProvider(q) \/ ProbeReturns(q) \/ ProbeFails(q) \/ SignActionReceipt(q)
      PROVE  Entered
  BY <1>1, <1>2, <1>9 DEF Redeem, RedeemOwned, CheckBoundary, ProviderEscapes, CloseUncertain,
     JudgeProvider, ProbeReturns, ProbeFails, SignActionReceipt
<1>10. ASSUME NEW q \in Procs, RecordAttempt(q) \/ RecordReceipt(q) \/ RecordProbeIntent(q)
      PROVE  Entered
  BY <1>1, <1>2, <1>3, <1>10 DEF RecordAttempt, RecordReceipt, RecordProbeIntent, Note, Raise
<1>11. ASSUME NEW q \in Procs, CommitSuccess(q) \/ CommitNonSuccess(q) \/ CommitUnknown(q)
      PROVE  Entered
  BY <1>1, <1>2, <1>3, <1>11 DEF CommitSuccess, CommitNonSuccess, CommitUnknown, CommitResult
<1>12. ASSUME NEW q \in Procs, RecordIntent(q)
      PROVE  Entered
  <2>1. CASE Raise(q)
    BY <1>1, <1>3, <2>1 DEF Raise
  <2>2. ASSUME NEW at \in Attested, NEW ending, CanInvoke(q, cur[q], at),
               Proceed(q, ending, "intent")
        PROVE  Entered
    BY <1>12, <2>2, ProceedAlone DEF Alone
  <2> QED
    BY <1>12, <2>1, <2>2 DEF RecordIntent, Note
<1>13. ASSUME NEW q \in Procs, Launch(q)
      PROVE  Entered
  BY <1>1, <1>13, GoAlone DEF Launch, Alone
<1>14. ASSUME NEW q \in Procs, ProviderReturns(q)
      PROVE  Entered
  BY <1>14, GoAlone DEF ProviderReturns, Alone
<1> QED
  BY <1>4, <1>6, <1>7, <1>8, <1>9, <1>10, <1>11, <1>12, <1>13, <1>14 DEF Next, Execute, Fails

\* No grant is revoked while a child runs under its parent (the P11 store lock).
LEMMA RevokedStays ==
    ASSUME [Next]_vars, NEW p \in Procs, pc[p] = "running"
    PROVE  UNCHANGED revoked
<1> USE DEF outsideVars
<1>1. CASE \/ UNCHANGED vars
           \/ Tick \/ IssueReset \/ \E r \in Requests : Revoke(r) \/ Mutate(r) \/ OrphanEnds(r)
  BY <1>1 DEF vars, Tick, IssueReset, Revoke, Mutate, OrphanEnds
<1>2. ASSUME NEW q \in Procs,
             \/ Open(q) \/ RecoverAnchor(q) \/ ApplyReset(q)
             \/ \E r \in Requests : Claim(q, r) \/ ClaimRefused(q, r)
      PROVE  UNCHANGED revoked
  BY <1>2 DEF Open, RecoverAnchor, ApplyReset, Claim, ClaimRefused
<1>3. ASSUME NEW q \in Procs, Fails(q)
      PROVE  UNCHANGED revoked
  BY <1>3 DEF Fails, AuthorityFails, TransactionFails, FailsBeforeClaim, FailsAfterClaim, Crash,
     Close, Fork
<1>4. ASSUME NEW q \in Procs,
             \/ Redeem(q) \/ CheckBoundary(q) \/ RecordIntent(q) \/ Launch(q)
             \/ ProviderReturns(q) \/ ProviderEscapes(q) \/ CloseUncertain(q)
      PROVE  UNCHANGED revoked
  BY <1>4 DEF Redeem, CheckBoundary, RecordIntent, Raise, Launch, ProviderReturns,
     ProviderEscapes, CloseUncertain
<1>5. ASSUME NEW q \in Procs,
             \/ RecordAttempt(q) \/ RecordReceipt(q) \/ JudgeProvider(q) \/ RecordProbeIntent(q)
             \/ ProbeReturns(q) \/ ProbeFails(q) \/ SignActionReceipt(q)
             \/ CommitSuccess(q) \/ CommitNonSuccess(q) \/ CommitUnknown(q)
      PROVE  UNCHANGED revoked
  BY <1>5 DEF RecordAttempt, RecordReceipt, Raise, JudgeProvider, RecordProbeIntent, ProbeReturns,
     ProbeFails, SignActionReceipt, CommitSuccess, CommitNonSuccess, CommitUnknown, CommitResult
<1> QED
  BY <1>1, <1>2, <1>3, <1>4, <1>5 DEF Next, Execute

\* The authority a launch checked holds for as long as its child runs.
LEMMA RunningStep ==
    ASSUME TypeOK, LockedOwns, RunningUnderAuthority, [Next]_vars
    PROVE  RunningUnderAuthority'
<1> SUFFICES ASSUME NEW p \in Procs, pc'[p] = "running"
             PROVE  (/\ Owns(p) /\ state[cur[p]] = "dispatched" /\ token[cur[p]].epoch = epoch
                     /\ cur[p] \notin revoked /\ ~Stopped(cur[p]))'
  BY DEF RunningUnderAuthority
<1>1. Owns(p)'
  BY LockStep, Unlocked DEF LockedOwns
<1>2. CASE pc[p] = "running"
  <2>1. UNCHANGED <<revision, epoch, stopped, trustedAt, rowVars>> /\ UNCHANGED revoked
    BY <1>2, LockedStill, RevokedStays, Unlocked
  <2>2. cur'[p] = cur[p]
    BY <1>2, WorkComesFromClaim DEF Claim
  <2> QED
    BY <1>1, <1>2, <2>1, <2>2 DEF RunningUnderAuthority, rowVars, Stopped, Activation
<1>3. CASE pc[p] # "running"
  <2>1. Launch(p) /\ MayLaunch(p, cur[p])
    BY <1>3, ProviderPhases
  <2>2. cur'[p] = cur[p]
    BY <2>1, WorkComesFromClaim DEF Launch, Claim
  <2>3. UNCHANGED <<metaVars, rowVars, revoked>>
    BY <2>1 DEF Launch, outsideVars
  <2> QED
    BY <1>1, <2>1, <2>2, <2>3 DEF MayLaunch, metaVars, rowVars, Stopped, Activation
<1> QED
  BY <1>2, <1>3
-----------------------------------------------------------------------------
(* How a row begins and ends *)

\* p ends r: it is at r, it owns the row, and it leaves the phase it was in; a
\* success passed every check of commit_result().
Ends(p, r) ==
    /\ cur[p] = r /\ owner = p /\ pc'[p] # pc[p]
    /\ state'[r] = "succeeded" =>
          /\ \E at \in Attested : CanCommit(p, r, "succeeded", at)
          /\ UNCHANGED <<journal, providerVars, p11Receipts>>

\* No other row of its key exists when a row begins (claim()).
Begins(r) ==
    /\ \A q \in Requests : Key[q] = Key[r] => state[q] = "absent"
    /\ \A q \in Requests : q # r => state'[q] = state[q]

RowStep(r) ==
    \/ state'[r] = state[r]
    \/ state[r] = "absent" /\ state'[r] = "claimed" /\ Begins(r)
    \/ state[r] \in InFlight /\ state'[r] \in InFlight
    \/ state[r] \in InFlight /\ state'[r] = "unknown" /\ owner = None
    \/ state[r] \in InFlight /\ state'[r] \in Terminal /\ \E p \in Procs : Ends(p, r)

\* Every way a row can change: claimed, moved on, recovered without an owner, or
\* ended by its owner.
LEMMA RowSteps ==
    ASSUME TypeOK, LockedOwns, [Next]_vars, NEW r \in Requests
    PROVE  RowStep(r)
<1> USE DEF TypeOK, RowsOK
<1>1. ASSUME UNCHANGED state PROVE RowStep(r)
  BY <1>1 DEF RowStep
<1>2. ASSUME NEW q \in Requests, NEW next, state' = [state EXCEPT ![q] = next],
             q = r => RowStep(r)
      PROVE  RowStep(r)
  BY <1>2 DEF RowStep
<1>3. ASSUME NEW p \in Procs, Open(p) PROVE RowStep(r)
  BY <1>1, <1>3 DEF Open, Recover, Orphaned, RowStep, rowVars
<1>4. ASSUME NEW p \in Procs, NEW q \in Requests, Claim(p, q) PROVE RowStep(r)
  <2>1. state' = [state EXCEPT ![q] = "claimed"]
    BY <1>4 DEF Claim, ClaimRow
  <2>2. state[q] = "absent" /\ Begins(q)
    BY <1>4, <2>1 DEF Claim, ClaimRow, CanClaim, Begins
  <2> QED
    BY <1>2, <2>1, <2>2 DEF RowStep
<1>5. ASSUME NEW p \in Procs, Redeem(p) PROVE RowStep(r)
  <2>1. PICK q \in Requests : q = cur[p]
    BY <1>5 DEF Redeem, ProcessesOK
  <2>2. ASSUME NEW at \in Attested, NEW ending \in Endings, RedeemOwned(p, q, at, ending)
        PROVE  RowStep(r)
    <3>1. state[q] \in InFlight /\ owner = p
      BY <2>2 DEF RedeemOwned, InFlight, Owns
    <3>2. CASE state' = [state EXCEPT ![q] = "dispatched"]
      BY <1>2, <3>1, <3>2 DEF RowStep, InFlight
    <3>3. CASE state' = [state EXCEPT ![q] = "unknown"] /\ Proceed(p, ending, "idle")
      <4>1. pc'[p] # pc[p]
        BY <1>5, <3>3, ProceedAlone DEF Redeem
      <4> QED
        BY <1>2, <2>1, <3>1, <3>3, <4>1 DEF RowStep, Ends, Terminal, NonSuccess
    <3> QED
      BY <2>2, <3>2, <3>3 DEF RedeemOwned, Conclude
  <2> QED
    BY <1>1, <1>5, <2>1, <2>2 DEF Redeem, rowVars
<1>6. ASSUME NEW p \in Procs, CloseUncertain(p) PROVE RowStep(r)
  <2>1. PICK q \in Requests : q = cur[p]
    BY <1>6 DEF CloseUncertain, ProcessesOK
  <2>2. owner = p /\ pc'[p] # pc[p]
    BY <1>6, Unlocked, GoAlone DEF CloseUncertain, LockedOwns, Owns
  <2>3. CASE state[q] = "dispatched" /\ state' = [state EXCEPT ![q] = "unknown"]
    BY <1>2, <2>1, <2>2, <2>3 DEF RowStep, Ends, InFlight, Terminal, NonSuccess
  <2> QED
    BY <1>1, <1>6, <2>1, <2>3 DEF CloseUncertain, Conclude, rowVars
<1>7. ASSUME NEW p \in Procs,
             \/ RecordIntent(p) \/ RecordAttempt(p) \/ RecordReceipt(p)
             \/ RecordProbeIntent(p)
      PROVE  RowStep(r)
  <2>1. PICK q \in Requests : q = cur[p]
    BY <1>7 DEF RecordIntent, RecordAttempt, RecordReceipt, RecordProbeIntent, ProcessesOK
  <2>2. CASE state[q] = "dispatched" /\ state' = [state EXCEPT ![q] = "provider_recorded"]
    BY <1>2, <2>2 DEF RowStep, InFlight
  <2> QED
    BY <1>1, <1>7, <2>1, <2>2
       DEF RecordIntent, RecordAttempt, RecordReceipt, RecordProbeIntent, CanRecordReceipt, Raise,
           rowVars
<1>8. ASSUME NEW p \in Procs, CommitSuccess(p) \/ CommitNonSuccess(p) \/ CommitUnknown(p)
      PROVE  RowStep(r)
  <2>1. PICK q \in Requests : q = cur[p]
    BY <1>8 DEF CommitSuccess, CommitNonSuccess, CommitUnknown, ProcessesOK
  <2>2. PICK verdict \in Terminal : CommitResult(p, verdict)
    <3>1. receipt[q].outcome \in ProviderOutcomes
      BY <2>1 DEF OutsideOK, Receipts
    <3> QED
      BY <1>8, <2>1, <3>1, VerdictType, InFlightStates
         DEF CommitSuccess, CommitNonSuccess, CommitUnknown, Terminal, NonSuccess
  <2>3. ASSUME NEW at \in Attested, NEW ending, CanCommit(p, q, verdict, at),
               Conclude(q, verdict, at), Proceed(p, ending, "idle")
        PROVE  RowStep(r)
    <3>1. state[q] \in InFlight /\ owner = p
      BY <2>3 DEF CanCommit, InFlight, Owns
    <3>2. pc'[p] # pc[p]
      <4>1. pc[p] \in {"signed", "nonsuccess", "failing"}
        BY <1>8 DEF CommitSuccess, CommitNonSuccess, CommitUnknown
      <4>2. PICK next : Go(p, next) /\ next \in {"idle", AfterRaise(p)}
        BY <2>3 DEF Proceed
      <4>3. next # pc[p]
        BY <4>1, <4>2 DEF AfterRaise
      <4> QED
        BY <4>2, <4>3, GoAlone
    <3>3. state' = [state EXCEPT ![q] = verdict] /\ UNCHANGED journal
      BY <2>3 DEF Conclude
    <3>4. state'[q] = verdict
      BY <3>3
    <3>5. UNCHANGED <<providerVars, p11Receipts>>
      BY <2>2 DEF CommitResult, outsideVars
    <3>6. Ends(p, q)
      BY <2>1, <2>3, <3>1, <3>2, <3>3, <3>4, <3>5 DEF Ends
    <3> QED
      BY <1>2, <3>1, <3>3, <3>4, <3>6 DEF RowStep
  <2> QED
    BY <1>1, <2>1, <2>2, <2>3 DEF CommitResult, rowVars
<1>9. CASE Aside \/ UNCHANGED vars
  BY <1>1, <1>9, AsideKeepsRows DEF rowVars, vars
<1>10. ASSUME NEW p \in Procs,
              \/ ApplyReset(p) \/ AuthorityFails(p)
              \/ \E cause \in {"clock", "roots"} : FailsBeforeClaim(p, cause)
       PROVE  RowStep(r)
  BY <1>1, <1>10, FailureStops DEF ApplyReset, rowVars
<1> QED
  BY <1>3, <1>4, <1>5, <1>6, <1>7, <1>8, <1>9, <1>10, NextCases

\* Two requests of one idempotency key never both have a row.
KeysDiffer ==
    \A q, r \in Requests :
        q # r /\ Key[q] = Key[r] => state[q] = "absent" \/ state[r] = "absent"

\* A claim looks for every row of its key (claim()).
LEMMA KeysStep ==
    ASSUME TypeOK, LockedOwns, KeysDiffer, [Next]_vars
    PROVE  KeysDiffer'
<1>1. ASSUME NEW q \in Requests, NEW r \in Requests, q # r, Key[q] = Key[r],
             state'[q] # "absent", state[r] = "absent"
      PROVE  state'[r] = "absent"
  <2>1. CASE state[q] # "absent"
    BY <1>1, <2>1, RowSteps, InFlightStates DEF RowStep, Begins
  <2>2. CASE state[q] = "absent"
    BY <1>1, <2>2, RowSteps, InFlightStates DEF RowStep, Begins
  <2> QED
    BY <2>1, <2>2
<1>2. \A r \in Requests : state'[r] = "absent" => state[r] = "absent"
  BY RowsStay DEF RowsGoOn
<1> QED
  BY <1>1, <1>2 DEF KeysDiffer

-----------------------------------------------------------------------------
(* What a reset finds *)

\* Only a Human reset clears STOP, and never while a row is in flight (apply_reset()).
LEMMA OnlyResetClears ==
    ASSUME TypeOK, [Next]_vars, stopped, ~stopped'
    PROVE  epoch' = epoch + 1 /\ ~HasInflight /\ UNCHANGED <<state, consumerVars>>
<1>1. CASE Aside \/ UNCHANGED vars
  BY <1>1, AsideKeepsRows DEF vars, metaVars
<1>2. ASSUME Stop \/ UNCHANGED stopped PROVE FALSE
  BY <1>2 DEF Stop
<1>3. ASSUME NEW p \in Procs, ApplyReset(p)
      PROVE  epoch' = epoch + 1 /\ ~HasInflight /\ UNCHANGED <<state, consumerVars>>
  BY <1>3 DEF ApplyReset, CanReset, rowVars
<1>4. ASSUME NEW p \in Procs,
             \/ Open(p) \/ CloseUncertain(p)
             \/ \E r \in Requests : Claim(p, r)
             \/ AuthorityFails(p)
             \/ \E cause \in {"clock", "roots"} : FailsBeforeClaim(p, cause)
      PROVE  FALSE
  BY <1>2, <1>4, FailureStops DEF Open, Recover, Claim, CloseUncertain, metaVars
<1>5. ASSUME NEW p \in Procs, Redeem(p)
      PROVE  FALSE
  BY <1>2, <1>5 DEF Redeem, RedeemOwned, metaVars
<1>6. ASSUME NEW p \in Procs,
             \/ RecordIntent(p) \/ RecordAttempt(p) \/ RecordReceipt(p) \/ RecordProbeIntent(p)
      PROVE  FALSE
  BY <1>2, <1>6 DEF RecordIntent, RecordAttempt, RecordReceipt, RecordProbeIntent, Note, Raise,
     metaVars
<1>7. ASSUME NEW p \in Procs, CommitSuccess(p) \/ CommitNonSuccess(p) \/ CommitUnknown(p)
      PROVE  FALSE
  BY <1>2, <1>7 DEF CommitSuccess, CommitNonSuccess, CommitUnknown, CommitResult, metaVars
<1> QED
  BY <1>1, <1>2, <1>3, <1>4, <1>5, <1>6, <1>7, NextCases DEF vars, metaVars

-----------------------------------------------------------------------------
(* What has been done outside, and what is noted of it *)

\* The provider's side changes in five steps only.
LEMMA ProviderSteps ==
    ASSUME [Next]_vars
    PROVE  \/ UNCHANGED providerVars
           \/ \E p \in Procs : Launch(p) \/ ProviderReturns(p) \/ ProviderEscapes(p)
           \/ \E r \in Requests : Mutate(r) \/ OrphanEnds(r)
<1>1. CASE UNCHANGED vars \/ Tick \/ IssueReset \/ \E r \in Requests : Revoke(r)
  BY <1>1 DEF vars, Tick, IssueReset, Revoke
<1>2. ASSUME NEW q \in Procs,
             \/ Open(q) \/ RecoverAnchor(q) \/ ApplyReset(q)
             \/ \E r \in Requests : Claim(q, r) \/ ClaimRefused(q, r)
      PROVE  UNCHANGED providerVars
  BY <1>2 DEF Open, RecoverAnchor, ApplyReset, Claim, ClaimRefused
<1>3. ASSUME NEW q \in Procs, Fails(q)
      PROVE  UNCHANGED providerVars
  BY <1>3 DEF Fails, AuthorityFails, TransactionFails, FailsBeforeClaim, FailsAfterClaim, Crash,
     Close, Fork
<1>4. ASSUME NEW q \in Procs, Redeem(q) \/ CheckBoundary(q) \/ RecordIntent(q) \/ CloseUncertain(q)
      PROVE  UNCHANGED providerVars
  BY <1>4 DEF Redeem, CheckBoundary, RecordIntent, Raise, CloseUncertain
<1>5. ASSUME NEW q \in Procs,
             \/ RecordAttempt(q) \/ RecordReceipt(q) \/ JudgeProvider(q) \/ RecordProbeIntent(q)
             \/ ProbeReturns(q) \/ ProbeFails(q) \/ SignActionReceipt(q)
             \/ CommitSuccess(q) \/ CommitNonSuccess(q) \/ CommitUnknown(q)
      PROVE  UNCHANGED providerVars
  BY <1>5 DEF RecordAttempt, RecordReceipt, Raise, JudgeProvider, RecordProbeIntent, ProbeReturns,
     ProbeFails, SignActionReceipt, CommitSuccess, CommitNonSuccess, CommitUnknown, CommitResult
<1> QED
  BY <1>1, <1>2, <1>3, <1>4, <1>5 DEF Next, Execute

\* An action receipt is never withdrawn from the P11 database.
LEMMA ActionReceiptsStay ==
    ASSUME [Next]_vars
    PROVE  p11Receipts \subseteq p11Receipts'
<1> USE DEF outsideVars
<1>1. CASE \/ UNCHANGED vars
           \/ Tick \/ IssueReset \/ \E r \in Requests : Revoke(r) \/ Mutate(r) \/ OrphanEnds(r)
  BY <1>1 DEF vars, Tick, IssueReset, Revoke, Mutate, OrphanEnds
<1>2. ASSUME NEW q \in Procs,
             \/ Open(q) \/ RecoverAnchor(q) \/ ApplyReset(q)
             \/ \E r \in Requests : Claim(q, r) \/ ClaimRefused(q, r)
      PROVE  UNCHANGED p11Receipts
  BY <1>2 DEF Open, RecoverAnchor, ApplyReset, Claim, ClaimRefused
<1>3. ASSUME NEW q \in Procs, Fails(q)
      PROVE  UNCHANGED p11Receipts
  BY <1>3 DEF Fails, AuthorityFails, TransactionFails, FailsBeforeClaim, FailsAfterClaim, Crash,
     Close, Fork
<1>4. ASSUME NEW q \in Procs,
             \/ Redeem(q) \/ CheckBoundary(q) \/ RecordIntent(q) \/ Launch(q)
             \/ ProviderReturns(q) \/ ProviderEscapes(q) \/ CloseUncertain(q)
      PROVE  UNCHANGED p11Receipts
  BY <1>4 DEF Redeem, CheckBoundary, RecordIntent, Raise, Launch, ProviderReturns,
     ProviderEscapes, CloseUncertain
<1>5. ASSUME NEW q \in Procs,
             \/ RecordAttempt(q) \/ RecordReceipt(q) \/ JudgeProvider(q) \/ RecordProbeIntent(q)
             \/ ProbeReturns(q) \/ ProbeFails(q)
             \/ CommitSuccess(q) \/ CommitNonSuccess(q) \/ CommitUnknown(q)
      PROVE  UNCHANGED p11Receipts
  BY <1>5 DEF RecordAttempt, RecordReceipt, Raise, JudgeProvider, RecordProbeIntent, ProbeReturns,
     ProbeFails, CommitSuccess, CommitNonSuccess, CommitUnknown, CommitResult
<1>6. ASSUME NEW q \in Procs, SignActionReceipt(q)
      PROVE  p11Receipts \subseteq p11Receipts'
  BY <1>6 DEF SignActionReceipt
<1> QED
  BY <1>1, <1>2, <1>3, <1>4, <1>5, <1>6 DEF Next, Execute

\* p notes a fact of r; an attempt only after the call returned, a receipt only
\* when it is verified at the trusted time the same transaction records.
Notes(p, r) ==
    /\ cur[p] = r /\ state[r] \in InFlight
    /\ journal[r] \subseteq journal'[r]
    /\ "attempt" \in journal'[r] => "attempt" \in journal[r] \/ pc[p] = "returned"
    /\ "receipt" \in journal'[r] =>
          \/ "receipt" \in journal[r]
          \/ receipt[r].completed <= trustedAt' /\ receipt[r].completed < token[r].expires
    /\ UNCHANGED providerVars

\* The journal and the token of a request that has a row change in no other way.
JournalStep(r) ==
    /\ state[r] # "absent" => token'[r] = token[r]
    /\ journal'[r] = journal[r] \/ \E p \in Procs : Notes(p, r)

\* Only the four recording transactions of the row's own phases write the journal.
LEMMA JournalSteps ==
    ASSUME TypeOK, [Next]_vars, NEW r \in Requests
    PROVE  JournalStep(r)
<1> USE DEF TypeOK, RowsOK
<1>1. ASSUME UNCHANGED <<token, journal>> PROVE JournalStep(r)
  BY <1>1 DEF JournalStep
<1>2. CASE Aside \/ UNCHANGED vars
  BY <1>1, <1>2, AsideKeepsRows DEF rowVars, vars
<1>3. ASSUME NEW p \in Procs,
             \/ ApplyReset(p) \/ AuthorityFails(p) \/ Open(p)
             \/ \E cause \in {"clock", "roots"} : FailsBeforeClaim(p, cause)
      PROVE  JournalStep(r)
  BY <1>1, <1>3, FailureStops DEF ApplyReset, Open, Recover, rowVars
<1>4. ASSUME NEW p \in Procs, NEW q \in Requests, Claim(p, q) PROVE JournalStep(r)
  <2>1. UNCHANGED journal /\ state[q] = "absent" /\ \E t : token' = [token EXCEPT ![q] = t]
    BY <1>4 DEF Claim, ClaimRow, CanClaim
  <2> QED
    BY <2>1 DEF JournalStep
<1>5. ASSUME NEW p \in Procs, Redeem(p) \/ CloseUncertain(p) PROVE JournalStep(r)
  BY <1>1, <1>5 DEF Redeem, RedeemOwned, CloseUncertain, Conclude, rowVars
<1>6. ASSUME NEW p \in Procs, CommitSuccess(p) \/ CommitNonSuccess(p) \/ CommitUnknown(p)
      PROVE  JournalStep(r)
  BY <1>1, <1>6 DEF CommitSuccess, CommitNonSuccess, CommitUnknown, CommitResult, Conclude, rowVars
<1>7. ASSUME NEW p \in Procs, Raise(p) PROVE JournalStep(r)
  BY <1>1, <1>7 DEF Raise, rowVars
<1>8. ASSUME NEW p \in Procs, NEW q \in Requests, q = cur[p], state[q] \in InFlight,
             NEW fact, UNCHANGED <<token, providerVars>>,
             journal' = [journal EXCEPT ![q] = @ \cup {fact}],
             fact = "attempt" => pc[p] = "returned", fact # "receipt"
      PROVE  JournalStep(r)
  <2>1. CASE q # r
    BY <1>8, <2>1 DEF JournalStep
  <2>2. CASE q = r
    <3>1. journal'[r] = journal[r] \cup {fact}
      BY <1>8, <2>2
    <3>2. Notes(p, r)
      BY <1>8, <2>2, <3>1 DEF Notes
    <3> QED
      BY <1>8, <3>2 DEF JournalStep
  <2> QED
    BY <2>1, <2>2
<1>9. ASSUME NEW p \in Procs, RecordIntent(p) PROVE JournalStep(r)
  <2>1. PICK q \in Requests : q = cur[p]
    BY <1>9 DEF RecordIntent, ProcessesOK
  <2>2. ASSUME NEW at \in Attested, NEW ending, CanInvoke(p, q, at),
               Note(p, q, "intent", ending, "intent"), UNCHANGED providerVars
        PROVE  JournalStep(r)
    <3>1. /\ UNCHANGED <<token, providerVars>> /\ state[q] \in InFlight
          /\ journal' = [journal EXCEPT ![q] = @ \cup {"intent"}]
      BY <2>2 DEF CanInvoke, InFlight, Note
    <3> QED
      BY <1>8, <2>1, <3>1
  <2> QED
    BY <1>7, <1>9, <2>1, <2>2 DEF RecordIntent
<1>10. ASSUME NEW p \in Procs, RecordAttempt(p) PROVE JournalStep(r)
  <2>1. PICK q \in Requests : q = cur[p]
    BY <1>10 DEF RecordAttempt, ProcessesOK
  <2> QED
    BY <1>8, <1>10, <2>1 DEF RecordAttempt, CanRecordAttempt, InFlight, Note
<1>11. ASSUME NEW p \in Procs, RecordReceipt(p) PROVE JournalStep(r)
  <2>1. PICK q \in Requests : q = cur[p]
    BY <1>11 DEF RecordReceipt, ProcessesOK
  <2>2. ASSUME NEW at \in Attested, NEW ending, CanRecordReceipt(q, at), trustedAt' = at,
               Note(p, q, "receipt", ending, "recorded"), UNCHANGED providerVars
        PROVE  JournalStep(r)
    <3>1. UNCHANGED token /\ journal' = [journal EXCEPT ![q] = @ \cup {"receipt"}]
      BY <2>2 DEF Note
    <3>2. CASE q # r
      BY <3>1, <3>2 DEF JournalStep
    <3>3. CASE q = r
      <4>1. /\ receipt[r].completed <= trustedAt' /\ receipt[r].completed < token[r].expires
            /\ state[r] \in InFlight
        BY <2>2, <3>3 DEF CanRecordReceipt, VerifiesProvider, InFlight
      <4>2. journal'[r] = journal[r] \cup {"receipt"}
        BY <3>1, <3>3
      <4>3. Notes(p, r)
        BY <2>1, <2>2, <3>3, <4>1, <4>2 DEF Notes
      <4> QED
        BY <3>1, <4>3 DEF JournalStep
    <3> QED
      BY <3>2, <3>3
  <2> QED
    BY <1>7, <1>11, <2>1, <2>2 DEF RecordReceipt
<1>12. ASSUME NEW p \in Procs, RecordProbeIntent(p) PROVE JournalStep(r)
  <2>1. PICK q \in Requests : q = cur[p]
    BY <1>12 DEF RecordProbeIntent, ProcessesOK
  <2>2. ASSUME NEW at \in Attested, NEW ending, CanProbe(p, q, at),
               Note(p, q, "probe", ending, "probing"), UNCHANGED providerVars
        PROVE  JournalStep(r)
    <3>1. /\ UNCHANGED <<token, providerVars>> /\ state[q] \in InFlight
          /\ journal' = [journal EXCEPT ![q] = @ \cup {"probe"}]
      BY <2>2 DEF CanProbe, InFlight, Note
    <3> QED
      BY <1>8, <2>1, <3>1
  <2> QED
    BY <1>1, <1>12, <2>1, <2>2 DEF RecordProbeIntent
<1> QED
  BY <1>2, <1>3, <1>4, <1>5, <1>6, <1>9, <1>10, <1>11, <1>12, NextCases

\* The last trusted time only grows (_trusted_now()).
LEMMA TrustGrows ==
    ASSUME TypeOK, [Next]_vars
    PROVE  trustedAt <= trustedAt'
<1> USE DEF TypeOK
<1>1. ASSUME trustedAt' = trustedAt \/ trustedAt' \in Attested
      PROVE  trustedAt <= trustedAt'
  BY <1>1, PolicyAssumption DEF Attested, MetaOK, Time
<1>2. CASE \/ UNCHANGED vars
           \/ Tick \/ IssueReset \/ \E r \in Requests : Revoke(r) \/ Mutate(r) \/ OrphanEnds(r)
  BY <1>1, <1>2 DEF vars, metaVars, Tick, IssueReset, Revoke, Mutate, OrphanEnds
<1>3. ASSUME NEW q \in Procs,
             \/ Open(q) \/ RecoverAnchor(q) \/ ApplyReset(q)
             \/ \E r \in Requests : Claim(q, r) \/ ClaimRefused(q, r)
      PROVE  trustedAt <= trustedAt'
  BY <1>1, <1>3 DEF Open, Recover, RecoverAnchor, ApplyReset, Claim, ClaimRow, ClaimRefused,
     metaVars
<1>4. ASSUME NEW q \in Procs, Fails(q)
      PROVE  trustedAt <= trustedAt'
  BY <1>1, <1>4 DEF Fails, AuthorityFails, TransactionFails, FailsBeforeClaim, FailsAfterClaim,
     Crash, Close, Fork, metaVars
<1>5. ASSUME NEW q \in Procs,
             \/ Redeem(q) \/ CheckBoundary(q) \/ RecordIntent(q) \/ Launch(q)
             \/ ProviderReturns(q) \/ ProviderEscapes(q) \/ CloseUncertain(q)
      PROVE  trustedAt <= trustedAt'
  BY <1>1, <1>5 DEF Redeem, RedeemOwned, CheckBoundary, RecordIntent, Raise, Launch,
     ProviderReturns, ProviderEscapes, CloseUncertain, metaVars
<1>6. ASSUME NEW q \in Procs,
             \/ RecordAttempt(q) \/ RecordReceipt(q) \/ JudgeProvider(q) \/ RecordProbeIntent(q)
             \/ ProbeReturns(q) \/ ProbeFails(q) \/ SignActionReceipt(q)
      PROVE  trustedAt <= trustedAt'
  BY <1>1, <1>6 DEF RecordAttempt, RecordReceipt, Raise, JudgeProvider, RecordProbeIntent,
     ProbeReturns, ProbeFails, SignActionReceipt, metaVars
<1>7. ASSUME NEW q \in Procs, CommitSuccess(q) \/ CommitNonSuccess(q) \/ CommitUnknown(q)
      PROVE  trustedAt <= trustedAt'
  BY <1>1, <1>7 DEF CommitSuccess, CommitNonSuccess, CommitUnknown, CommitResult, metaVars
<1> QED
  BY <1>2, <1>3, <1>4, <1>5, <1>6, <1>7 DEF Next, Execute

-----------------------------------------------------------------------------
(* One launch, noted before it happens and before anything is said of it *)

\* A launch, a child, a mutation and an attempt all follow a noted intent.
LaunchesAreNoted ==
    \A r \in Requests :
        /\ launches[r] \in {0, 1}
        /\ launches[r] = 1 => "intent" \in journal[r]
        /\ child[r] # "none" \/ r \in mutated \/ "attempt" \in journal[r] => launches[r] = 1

\* Where the process is around the call tells whether the child was started.
PhaseLaunches ==
    \A p \in Procs :
        /\ pc[p] = "intent" => launches[cur[p]] = 0
        /\ pc[p] \in {"running", "returned"} => launches[cur[p]] = 1

\* A receipt of success is a receipt of a mutation.
ReceiptsAreTrue == \A r \in Requests : receipt[r].outcome = "succeeded" => r \in mutated

LaunchInv == LaunchesAreNoted /\ PhaseLaunches /\ ReceiptsAreTrue

ProcessInvariant ==
    /\ LockedOwns /\ WorkIsClaimed /\ OwnerHasWork /\ RunningUnderAuthority
    /\ KeysDiffer /\ LaunchInv /\ ReceiptChronology /\ SuccessIsProven

\* How often each request was launched changes in Launch(p) alone, under the lock.
LEMMA LaunchSteps ==
    ASSUME TypeOK, PhaseLaunches, [Next]_vars, launches' # launches
    PROVE  \E p \in Procs : /\ Launch(p) /\ MayLaunch(p, cur[p]) /\ pc'[p] = "running"
                            /\ launches[cur[p]] = 0
                            /\ launches' = [launches EXCEPT ![cur[p]] = 1]
                            /\ UNCHANGED <<rowVars, mutated, receipt>>
<1> USE DEF TypeOK
<1>1. PICK p \in Procs : Launch(p)
  BY ProviderSteps DEF providerVars, ProviderReturns, ProviderEscapes, Mutate, OrphanEnds
<1>2. MayLaunch(p, cur[p]) /\ Go(p, "running") /\ launches' = [launches EXCEPT ![cur[p]] = @ + 1]
  BY <1>1 DEF Launch
<1>3. launches[cur[p]] = 0 /\ cur[p] \in Requests
  BY <1>1 DEF Launch, PhaseLaunches, ProcessesOK
<1>4. pc'[p] = "running"
  BY <1>2, GoAlone
<1>5. launches' = [launches EXCEPT ![cur[p]] = 1]
  BY <1>2, <1>3
<1>6. UNCHANGED <<rowVars, mutated, receipt>>
  BY <1>1 DEF Launch
<1> QED
  BY <1>1, <1>2, <1>3, <1>4, <1>5, <1>6

\* Each launch finds its intent noted, and each outside fact finds its launch.
LEMMA LaunchesStep ==
    ASSUME TypeOK, StoreInvariant, LaunchesAreNoted, PhaseLaunches, [Next]_vars
    PROVE  LaunchesAreNoted'
<1> USE DEF TypeOK, OutsideOK, RowsOK
<1> SUFFICES ASSUME NEW r \in Requests
             PROVE  (/\ launches[r] \in {0, 1}
                     /\ launches[r] = 1 => "intent" \in journal[r]
                     /\ child[r] # "none" \/ r \in mutated \/ "attempt" \in journal[r] =>
                            launches[r] = 1)'
  BY DEF LaunchesAreNoted
<1>1. JournalStep(r) /\ journal[r] \subseteq journal'[r]
  BY JournalSteps DEF JournalStep, Notes
<1>2. CASE launches' # launches
  <2>1. PICK p \in Procs : /\ MayLaunch(p, cur[p]) /\ launches[cur[p]] = 0 /\ Launch(p)
                           /\ launches' = [launches EXCEPT ![cur[p]] = 1]
                           /\ UNCHANGED <<rowVars, mutated, receipt>>
    BY <1>2, LaunchSteps
  <2>2. journal' = journal /\ cur[p] \in Requests
    BY <2>1 DEF rowVars, Launch, ProcessesOK
  <2>3. CASE r = cur[p]
    <3>1. journal[r] = {"intent"}
      BY <2>1, <2>3 DEF MayLaunch
    <3> QED
      BY <2>1, <2>2, <2>3, <3>1
  <2>4. CASE r # cur[p]
    <3>1. launches'[r] = launches[r] /\ child'[r] = child[r] /\ mutated' = mutated
      BY <2>1, <2>4 DEF Launch
    <3> QED
      BY <2>2, <3>1 DEF LaunchesAreNoted
  <2> QED
    BY <2>3, <2>4
<1>3. CASE launches' = launches
  <2>1. launches'[r] \in {0, 1} /\ (launches'[r] = 1 => "intent" \in journal'[r])
    BY <1>1, <1>3 DEF LaunchesAreNoted
  <2>2. ASSUME "attempt" \in journal'[r] PROVE launches'[r] = 1
    BY <1>1, <1>3, <2>2 DEF LaunchesAreNoted, PhaseLaunches, JournalStep, Notes
  <2>3. child'[r] # "none" \/ r \in mutated' => launches[r] = 1
    <3>1. CASE UNCHANGED providerVars
      BY <3>1 DEF providerVars, LaunchesAreNoted
    <3>2. ASSUME NEW q \in Requests, Mutate(q) \/ OrphanEnds(q)
          PROVE  child'[r] # "none" \/ r \in mutated' => launches[r] = 1
      BY <3>2 DEF Mutate, OrphanEnds, LaunchesAreNoted
    <3>3. ASSUME NEW p \in Procs, ProviderReturns(p) \/ ProviderEscapes(p)
          PROVE  child'[r] # "none" \/ r \in mutated' => launches[r] = 1
      <4>1. /\ child' = [child EXCEPT ![cur[p]] = "ended"] /\ UNCHANGED mutated
            /\ launches[cur[p]] = 1
        BY <3>3 DEF ProviderReturns, ProviderEscapes, PhaseLaunches
      <4> QED
        BY <4>1 DEF LaunchesAreNoted
    <3>4. ASSUME NEW p \in Procs, Launch(p)
          PROVE  child'[r] # "none" \/ r \in mutated' => launches[r] = 1
      <4>1. cur[p] \in Requests
        BY <3>4 DEF Launch, ProcessesOK
      <4>2. launches[cur[p]] \in Nat
        BY <4>1
      <4>3. UNCHANGED child
        BY <1>3, <3>4, <4>1, <4>2 DEF Launch
      <4> QED
        BY <3>4, <4>3 DEF Launch, LaunchesAreNoted
    <3> QED
      BY <3>1, <3>2, <3>3, <3>4, ProviderSteps
  <2> QED
    BY <1>3, <2>1, <2>2, <2>3
<1> QED
  BY <1>2, <1>3

\* The lock's holder sees the launch count change in its own steps only.
LEMMA PhasesStep ==
    ASSUME TypeOK, LockedOwns, LaunchesAreNoted, PhaseLaunches, [Next]_vars
    PROVE  PhaseLaunches'
<1> USE DEF TypeOK
<1> SUFFICES ASSUME NEW p \in Procs, pc'[p] \in {"intent", "running", "returned"}
             PROVE  launches'[cur'[p]] = IF pc'[p] = "intent" THEN 0 ELSE 1
  BY DEF PhaseLaunches
<1>1. CASE pc'[p] = pc[p]
  <2>1. cur'[p] = cur[p]
    BY <1>1, WorkComesFromClaim DEF Claim
  <2>2. ASSUME launches' # launches PROVE FALSE
    <3>1. PICK q \in Procs : Launch(q) /\ pc'[q] = "running"
      BY <2>2, LaunchSteps
    <3>2. pc[q] = "intent"
      BY <3>1 DEF Launch
    <3>3. q = p
      BY <1>1, <3>2, OneLocked, Unlocked
    <3> QED
      BY <1>1, <3>1, <3>2, <3>3
  <2> QED
    BY <1>1, <2>1, <2>2 DEF PhaseLaunches
<1>2. CASE pc'[p] # pc[p] /\ pc'[p] = "intent"
  <2>1. PICK at \in Attested : RecordIntent(p) /\ CanInvoke(p, cur[p], at)
    BY <1>2, ProviderPhases
  <2>2. cur[p] \in Requests /\ journal[cur[p]] = {} /\ UNCHANGED launches
    BY <2>1 DEF RecordIntent, CanInvoke, Raise, providerVars, ProcessesOK
  <2>3. cur'[p] = cur[p]
    BY <1>2, <2>1, WorkComesFromClaim DEF RecordIntent, Claim
  <2> QED
    BY <1>2, <2>2, <2>3 DEF LaunchesAreNoted
<1>3. CASE pc'[p] # pc[p] /\ pc'[p] = "running"
  <2>1. Launch(p) /\ MayLaunch(p, cur[p])
    BY <1>3, ProviderPhases
  <2>2. cur'[p] = cur[p] /\ cur[p] \in Requests
    BY <1>3, <2>1, WorkComesFromClaim DEF Launch, Claim, ProcessesOK
  <2>3. launches[cur[p]] = 0
    BY <2>1 DEF Launch, PhaseLaunches
  <2>4. launches' = [launches EXCEPT ![cur[p]] = @ + 1]
    BY <1>3, <2>1, GoAlone DEF Launch
  <2> QED
    BY <1>3, <2>2, <2>3, <2>4 DEF OutsideOK
<1>4. CASE pc'[p] # pc[p] /\ pc'[p] = "returned"
  <2>1. ProviderReturns(p)
    BY <1>4, ProviderPhases
  <2>2. cur'[p] = cur[p]
    BY <1>4, <2>1, WorkComesFromClaim DEF ProviderReturns, Claim
  <2> QED
    BY <1>4, <2>1, <2>2 DEF ProviderReturns, PhaseLaunches
<1> QED
  BY <1>1, <1>2, <1>3, <1>4

\* The stored receipt of a request changes when its call returns, and only then.
LEMMA ReceiptSteps ==
    ASSUME TypeOK, [Next]_vars, NEW r \in Requests, receipt'[r] # receipt[r]
    PROVE  \E p \in Procs : ProviderReturns(p) /\ cur[p] = r
<1>1. PICK p \in Procs : ProviderReturns(p)
  BY ProviderSteps DEF providerVars, Launch, ProviderEscapes, Mutate, OrphanEnds
<1>2. receipt'[r] = receipt[r] \/ cur[p] = r
  BY <1>1 DEF ProviderReturns, TypeOK, OutsideOK
<1> QED
  BY <1>1, <1>2

\* What was mutated stays mutated; the model knows no compensation.
LEMMA MutationsStay ==
    ASSUME [Next]_vars PROVE mutated \subseteq mutated'
BY ProviderSteps DEF providerVars, Launch, ProviderReturns, ProviderEscapes, Mutate, OrphanEnds

\* An authentic receipt reports success after the mutation only.
LEMMA TrueReceiptsStep ==
    ASSUME TypeOK, ReceiptsAreTrue, [Next]_vars
    PROVE  ReceiptsAreTrue'
<1> SUFFICES ASSUME NEW r \in Requests, receipt'[r].outcome = "succeeded" PROVE r \in mutated'
  BY DEF ReceiptsAreTrue
<1>1. CASE receipt'[r] = receipt[r]
  BY <1>1, MutationsStay DEF ReceiptsAreTrue
<1>2. ASSUME NEW p \in Procs, ProviderReturns(p), cur[p] = r
      PROVE  r \in mutated
  <2>1. PICK outcome \in ProviderOutcomes :
           /\ outcome = "succeeded" => r \in mutated
           /\ receipt' = [receipt EXCEPT ![r] = [outcome |-> outcome, completed |-> now]]
    BY <1>2 DEF ProviderReturns
  <2>2. receipt'[r].outcome = outcome
    BY <2>1 DEF TypeOK, OutsideOK
  <2> QED
    BY <2>1, <2>2
<1> QED
  BY <1>1, <1>2, ReceiptSteps, MutationsStay

-----------------------------------------------------------------------------
(* Verified receipts and proven successes *)

\* A receipt is not rewritten once it is journaled: the call that could do so runs in an
\* earlier phase of the row.
LEMMA ChronologyStep ==
    ASSUME TypeOK, StoreInvariant, RunningUnderAuthority, ReceiptChronology, [Next]_vars
    PROVE  ReceiptChronology'
<1> USE DEF TypeOK
<1> SUFFICES ASSUME NEW r \in Requests, "receipt" \in journal'[r]
             PROVE  /\ receipt'[r].completed <= trustedAt'
                    /\ receipt'[r].completed < token'[r].expires
  BY DEF ReceiptChronology
<1>1. trustedAt <= trustedAt' /\ trustedAt \in Nat /\ trustedAt' \in Nat
  BY TrustGrows, TypeNext, PolicyAssumption DEF MetaOK, Time
<1>2. receipt[r].completed \in Nat
  BY PolicyAssumption DEF OutsideOK, Receipts, Time
<1>3. JournalStep(r)
  BY JournalSteps
<1>4. CASE "receipt" \in journal[r]
  <2>1. state[r] # "absent" /\ state[r] # "dispatched"
    BY <1>4 DEF StoreInvariant, JournalShape
  <2>2. receipt'[r] = receipt[r]
    BY <2>1, ReceiptSteps DEF ProviderReturns, RunningUnderAuthority
  <2>3. token'[r] = token[r]
    BY <1>3, <2>1 DEF JournalStep
  <2> QED
    BY <1>1, <1>2, <1>4, <2>2, <2>3 DEF ReceiptChronology
<1>5. CASE "receipt" \notin journal[r]
  <2>1. PICK p \in Procs : Notes(p, r)
    BY <1>3, <1>5 DEF JournalStep
  <2>2. /\ receipt[r].completed <= trustedAt' /\ receipt[r].completed < token[r].expires
        /\ state[r] # "absent" /\ UNCHANGED receipt
    BY <1>5, <2>1, InFlightStates DEF Notes, providerVars
  <2> QED
    BY <1>3, <2>2 DEF JournalStep
<1> QED
  BY <1>4, <1>5

\* commit_result() finds the fence five revisions on, which proves the probe noted and
\* with it every earlier fact; afterwards nothing launches or returns for that row.
LEMMA ProvenStep ==
    ASSUME TypeOK, StoreInvariant, LockedOwns, RunningUnderAuthority, LaunchInv, SuccessIsProven,
           [Next]_vars
    PROVE  SuccessIsProven'
<1> USE DEF TypeOK
<1> SUFFICES ASSUME NEW r \in Requests, state'[r] = "succeeded"
             PROVE  (/\ launches[r] = 1 /\ r \in mutated
                     /\ receipt[r].outcome = "succeeded"
                     /\ journal[r] = Facts /\ r \in p11Receipts)'
  BY DEF SuccessIsProven
<1>1. CASE state[r] = "succeeded"
  <2>1. journal'[r] = journal[r]
    BY <1>1, FinalNext DEF Final, Terminal
  <2>2. receipt'[r] = receipt[r]
    BY <1>1, ReceiptSteps DEF ProviderReturns, RunningUnderAuthority
  <2>3. launches'[r] = launches[r]
    <3>1. CASE launches' = launches
      BY <3>1
    <3>2. ASSUME NEW p \in Procs, MayLaunch(p, cur[p]), launches' = [launches EXCEPT ![cur[p]] = 1]
          PROVE  launches'[r] = launches[r]
      BY <1>1, <3>2 DEF MayLaunch, OutsideOK
    <3> QED
      BY <3>1, <3>2, LaunchSteps DEF LaunchInv
  <2> QED
    BY <1>1, <2>1, <2>2, <2>3, MutationsStay, ActionReceiptsStay DEF SuccessIsProven
<1>2. CASE state[r] # "succeeded"
  <2>1. PICK p \in Procs : Ends(p, r)
    BY <1>2, RowSteps, InFlightStates DEF RowStep, InFlight
  <2>2. PICK at \in Attested : CanCommit(p, r, "succeeded", at)
    BY <2>1 DEF Ends
  <2>3. UNCHANGED <<journal, providerVars, p11Receipts>>
    BY <2>1 DEF Ends
  <2>4. /\ state[r] = "provider_recorded" /\ token[r].epoch = epoch
        /\ revision = token[r].fence + 5
    <3>1. token[r].fence \in Nat
      BY DEF RowsOK, Tokens
    <3> QED
      BY <2>2, <3>1 DEF CanCommit, AuthorityFailureStop, AllowedRevisions, PhaseOffset
  <2>5. receipt[r].outcome = "succeeded" /\ r \in p11Receipts
    BY <2>2 DEF CanCommit, VerifiesTerminal
  <2>6. "probe" \in journal[r]
    <3>1. token[r].fence \in Nat
      BY DEF RowsOK, Tokens
    <3>2. revision = token[r].fence + 4 + (IF "probe" \in journal[r] THEN 1 ELSE 0)
      BY <2>4 DEF StoreInvariant, PhaseFence, InFlight, PhaseOffset
    <3> QED
      BY <2>4, <3>1, <3>2
  <2>7. journal[r] = Facts
    BY <2>4, <2>6 DEF StoreInvariant, JournalShape
  <2>8. launches[r] = 1 /\ r \in mutated
    BY <2>5, <2>7 DEF LaunchInv, LaunchesAreNoted, ReceiptsAreTrue, Facts
  <2> QED
    BY <2>3, <2>5, <2>7, <2>8 DEF providerVars
<1> QED
  BY <1>1, <1>2

-----------------------------------------------------------------------------
(* Theorems *)

\* An empty store has no process at work and nothing outside (create()).
LEMMA ProcessInit == Init => ProcessInvariant
<1> SUFFICES ASSUME Init PROVE ProcessInvariant
  OBVIOUS
<1>1. LockedOwns /\ WorkIsClaimed /\ OwnerHasWork /\ RunningUnderAuthority /\ KeysDiffer
  BY DEF Init, LockedOwns, WorkIsClaimed, OwnerHasWork, RunningUnderAuthority, KeysDiffer, Locked
<1>2. LaunchInv
  BY DEF Init, LaunchInv, LaunchesAreNoted, PhaseLaunches, ReceiptsAreTrue, NoReceipt
<1>3. ReceiptChronology /\ SuccessIsProven
  BY DEF Init, ReceiptChronology, SuccessIsProven
<1> QED
  BY <1>1, <1>2, <1>3 DEF ProcessInvariant

\* Every step keeps every part.
LEMMA ProcessNext ==
    TypeOK /\ StoreInvariant /\ ProcessInvariant /\ [Next]_vars => ProcessInvariant'
BY LockStep, WorkStep, OwnerStep, RunningStep, KeysStep, LaunchesStep, PhasesStep,
   TrueReceiptsStep, ChronologyStep, ProvenStep DEF ProcessInvariant, LaunchInv

\* What the processes and the outside keep true, whatever fails or interleaves: the
\* invariant from which the theorems below are read off.
THEOREM ProcessesCorrect == Spec => []ProcessInvariant
BY TypeCorrect, StoreCorrect, ProcessInit, ProcessNext, PTL DEF Spec

\* What the invariant says of ownership, authority and proof.
LEMMA ProcessParts ==
    StoreInvariant /\ ProcessInvariant =>
        OneOwnedInflight /\ RunningUnderAuthority /\ ReceiptChronology /\ SuccessIsProven
BY DEF StoreInvariant, ProcessInvariant, OneOwnedInflight, OwnerHasWork

\* What it says of launches: a row not yet dispatched has none, and one of two requests
\* with the same key has no row.
LEMMA LaunchParts ==
    TypeOK /\ StoreInvariant /\ ProcessInvariant => AtMostOneLaunch /\ MutationHasIntent
<1> SUFFICES ASSUME TypeOK, StoreInvariant, ProcessInvariant
             PROVE  AtMostOneLaunch /\ MutationHasIntent
  OBVIOUS
<1>1. \A r \in Requests : state[r] \in {"absent", "claimed"} => launches[r] = 0
  BY DEF StoreInvariant, JournalShape, ProcessInvariant, LaunchInv, LaunchesAreNoted
<1>2. AtMostOneLaunch
  BY <1>1 DEF AtMostOneLaunch, ProcessInvariant, KeysDiffer, LaunchInv, LaunchesAreNoted
<1>3. MutationHasIntent
  BY <1>1 DEF MutationHasIntent, ProcessInvariant, LaunchInv, LaunchesAreNoted
<1> QED
  BY <1>2, <1>3

\* One row is in flight at most, and an owner lock always belongs to an open store
\* with a row in flight.
THEOREM OneOwnedInflightCorrect == Spec => []OneOwnedInflight
BY StoreCorrect, ProcessesCorrect, ProcessParts, PTL

\* While a provider child runs under a live parent, no STOP, no new epoch, no
\* revocation and no loss of the owner lock can reach it.
THEOREM RunningUnderAuthorityCorrect == Spec => []RunningUnderAuthority
BY StoreCorrect, ProcessesCorrect, ProcessParts, PTL

\* One provider child at most for an idempotency key, whatever crashes, replays or
\* competing processes there were.
THEOREM AtMostOneLaunchCorrect == Spec => []AtMostOneLaunch
BY TypeCorrect, StoreCorrect, ProcessesCorrect, LaunchParts, PTL

\* Nothing happens outside before its intent is durable.
THEOREM MutationHasIntentCorrect == Spec => []MutationHasIntent
BY TypeCorrect, StoreCorrect, ProcessesCorrect, LaunchParts, PTL

\* A journaled receipt is neither from the future nor later than its token.
THEOREM ReceiptChronologyCorrect == Spec => []ReceiptChronology
BY StoreCorrect, ProcessesCorrect, ProcessParts, PTL

\* A stored success has its one launch, its mutation, its four journaled facts and
\* its P11 action receipt.
THEOREM SuccessIsProvenCorrect == Spec => []SuccessIsProven
BY StoreCorrect, ProcessesCorrect, ProcessParts, PTL

\* A row whose owner lives is ended by a step of that owner, which was at it.
THEOREM OnlyOwnerEndsRowCorrect == Spec => OnlyOwnerEndsRow
<1>1. TypeOK /\ ProcessInvariant /\ [Next]_vars =>
         [\A r \in Requests :
             state[r] \in InFlight /\ state'[r] \in Terminal /\ owner # None =>
                 cur[owner] = r /\ pc'[owner] # pc[owner]]_vars
  BY RowSteps, InFlightStates DEF ProcessInvariant, RowStep, Ends
<1> QED
  BY <1>1, TypeCorrect, ProcessesCorrect, PTL DEF Spec, OnlyOwnerEndsRow

\* A Human reset that clears STOP finds no row in flight, and whoever is still
\* inside execute() holds a request that is over.
THEOREM ResetFindsNothingPendingCorrect == Spec => ResetFindsNothingPending
<1>1. ASSUME TypeOK, ProcessInvariant, [Next]_vars, stopped, ~stopped'
      PROVE  /\ epoch' = epoch + 1
             /\ \A r \in Requests : state[r] \notin InFlight
             /\ \A p \in Procs : pc[p] # "idle" => state[cur[p]] \in Terminal
  <2>1. epoch' = epoch + 1 /\ ~HasInflight
    BY <1>1, OnlyResetClears
  <2>2. \A r \in Requests : state[r] \notin InFlight
    BY <2>1 DEF HasInflight
  <2>3. \A p \in Procs : pc[p] # "idle" => state[cur[p]] \in Terminal
    BY <1>1, <2>2, InFlightStates DEF ProcessInvariant, WorkIsClaimed, TypeOK, ProcessesOK, RowsOK
  <2> QED
    BY <2>1, <2>2, <2>3
<1>2. TypeOK /\ ProcessInvariant /\ [Next]_vars =>
         [stopped /\ ~stopped' =>
             /\ epoch' = epoch + 1
             /\ \A r \in Requests : state[r] \notin InFlight
             /\ \A p \in Procs : pc[p] # "idle" => state[cur[p]] \in Terminal]_vars
  BY <1>1
<1> QED
  BY <1>2, TypeCorrect, ProcessesCorrect, PTL DEF Spec, ResetFindsNothingPending
=============================================================================
