----------------------- MODULE GlobalStopStoreProofs -----------------------
(***************************************************************************)
(* What the durable store of GlobalStop keeps true, for every set of       *)
(* processes and requests, every policy and every number of incidents: the *)
(* types of its variables, then the invariant that ties epochs, fences,    *)
(* journals and row states together, and the implementation of             *)
(* StopContract.                                                           *)
(***************************************************************************)
EXTENDS GlobalStop, TLAPS

-----------------------------------------------------------------------------
(* The shared parts of the transactions *)

LEMMA AttestedTime == ASSUME NEW at \in Attested PROVE at \in Time /\ at \in Nat
BY PolicyAssumption DEF Attested, Time

LEMMA ObservedTime == ASSUME NEW p, NEW obs \in Observed(p) PROVE obs \in Time
BY DEF Observed

\* An observation keeps the type of lastObs.
LEMMA ObserveType ==
    ASSUME ProcessesOK, NEW p \in Procs, Observe(p) \/ UNCHANGED lastObs
    PROVE  lastObs' \in [Procs -> Time]
<1>1. CASE Observe(p)
  <2>1. PICK obs \in Observed(p) : lastObs' = [lastObs EXCEPT ![p] = obs]
    BY <1>1 DEF Observe
  <2>2. QED BY <2>1, ObservedTime DEF ProcessesOK
<1>2. CASE UNCHANGED lastObs BY <1>2 DEF ProcessesOK
<1>3. QED BY <1>1, <1>2

LEMMA AdvanceType ==
    ASSUME MetaOK, NEW ending, Advance(ending)
    PROVE  revision' \in Nat /\ anchor' \in Nat
BY DEF Advance, MetaOK

LEMMA StopType ==
    ASSUME MetaOK, Stop PROVE stopped' \in BOOLEAN /\ epoch' \in Nat
BY DEF Stop, MetaOK

LEMMA GoType ==
    ASSUME ProcessesOK, NEW p \in Procs, NEW phase \in Phases,
           pc[p] # "idle" \/ phase = "idle",
           Go(p, phase)
    PROVE  /\ pc' \in [Procs -> Phases]
           /\ cur' \in [Procs -> Requests \cup {None}]
           /\ \A q \in Procs : pc'[q] # "idle" => cur'[q] \in Requests
BY DEF ProcessesOK, Go

LEMMA AfterRaiseType ==
    ASSUME ProcessesOK, NEW p \in Procs, Go(p, AfterRaise(p))
    PROVE  /\ pc' \in [Procs -> Phases]
           /\ cur' \in [Procs -> Requests \cup {None}]
           /\ \A q \in Procs : pc'[q] # "idle" => cur'[q] \in Requests
<1>1. AfterRaise(p) \in Phases BY DEF AfterRaise, Phases
<1>2. pc[p] # "idle" \/ AfterRaise(p) = "idle" BY DEF AfterRaise
<1>3. QED BY <1>1, <1>2, GoType

LEMMA ProceedType ==
    ASSUME ProcessesOK, NEW p \in Procs, NEW phase \in Phases, NEW ending,
           pc[p] # "idle" \/ phase = "idle",
           Proceed(p, ending, phase)
    PROVE  /\ pc' \in [Procs -> Phases]
           /\ cur' \in [Procs -> Requests \cup {None}]
           /\ \A q \in Procs : pc'[q] # "idle" => cur'[q] \in Requests
<1>1. CASE ending = "ok" BY <1>1, GoType DEF Proceed
<1>2. CASE ending # "ok" BY <1>2, AfterRaiseType DEF Proceed
<1>3. QED BY <1>1, <1>2

LEMMA RaiseType ==
    ASSUME TypeOK, NEW p \in Procs, Raise(p) PROVE TypeOK'
BY AfterRaiseType
   DEF Raise, TypeOK, MetaOK, RowsOK, ProcessesOK, OutsideOK,
       metaVars, rowVars, providerVars, outsideVars

LEMMA ConcludeType ==
    ASSUME RowsOK, NEW r \in Requests, NEW verdict \in Terminal, NEW at \in Time,
           Conclude(r, verdict, at)
    PROVE  RowsOK'
BY DEF Conclude, RowsOK, Evidence, Results, RowStates

LEMMA NoteType ==
    ASSUME RowsOK, NEW p \in Procs, NEW r \in Requests, NEW fact \in Facts,
           NEW ending, NEW phase, Note(p, r, fact, ending, phase)
    PROVE  /\ journal' \in [Requests -> SUBSET Facts]
           /\ token' = token /\ result' = result
BY DEF Note, RowsOK

-----------------------------------------------------------------------------
(* Type correctness *)

LEMMA TypeInit == Init => TypeOK
BY NoneAssumption, PolicyAssumption
   DEF Init, TypeOK, MetaOK, RowsOK, ProcessesOK, OutsideOK, Time, RowStates, NoToken,
       Tokens, NoResult, Results, NoReceipt, Receipts, ProviderOutcomes, Phases

LEMMA TypeEnvironment ==
    ASSUME TypeOK,
           \/ Tick \/ IssueReset
           \/ \E r \in Requests : Revoke(r) \/ Mutate(r) \/ OrphanEnds(r)
    PROVE  TypeOK'
<1> USE DEF metaVars, rowVars, consumerVars, providerVars, outsideVars, Incident,
            TypeOK, MetaOK, RowsOK, ProcessesOK, OutsideOK
<1>1. CASE Tick BY <1>1, PolicyAssumption DEF Tick, Time
<1>2. CASE IssueReset BY <1>2, PolicyAssumption DEF IssueReset, Resets, Time
<1>3. ASSUME NEW r \in Requests, Revoke(r) PROVE TypeOK' BY <1>3 DEF Revoke
<1>4. ASSUME NEW r \in Requests, Mutate(r) PROVE TypeOK' BY <1>4 DEF Mutate
<1>5. ASSUME NEW r \in Requests, OrphanEnds(r) PROVE TypeOK' BY <1>5 DEF OrphanEnds
<1>6. QED BY <1>1, <1>2, <1>3, <1>4, <1>5

LEMMA TypeFresh ==
    ASSUME ProcessesOK, NEW p \in Procs, FreshConsumer(p),
           owner' \in Procs \cup {None},
           store' \in [Procs -> {"none", "open", "quarantined"}]
    PROVE  ProcessesOK'
<1>1. 0 \in Time BY PolicyAssumption DEF Time
<1>2. /\ pc' \in [Procs -> Phases]
      /\ cur' \in [Procs -> Requests \cup {None}]
      /\ \A q \in Procs : pc'[q] # "idle" => cur'[q] \in Requests
  BY DEF FreshConsumer, ProcessesOK, Phases
<1>3. lastObs' \in [Procs -> Time] BY <1>1 DEF FreshConsumer, ProcessesOK
<1>4. frozen' \in [Procs -> SUBSET {"clock", "roots"}]
  BY DEF FreshConsumer, ProcessesOK
<1>5. hasClaimed' \in [Procs -> BOOLEAN] BY DEF FreshConsumer, ProcessesOK
<1>6. QED BY <1>2, <1>3, <1>4, <1>5 DEF ProcessesOK

LEMMA TypeRecover ==
    ASSUME MetaOK, RowsOK, NEW ending, Recover(ending)
    PROVE  RowsOK' /\ trustedAt' = trustedAt /\ revision' \in Nat /\ anchor' \in Nat
           /\ stopped' \in BOOLEAN /\ epoch' \in Nat
<1>1. RowsOK'
  BY DEF Recover, RowsOK, MetaOK, RowStates, Terminal, NonSuccess, Results, Evidence
<1>2. QED BY <1>1, AdvanceType, StopType DEF Recover

LEMMA TypeOperators ==
    ASSUME TypeOK, NEW p \in Procs,
           \/ Open(p) \/ RecoverAnchor(p) \/ ApplyReset(p)
           \/ \E r \in Requests : Claim(p, r) \/ ClaimRefused(p, r)
    PROVE  TypeOK'
<1> USE DEF metaVars, rowVars, consumerVars, providerVars, outsideVars, TypeOK
<1>1. CASE Open(p)
  <2>1. OutsideOK' BY <1>1 DEF Open, OutsideOK
  <2>2. ProcessesOK' BY <1>1, TypeFresh DEF Open, ProcessesOK
  <2>3. MetaOK' /\ RowsOK'
    BY <1>1, TypeRecover DEF Open, MetaOK, RowsOK
  <2>4. QED BY <2>1, <2>2, <2>3
<1>2. CASE RecoverAnchor(p)
  BY <1>2 DEF RecoverAnchor, MetaOK, RowsOK, ProcessesOK, OutsideOK
<1>3. CASE ApplyReset(p)
  <2>1. PICK at \in Attested, ending \in Endings :
          trustedAt' = at /\ Advance(ending)
    BY <1>3 DEF ApplyReset
  <2>2. revision' \in Nat /\ anchor' \in Nat BY <2>1, AdvanceType
  <2>3. trustedAt' \in Time BY <2>1, AttestedTime
  <2>4. epoch' = epoch + 1 /\ stopped' = FALSE BY <1>3 DEF ApplyReset
  <2>5. now' = now /\ incidents' = incidents BY <1>3 DEF ApplyReset
  <2>6. stopped' \in BOOLEAN BY <2>4, Zenon
  <2>7. epoch' \in Nat BY <2>4 DEF MetaOK
  <2>8. MetaOK' BY <2>2, <2>3, <2>5, <2>6, <2>7 DEF MetaOK
  <2>9. QED BY <1>3, <2>8 DEF ApplyReset, RowsOK, ProcessesOK, OutsideOK
<1>4. ASSUME NEW r \in Requests, Claim(p, r) PROVE TypeOK'
  <2>1. PICK at \in Attested, ending \in Endings : ClaimRow(p, r, at, ending)
    BY <1>4 DEF Claim
  <2>2. TokenExpiry(r, at) \in Nat
    BY DeadlineAssumption, PolicyAssumption, AttestedTime DEF TokenExpiry, Earlier
  <2>3. RowsOK'
    BY <1>4, <2>1, <2>2 DEF Claim, ClaimRow, RowsOK, MetaOK, Tokens, RowStates,
                            InFlight
  <2>4. MetaOK'
    BY <1>4, <2>1, AttestedTime, AdvanceType DEF Claim, ClaimRow, MetaOK
  <2>6. /\ pc' \in [Procs -> Phases]
        /\ cur' \in [Procs -> Requests \cup {None}]
        /\ \A q \in Procs : pc'[q] # "idle" => cur'[q] \in Requests
    BY <2>1 DEF ClaimRow, ProcessesOK, Phases
  <2>7. lastObs' \in [Procs -> Time] BY <1>4, ObserveType DEF Claim
  <2>71. hasClaimed' \in [Procs -> BOOLEAN]
    BY <2>1 DEF ClaimRow, ProcessesOK
  <2>8. ProcessesOK' BY <1>4, <2>6, <2>7, <2>71 DEF Claim, ProcessesOK
  <2>9. OutsideOK' BY <1>4 DEF Claim, OutsideOK
  <2>10. QED BY <2>3, <2>4, <2>8, <2>9
<1>5. ASSUME NEW r \in Requests, ClaimRefused(p, r) PROVE TypeOK'
  <2>2. lastObs' \in [Procs -> Time] BY <1>5, ObserveType DEF ClaimRefused
  <2>3. QED BY <1>5, <2>2 DEF ClaimRefused, MetaOK, RowsOK, ProcessesOK, OutsideOK
<1>6. QED BY <1>1, <1>2, <1>3, <1>4, <1>5

LEMMA TypeFails ==
    ASSUME TypeOK, NEW p \in Procs, Fails(p)
    PROVE  TypeOK'
<1> USE DEF metaVars, rowVars, consumerVars, providerVars, outsideVars, Incident,
            TypeOK
<1>1. CASE AuthorityFails(p)
  <2>1. MetaOK' BY <1>1, StopType, AdvanceType DEF AuthorityFails, MetaOK
  <2>2. lastObs' \in [Procs -> Time]
    BY <1>1, ObserveType DEF AuthorityFails, AfterObservation
  <2>3. ProcessesOK' BY <1>1, <2>2, AfterRaiseType DEF AuthorityFails, ProcessesOK
  <2>4. QED BY <1>1, <2>1, <2>3 DEF AuthorityFails, RowsOK, OutsideOK
<1>2. CASE TransactionFails(p)
  <2>1. MetaOK' BY <1>2 DEF TransactionFails, MetaOK
  <2>2. lastObs' \in [Procs -> Time]
    BY <1>2, ObserveType DEF TransactionFails, AfterObservation
  <2>3. ProcessesOK' BY <1>2, <2>2, AfterRaiseType DEF TransactionFails, ProcessesOK
  <2>4. QED BY <1>2, <2>1, <2>3 DEF TransactionFails, RowsOK, OutsideOK
<1>3. ASSUME NEW cause \in {"clock", "roots"}, FailsBeforeClaim(p, cause)
      PROVE  TypeOK'
  <2>1. MetaOK' BY <1>3, StopType, AdvanceType DEF FailsBeforeClaim, MetaOK
  <2>2. lastObs' \in [Procs -> Time]
    BY <1>3, ObserveType DEF FailsBeforeClaim, FailureOf
  <2>3. frozen' \in [Procs -> SUBSET {"clock", "roots"}]
    BY <1>3 DEF FailsBeforeClaim, FailureOf, ProcessesOK
  <2>4. ProcessesOK' BY <1>3, <2>2, <2>3 DEF FailsBeforeClaim, ProcessesOK
  <2>5. QED BY <1>3, <2>1, <2>4 DEF FailsBeforeClaim, RowsOK, OutsideOK
<1>4. ASSUME NEW cause \in {"clock", "roots"}, FailsAfterClaim(p, cause)
      PROVE  TypeOK'
  <2>1. MetaOK' BY <1>4 DEF FailsAfterClaim, MetaOK
  <2>2. "failing" \in Phases /\ pc[p] # "idle"
    BY <1>4 DEF FailsAfterClaim, Phases
  <2>3. frozen' \in [Procs -> SUBSET {"clock", "roots"}]
    BY <1>4 DEF FailsAfterClaim, FailureOf, ProcessesOK
  <2>4. lastObs' \in [Procs -> Time]
    BY <1>4, ObserveType DEF FailsAfterClaim, FailureOf
  <2>5. ProcessesOK'
    BY <1>4, <2>2, <2>3, <2>4, GoType DEF FailsAfterClaim, ProcessesOK
  <2>6. QED BY <1>4, <2>1, <2>5 DEF FailsAfterClaim, RowsOK, OutsideOK
<1>5. CASE Crash(p)
  <2>1. ProcessesOK' BY <1>5, TypeFresh DEF Crash, Disown, ProcessesOK
  <2>2. QED BY <1>5, <2>1 DEF Crash, MetaOK, RowsOK, OutsideOK
<1>6. CASE Close(p)
  BY <1>6 DEF Close, Disown, MetaOK, RowsOK, ProcessesOK, OutsideOK
<1>7. ASSUME NEW q \in Procs, Fork(p, q) PROVE TypeOK'
  BY <1>7 DEF Fork, MetaOK, RowsOK, ProcessesOK, OutsideOK
<1>8. QED BY <1>1, <1>2, <1>3, <1>4, <1>5, <1>6, <1>7 DEF Fails

\* The steps that only move a process, its observation or its refusals.
LEMMA TypeMove ==
    ASSUME TypeOK, NEW p \in Procs,
           CheckBoundary(p) \/ JudgeProvider(p) \/ ProbeReturns(p) \/ ProbeFails(p)
    PROVE  TypeOK'
<1> USE DEF metaVars, rowVars, providerVars, outsideVars, TypeOK
<1>1. CASE CheckBoundary(p)
  <2>1. PICK obs \in Observed(p) :
          /\ lastObs' = [lastObs EXCEPT ![p] = obs]
          /\ Go(p, IF WithinBoundary(cur[p], obs) THEN "cleared" ELSE "failing")
    BY <1>1 DEF CheckBoundary
  <2>2. (IF WithinBoundary(cur[p], obs) THEN "cleared" ELSE "failing") \in Phases
    BY DEF Phases
  <2>3. pc[p] # "idle" BY <1>1 DEF CheckBoundary
  <2>4. lastObs' \in [Procs -> Time] BY <2>1, ObservedTime DEF ProcessesOK
  <2>5. ProcessesOK'
    BY <1>1, <2>1, <2>2, <2>3, <2>4, GoType DEF CheckBoundary, ProcessesOK
  <2>6. QED BY <1>1, <2>5 DEF CheckBoundary, MetaOK, RowsOK, OutsideOK
<1>2. CASE JudgeProvider(p)
  <2>1. PICK phase \in Phases : Go(p, phase)
    BY <1>2 DEF JudgeProvider, Phases
  <2>2. pc[p] # "idle" BY <1>2 DEF JudgeProvider
  <2>3. ProcessesOK' BY <1>2, <2>1, <2>2, GoType DEF JudgeProvider, ProcessesOK
  <2>4. QED BY <1>2, <2>3 DEF JudgeProvider, MetaOK, RowsOK, OutsideOK
<1>3. CASE ProbeReturns(p)
  <2>1. pc[p] # "idle" /\ "probed" \in Phases BY <1>3 DEF ProbeReturns, Phases
  <2>2. ProcessesOK' BY <1>3, <2>1, GoType DEF ProbeReturns, ProcessesOK
  <2>3. QED BY <1>3, <2>2 DEF ProbeReturns, MetaOK, RowsOK, OutsideOK
<1>4. CASE ProbeFails(p)
  <2>1. pc[p] # "idle" /\ "failing" \in Phases BY <1>4 DEF ProbeFails, Phases
  <2>2. ProcessesOK' BY <1>4, <2>1, GoType DEF ProbeFails, ProcessesOK
  <2>3. MetaOK' BY <1>4 DEF ProbeFails, Incident, MetaOK
  <2>4. QED BY <1>4, <2>2, <2>3 DEF ProbeFails, RowsOK, OutsideOK
<1>5. QED BY <1>1, <1>2, <1>3, <1>4

LEMMA TypeRedeem ==
    ASSUME TypeOK, NEW p \in Procs, Redeem(p)
    PROVE  TypeOK'
<1> USE DEF metaVars, rowVars, providerVars, outsideVars, TypeOK
<1> DEFINE r == cur[p]
<1>1. pc[p] # "idle" /\ r \in Requests BY DEF Redeem, ProcessesOK
<1>2. {"idle", "dispatched", "failing"} \subseteq Phases BY DEF Phases
<1>3. lastObs' \in [Procs -> Time] BY ObserveType DEF Redeem
<1>4. OutsideOK' /\ now' = now /\ incidents' = incidents
      /\ store' = store /\ frozen' = frozen
  BY DEF Redeem, OutsideOK
<1>5. ASSUME NEW at \in Attested, NEW ending \in Endings, RedeemOwned(p, r, at, ending)
      PROVE  TypeOK'
  <2>1. revision' \in Nat /\ anchor' \in Nat BY <1>5, AdvanceType DEF RedeemOwned
  <2>2. trustedAt' \in Time BY <1>5, AttestedTime DEF RedeemOwned
  <2>3. CASE CanRedeem(r, at)
    <3>1. RowsOK'
      BY <1>1, <1>5, <2>3 DEF RedeemOwned, RowsOK, RowStates, InFlight
    <3>2. epoch' = epoch /\ stopped' = stopped /\ owner' = owner
          /\ hasClaimed' = hasClaimed /\ Proceed(p, ending, "dispatched")
      BY <1>5, <2>3 DEF RedeemOwned
    <3>3. ProcessesOK'
      BY <1>1, <1>2, <1>3, <1>4, <3>2, ProceedType DEF ProcessesOK
    <3>4. QED BY <1>4, <2>1, <2>2, <3>1, <3>2, <3>3 DEF MetaOK
  <2>4. CASE ~CanRedeem(r, at)
    <3>1. /\ Conclude(r, "unknown", at) /\ Stop /\ owner' = None
          /\ hasClaimed' = [hasClaimed EXCEPT ![p] = @ /\ ending # "ok"]
          /\ Proceed(p, ending, "idle")
      BY <1>5, <2>4 DEF RedeemOwned
    <3>2. RowsOK'
      BY <1>1, <3>1, ConcludeType, AttestedTime DEF Terminal, NonSuccess
    <3>3. stopped' \in BOOLEAN /\ epoch' \in Nat BY <3>1, StopType
    <3>4. hasClaimed' \in [Procs -> BOOLEAN] BY <3>1 DEF ProcessesOK
    <3>5. ProcessesOK'
      BY <1>1, <1>2, <1>3, <1>4, <3>1, <3>4, ProceedType DEF ProcessesOK
    <3>6. QED BY <1>4, <2>1, <2>2, <3>2, <3>3, <3>5 DEF MetaOK
  <2>5. QED BY <2>3, <2>4
<1>6. CASE Go(p, "idle") /\ hasClaimed' = [hasClaimed EXCEPT ![p] = FALSE]
           /\ UNCHANGED <<metaVars, rowVars, owner>>
  <2>1. hasClaimed' \in [Procs -> BOOLEAN] BY <1>6 DEF ProcessesOK
  <2>2. ProcessesOK' BY <1>1, <1>2, <1>3, <1>4, <1>6, <2>1, GoType DEF ProcessesOK
  <2>3. QED BY <1>4, <1>6, <2>2 DEF MetaOK, RowsOK
<1>7. CASE Go(p, "failing") /\ UNCHANGED <<metaVars, rowVars, owner, hasClaimed>>
  <2>1. ProcessesOK' BY <1>1, <1>2, <1>3, <1>4, <1>7, GoType DEF ProcessesOK
  <2>2. QED BY <1>4, <1>7, <2>1 DEF MetaOK, RowsOK
<1>8. QED BY <1>5, <1>6, <1>7 DEF Redeem

\* The transactions that journal one more fact.
LEMMA TypeNote ==
    ASSUME TypeOK, NEW p \in Procs,
           \/ RecordIntent(p) \/ RecordAttempt(p) \/ RecordReceipt(p)
           \/ RecordProbeIntent(p)
    PROVE  TypeOK'
<1> USE DEF metaVars, rowVars, providerVars, outsideVars, TypeOK
<1> DEFINE r == cur[p]
<1>1. pc[p] # "idle" /\ r \in Requests
  BY DEF RecordIntent, RecordAttempt, RecordReceipt, RecordProbeIntent, ProcessesOK
<1>2. {"intent", "attempted", "recorded", "probing"} \subseteq Phases BY DEF Phases
<1>3. ASSUME NEW fact \in Facts, NEW ending, NEW phase \in Phases,
             Note(p, r, fact, ending, phase), trustedAt' \in Time,
             state' \in [Requests -> RowStates], lastObs' \in [Procs -> Time],
             UNCHANGED <<now, incidents, owner, store, frozen, hasClaimed,
                         providerVars, outsideVars>>
      PROVE  TypeOK'
  <2>1. RowsOK' BY <1>1, <1>3, NoteType DEF RowsOK
  <2>2. revision' \in Nat /\ anchor' \in Nat BY <1>3, AdvanceType DEF Note
  <2>3. MetaOK' BY <1>3, <2>2 DEF Note, MetaOK
  <2>4. Proceed(p, ending, phase) BY <1>3 DEF Note
  <2>5. ProcessesOK' BY <1>1, <1>3, <2>4, ProceedType DEF ProcessesOK
  <2>6. QED BY <1>3, <2>1, <2>3, <2>5 DEF OutsideOK
<1>4. CASE RecordIntent(p)
  <2>1. CASE Raise(p) BY <2>1, RaiseType
  <2>2. CASE /\ \E at \in Attested, ending \in Endings :
                  trustedAt' = at /\ Note(p, r, "intent", ending, "intent")
             /\ UNCHANGED <<now, incidents, state, owner, store, lastObs, frozen,
                            hasClaimed, providerVars, outsideVars>>
    BY <1>2, <1>3, <2>2, AttestedTime DEF Facts, RowsOK, ProcessesOK
  <2>3. QED BY <1>4, <2>1, <2>2 DEF RecordIntent
<1>5. CASE RecordAttempt(p)
  BY <1>2, <1>3, <1>5 DEF RecordAttempt, Facts, RowsOK, MetaOK, ProcessesOK
<1>6. CASE RecordReceipt(p)
  <2>1. CASE Raise(p) BY <2>1, RaiseType
  <2>2. CASE /\ \E at \in Attested, ending \in Endings :
                  /\ trustedAt' = at
                  /\ state' = [state EXCEPT ![r] = "provider_recorded"]
                  /\ Note(p, r, "receipt", ending, "recorded")
             /\ UNCHANGED <<now, incidents, owner, store, lastObs, frozen,
                            hasClaimed, providerVars, outsideVars>>
    <3>1. state' \in [Requests -> RowStates]
      BY <2>2 DEF RowsOK, RowStates, InFlight
    <3>2. QED BY <1>2, <1>3, <2>2, <3>1, AttestedTime DEF Facts, ProcessesOK
  <2>3. QED BY <1>6, <2>1, <2>2 DEF RecordReceipt
<1>7. CASE RecordProbeIntent(p)
  <2>1. lastObs' \in [Procs -> Time] BY <1>7, ObserveType DEF RecordProbeIntent
  <2>2. CASE \E at \in Attested, ending \in Endings :
                trustedAt' = at /\ Note(p, r, "probe", ending, "probing")
    BY <1>2, <1>3, <1>7, <2>1, <2>2, AttestedTime DEF RecordProbeIntent, Facts, RowsOK
  <2>3. CASE Go(p, "failing") /\ UNCHANGED <<metaVars, journal, token, result>>
    <3>1. "failing" \in Phases BY DEF Phases
    <3>2. ProcessesOK'
      BY <1>1, <1>7, <2>1, <2>3, <3>1, GoType DEF RecordProbeIntent, ProcessesOK
    <3>3. QED BY <1>7, <2>3, <3>2 DEF RecordProbeIntent, MetaOK, RowsOK, OutsideOK
  <2>4. QED BY <1>7, <2>2, <2>3 DEF RecordProbeIntent
<1>8. QED BY <1>4, <1>5, <1>6, <1>7

LEMMA TypeProvider ==
    ASSUME TypeOK, NEW p \in Procs,
           Launch(p) \/ ProviderReturns(p) \/ ProviderEscapes(p) \/ SignActionReceipt(p)
    PROVE  TypeOK'
<1> USE DEF metaVars, rowVars, providerVars, outsideVars, TypeOK
<1> DEFINE r == cur[p]
<1>1. pc[p] # "idle" /\ r \in Requests
  BY DEF Launch, ProviderReturns, ProviderEscapes, SignActionReceipt, ProcessesOK
<1>2. {"running", "escaped", "returned", "signed", "failing"} \subseteq Phases
  BY DEF Phases
<1>3. CASE Launch(p)
  <2>1. child' \in [Requests -> {"none", "running", "ended"}]
    BY <1>3 DEF Launch, OutsideOK
  <2>2. launches' \in [Requests -> Nat] BY <1>3 DEF Launch, OutsideOK
  <2>3. Go(p, "running") \/ Go(p, "escaped") BY <1>3 DEF Launch
  <2>4. ProcessesOK' BY <1>1, <1>2, <1>3, <2>3, GoType DEF Launch, ProcessesOK
  <2>5. incidents' \in Nat BY <1>3 DEF Launch, Incident, NoIncident, MetaOK
  <2>6. QED BY <1>3, <2>1, <2>2, <2>4, <2>5 DEF Launch, MetaOK, RowsOK, OutsideOK
<1>4. CASE ProviderReturns(p)
  <2>1. child' \in [Requests -> {"none", "running", "ended"}]
    BY <1>4 DEF ProviderReturns, OutsideOK
  <2>2. receipt' \in [Requests -> Receipts]
    <3>1. PICK outcome \in ProviderOutcomes :
            receipt' = [receipt EXCEPT ![r] = [outcome |-> outcome, completed |-> now]]
      BY <1>4 DEF ProviderReturns
    <3>2. [outcome |-> outcome, completed |-> now] \in Receipts
      BY DEF MetaOK, Receipts
    <3>3. QED BY <3>1, <3>2 DEF OutsideOK
  <2>3. ProcessesOK' BY <1>1, <1>2, <1>4, GoType DEF ProviderReturns, ProcessesOK
  <2>4. QED BY <1>4, <2>1, <2>2, <2>3 DEF ProviderReturns, MetaOK, RowsOK, OutsideOK
<1>5. CASE ProviderEscapes(p)
  <2>1. child' \in [Requests -> {"none", "running", "ended"}]
    BY <1>5 DEF ProviderEscapes, OutsideOK
  <2>2. incidents' \in Nat
    BY <1>5 DEF ProviderEscapes, Incident, NoIncident, MetaOK
  <2>3. ProcessesOK' BY <1>1, <1>2, <1>5, GoType DEF ProviderEscapes, ProcessesOK
  <2>4. QED BY <1>5, <2>1, <2>2, <2>3 DEF ProviderEscapes, MetaOK, RowsOK, OutsideOK
<1>6. CASE SignActionReceipt(p)
  <2>1. lastObs' \in [Procs -> Time]
    BY <1>6, ObservedTime DEF SignActionReceipt, ProcessesOK
  <2>2. p11Receipts' \subseteq Requests BY <1>1, <1>6 DEF SignActionReceipt, OutsideOK
  <2>3. Go(p, "failing") \/ \E ending \in Endings : Proceed(p, ending, "signed")
    BY <1>6 DEF SignActionReceipt
  <2>4. /\ pc' \in [Procs -> Phases]
        /\ cur' \in [Procs -> Requests \cup {None}]
        /\ \A q \in Procs : pc'[q] # "idle" => cur'[q] \in Requests
    BY <1>1, <1>2, <2>3, GoType, ProceedType
  <2>5. ProcessesOK' BY <1>6, <2>1, <2>4 DEF SignActionReceipt, ProcessesOK
  <2>6. QED BY <1>6, <2>2, <2>5 DEF SignActionReceipt, MetaOK, RowsOK, OutsideOK
<1>7. QED BY <1>3, <1>4, <1>5, <1>6

LEMMA TypeCloseUncertain ==
    ASSUME TypeOK, NEW p \in Procs, CloseUncertain(p)
    PROVE  TypeOK'
<1> USE DEF metaVars, rowVars, providerVars, outsideVars, TypeOK
<1> DEFINE r == cur[p]
<1>1. pc[p] # "idle" /\ r \in Requests /\ "failing" \in Phases
  BY DEF CloseUncertain, ProcessesOK, Phases
<1>2. owner' \in Procs \cup {None} BY DEF CloseUncertain, Disown, ProcessesOK
<1>3. ASSUME store' \in [Procs -> {"none", "open", "quarantined"}] PROVE ProcessesOK'
  BY <1>1, <1>2, <1>3, GoType DEF CloseUncertain, ProcessesOK
<1>4. OutsideOK' /\ now' = now BY DEF CloseUncertain, OutsideOK
<1>5. CASE /\ Conclude(r, "unknown", trustedAt) /\ Stop
           /\ \E ending \in Endings :
                 /\ Advance(ending)
                 /\ store' = [store EXCEPT ![p] =
                                IF ending = "ok" THEN @ ELSE "quarantined"]
           /\ UNCHANGED <<trustedAt, incidents>>
  <2>1. RowsOK' BY <1>1, <1>5, ConcludeType DEF MetaOK, Terminal, NonSuccess
  <2>2. revision' \in Nat /\ anchor' \in Nat BY <1>5, AdvanceType
  <2>3. MetaOK' BY <1>4, <1>5, <2>2, StopType DEF MetaOK
  <2>4. store' \in [Procs -> {"none", "open", "quarantined"}]
    BY <1>5 DEF ProcessesOK
  <2>5. QED BY <1>3, <1>4, <2>1, <2>3, <2>4
<1>6. CASE /\ Incident
           /\ store' = [store EXCEPT ![p] = "quarantined"]
           /\ UNCHANGED <<metaVars, rowVars>>
  <2>1. store' \in [Procs -> {"none", "open", "quarantined"}]
    BY <1>6 DEF ProcessesOK
  <2>2. QED BY <1>3, <1>4, <1>6, <2>1 DEF Incident, MetaOK, RowsOK
<1>7. QED BY <1>5, <1>6 DEF CloseUncertain

LEMMA TypeCommitResult ==
    ASSUME TypeOK, NEW p \in Procs, NEW verdict \in Terminal, pc[p] # "idle",
           CommitResult(p, verdict), lastObs' \in [Procs -> Time]
    PROVE  TypeOK'
<1> USE DEF metaVars, rowVars, providerVars, outsideVars, TypeOK
<1> DEFINE r == cur[p]
<1>1. r \in Requests /\ "idle" \in Phases BY DEF ProcessesOK, Phases
<1>2. OutsideOK' /\ now' = now /\ incidents' = incidents
      /\ store' = store /\ frozen' = frozen
  BY DEF CommitResult, OutsideOK
<1>3. PICK at \in Attested :
        \/ /\ CanCommit(p, r, verdict, at)
           /\ Conclude(r, verdict, at)
           /\ trustedAt' = at
           /\ IF verdict = "succeeded" THEN UNCHANGED <<stopped, epoch>> ELSE Stop
           /\ owner' = None
           /\ \E ending \in Endings :
                 /\ Advance(ending)
                 /\ hasClaimed' = [hasClaimed EXCEPT ![p] = @ /\ ending # "ok"]
                 /\ Proceed(p, ending, "idle")
        \/ /\ IsStored(r, verdict, at)
           /\ hasClaimed' = [hasClaimed EXCEPT ![p] = FALSE]
           /\ Go(p, "idle")
           /\ UNCHANGED <<metaVars, rowVars, owner>>
        \/ /\ ~CanCommit(p, r, verdict, at) /\ ~IsStored(r, verdict, at)
           /\ Go(p, AfterRaise(p))
           /\ UNCHANGED <<metaVars, rowVars, owner, hasClaimed>>
  BY DEF CommitResult
<1>4. CASE /\ Conclude(r, verdict, at)
           /\ trustedAt' = at
           /\ IF verdict = "succeeded" THEN UNCHANGED <<stopped, epoch>> ELSE Stop
           /\ owner' = None
           /\ \E ending \in Endings :
                 /\ Advance(ending)
                 /\ hasClaimed' = [hasClaimed EXCEPT ![p] = @ /\ ending # "ok"]
                 /\ Proceed(p, ending, "idle")
  <2>1. RowsOK' BY <1>1, <1>4, ConcludeType, AttestedTime
  <2>2. stopped' \in BOOLEAN /\ epoch' \in Nat
    <3>1. CASE Stop BY <3>1, StopType
    <3>2. CASE UNCHANGED <<stopped, epoch>> BY <3>2 DEF MetaOK
    <3>3. QED BY <1>4, <3>1, <3>2
  <2>3. revision' \in Nat /\ anchor' \in Nat BY <1>4, AdvanceType
  <2>4. MetaOK' BY <1>2, <1>4, <2>2, <2>3, AttestedTime DEF MetaOK
  <2>5. hasClaimed' \in [Procs -> BOOLEAN] BY <1>4 DEF ProcessesOK
  <2>6. /\ pc' \in [Procs -> Phases]
        /\ cur' \in [Procs -> Requests \cup {None}]
        /\ \A q \in Procs : pc'[q] # "idle" => cur'[q] \in Requests
    BY <1>1, <1>4, ProceedType
  <2>7. ProcessesOK' BY <1>2, <1>4, <2>5, <2>6 DEF ProcessesOK
  <2>8. QED BY <1>2, <2>1, <2>4, <2>7
<1>5. CASE /\ hasClaimed' = [hasClaimed EXCEPT ![p] = FALSE]
           /\ Go(p, "idle")
           /\ UNCHANGED <<metaVars, rowVars, owner>>
  <2>1. hasClaimed' \in [Procs -> BOOLEAN] BY <1>5 DEF ProcessesOK
  <2>2. ProcessesOK' BY <1>1, <1>2, <1>5, <2>1, GoType DEF ProcessesOK
  <2>3. QED BY <1>2, <1>5, <2>2 DEF MetaOK, RowsOK
<1>6. CASE /\ Go(p, AfterRaise(p))
           /\ UNCHANGED <<metaVars, rowVars, owner, hasClaimed>>
  <2>1. ProcessesOK' BY <1>2, <1>6, AfterRaiseType DEF ProcessesOK
  <2>2. QED BY <1>2, <1>6, <2>1 DEF MetaOK, RowsOK
<1>7. QED BY <1>3, <1>4, <1>5, <1>6

LEMMA VerdictType ==
    ASSUME NEW outcome \in ProviderOutcomes PROVE Verdict(outcome) \in Terminal
BY DEF ProviderOutcomes, Verdict, Terminal, NonSuccess

LEMMA TypeCommit ==
    ASSUME TypeOK, NEW p \in Procs,
           CommitSuccess(p) \/ CommitNonSuccess(p) \/ CommitUnknown(p)
    PROVE  TypeOK'
<1>1. lastObs' \in [Procs -> Time]
  <2>1. CASE CommitSuccess(p) BY <2>1, ObserveType DEF CommitSuccess, TypeOK
  <2>2. CASE UNCHANGED lastObs BY <2>2 DEF TypeOK, ProcessesOK
  <2>3. QED BY <2>1, <2>2 DEF CommitNonSuccess, CommitUnknown
<1>2. CASE CommitSuccess(p)
  BY <1>1, <1>2, TypeCommitResult DEF CommitSuccess, Terminal
<1>3. CASE CommitNonSuccess(p)
  <2>1. receipt[cur[p]].outcome \in ProviderOutcomes
    BY <1>3 DEF CommitNonSuccess, TypeOK, ProcessesOK, OutsideOK, Receipts
  <2>2. QED BY <1>1, <1>3, <2>1, VerdictType, TypeCommitResult
            DEF CommitNonSuccess, Terminal
<1>4. CASE CommitUnknown(p)
  BY <1>1, <1>4, TypeCommitResult DEF CommitUnknown, Terminal, NonSuccess
<1>5. QED BY <1>2, <1>3, <1>4

LEMMA TypeNext == TypeOK /\ [Next]_vars => TypeOK'
<1> SUFFICES ASSUME TypeOK, [Next]_vars PROVE TypeOK' OBVIOUS
<1>1. CASE Next
  <2>1. ASSUME NEW p \in Procs, Execute(p) PROVE TypeOK'
    BY <2>1, TypeMove, TypeRedeem, TypeNote, TypeProvider, TypeCloseUncertain,
       TypeCommit DEF Execute
  <2>2. QED BY <1>1, <2>1, TypeEnvironment, TypeOperators, TypeFails DEF Next
<1>2. CASE UNCHANGED vars
  BY <1>2 DEF vars, metaVars, rowVars, consumerVars, providerVars, outsideVars,
       TypeOK, MetaOK, RowsOK, ProcessesOK, OutsideOK
<1>3. QED BY <1>1, <1>2

\* Every variable keeps its type, and a process inside execute() always works on
\* a request, for any number of processes and requests.
THEOREM TypeCorrect == Spec => []TypeOK
BY TypeInit, TypeNext, PTL DEF Spec


-----------------------------------------------------------------------------
(* The effects a transaction can have on the rows and the epoch *)

LEMMA InFlightStates ==
    /\ InFlight \cap Terminal = {} /\ InFlight \cap NonSuccess = {}
    /\ NonSuccess \subseteq Terminal /\ "absent" \notin InFlight \cup Terminal
    /\ RowStates = {"absent"} \cup InFlight \cup Terminal
    /\ InFlight \subseteq RowStates
    /\ Terminal = NonSuccess \cup {"succeeded"} /\ "succeeded" \notin NonSuccess
BY DEF InFlight, Terminal, NonSuccess, RowStates

\* Nothing the invariant is about has changed.
LEMMA StoreUnchanged ==
    ASSUME StoreInvariant, UNCHANGED <<revision, epoch, stopped, rowVars>>
    PROVE  StoreInvariant'
BY DEF StoreInvariant, SingleInflight, TokensAge, JournalShape, PhaseFence,
       StopKillsActivation, FailureEndsEpoch, EvidencePreserved, PhaseOffset, rowVars

\* r is ended, or left alone, in this step.
EndedOrKept(r) ==
    \/ state'[r] = state[r] /\ result'[r] = result[r]
    \/ /\ state[r] \in InFlight /\ state'[r] \in NonSuccess
       /\ result'[r].evidence <=> "attempt" \in journal[r]

\* A STOP closes the epoch of every outstanding token, whichever rows it ends.
LEMMA StopKeepsStore ==
    ASSUME TypeOK, StoreInvariant, Stop, UNCHANGED <<token, journal>>,
           \A r \in Requests : EndedOrKept(r)
    PROVE  StoreInvariant'
<1> USE DEF TypeOK, MetaOK, RowsOK, Tokens
<1>1. epoch' = epoch + 1 /\ epoch \in Nat BY DEF Stop
<1>2. \A r \in Requests : token[r].epoch \in Nat OBVIOUS
<1>3. \A r \in Requests : state'[r] # "absent" => token'[r].epoch < epoch'
  BY <1>1, <1>2, InFlightStates DEF StoreInvariant, TokensAge, EndedOrKept
<1>4. \A r \in Requests : state'[r] \in InFlight \cup {"absent"} =>
         state'[r] = state[r]
  BY InFlightStates DEF EndedOrKept
<1>5. SingleInflight' BY <1>4 DEF StoreInvariant, SingleInflight
<1>6. TokensAge' BY <1>1, <1>2, <1>3 DEF TokensAge
<1>7. JournalShape' BY <1>4 DEF StoreInvariant, JournalShape, InFlight
<1>8. \A r \in Requests : state'[r] \in InFlight => token'[r].epoch # epoch'
  BY <1>1, <1>2, <1>3, InFlightStates
<1>9. PhaseFence' /\ StopKillsActivation'
  BY <1>8, ActivationsAssumption DEF PhaseFence, StopKillsActivation
<1>10. FailureEndsEpoch' BY <1>3, InFlightStates DEF FailureEndsEpoch
<1>11. EvidencePreserved'
  <2> SUFFICES ASSUME NEW r \in Requests, state'[r] \in Terminal
               PROVE  result'[r].evidence <=> "attempt" \in journal'[r]
    BY DEF EvidencePreserved
  <2>1. CASE state'[r] = state[r] /\ result'[r] = result[r]
    BY <2>1 DEF StoreInvariant, EvidencePreserved
  <2>2. QED BY <2>1 DEF EndedOrKept
<1>12. QED
  BY <1>5, <1>6, <1>7, <1>9, <1>10, <1>11 DEF StoreInvariant

\* A success ends the row in flight and leaves the epoch alive.
LEMMA SuccessKeepsStore ==
    ASSUME TypeOK, StoreInvariant, UNCHANGED <<epoch, stopped>>,
           NEW r \in Requests, NEW at, state[r] \in InFlight,
           Conclude(r, "succeeded", at)
    PROVE  StoreInvariant'
<1> USE DEF TypeOK, RowsOK
<1>1. state' = [state EXCEPT ![r] = "succeeded"] /\ UNCHANGED <<token, journal>>
  BY DEF Conclude
<1>2. \A q \in Requests : state'[q] \notin InFlight
  BY <1>1, InFlightStates DEF StoreInvariant, SingleInflight
<1>3. SingleInflight' /\ PhaseFence' /\ StopKillsActivation'
  BY <1>2, ActivationsAssumption DEF SingleInflight, PhaseFence, StopKillsActivation
<1>4. TokensAge'
  BY <1>1, InFlightStates DEF StoreInvariant, TokensAge
<1>5. JournalShape'
  BY <1>1, <1>2, InFlightStates DEF StoreInvariant, JournalShape, InFlight
<1>6. FailureEndsEpoch'
  BY <1>1, InFlightStates DEF StoreInvariant, FailureEndsEpoch
<1>7. EvidencePreserved'
  <2> SUFFICES ASSUME NEW q \in Requests, state'[q] \in Terminal
               PROVE  result'[q].evidence <=> "attempt" \in journal'[q]
    BY DEF EvidencePreserved
  <2>1. CASE q = r BY <1>1, <2>1 DEF Conclude, Evidence
  <2>2. CASE q # r
    <3>1. state'[q] = state[q] /\ result'[q] = result[q]
      BY <1>1, <2>2 DEF Conclude
    <3>2. QED BY <1>1, <3>1 DEF StoreInvariant, EvidencePreserved
  <2>3. QED BY <2>1, <2>2
<1>8. QED BY <1>3, <1>4, <1>5, <1>6, <1>7 DEF StoreInvariant

\* A resume finds no row in flight, so the new epoch has no tokens.
LEMMA ResumeKeepsStore ==
    ASSUME TypeOK, StoreInvariant, ~HasInflight, epoch' = epoch + 1, UNCHANGED rowVars
    PROVE  StoreInvariant'
<1> USE DEF TypeOK, MetaOK, RowsOK, Tokens, rowVars
<1>1. \A r \in Requests : state'[r] \notin InFlight BY DEF HasInflight
<1>2. SingleInflight' /\ PhaseFence' /\ StopKillsActivation'
  BY <1>1, ActivationsAssumption DEF SingleInflight, PhaseFence, StopKillsActivation
<1>3. TokensAge' BY DEF StoreInvariant, TokensAge
<1>4. FailureEndsEpoch' BY DEF StoreInvariant, FailureEndsEpoch
<1>5. JournalShape' /\ EvidencePreserved'
  BY DEF StoreInvariant, JournalShape, EvidencePreserved
<1>6. QED BY <1>2, <1>3, <1>4, <1>5 DEF StoreInvariant

\* A claim starts the only row in flight, with the token of this very revision.
LEMMA ClaimKeepsStore ==
    ASSUME TypeOK, StoreInvariant, NEW p \in Procs, NEW r \in Requests,
           NEW at, NEW ending, ClaimRow(p, r, at, ending),
           UNCHANGED <<epoch, stopped, journal, result>>
    PROVE  StoreInvariant'
<1> USE DEF TypeOK, MetaOK, RowsOK, Tokens
<1>1. /\ state' = [state EXCEPT ![r] = "claimed"]
      /\ \A q \in Requests : q # r => token'[q] = token[q]
      /\ token'[r].epoch = epoch /\ token'[r].fence = revision + 1
      /\ revision' = revision + 1
  BY DEF ClaimRow, Advance
<1>2. state[r] = "absent" /\ ~HasInflight /\ ~Stopped(r)
  BY DEF ClaimRow, CanClaim
<1>3. \A q \in Requests : state[q] \notin InFlight BY <1>2 DEF HasInflight
<1>4. \A q \in Requests : state'[q] \in InFlight => q = r
  BY <1>1, <1>3
<1>5. SingleInflight' BY <1>4 DEF SingleInflight
<1>6. TokensAge' BY <1>1 DEF StoreInvariant, TokensAge
<1>7. JournalShape'
  <2>1. journal[r] = {} BY <1>2 DEF StoreInvariant, JournalShape
  <2>2. QED BY <1>1, <2>1 DEF StoreInvariant, JournalShape
<1>8. PhaseFence'
  <2>1. journal'[r] = {} BY <1>2 DEF StoreInvariant, JournalShape
  <2>2. PhaseOffset(r)' = 0 BY <1>1 DEF PhaseOffset
  <2>3. QED BY <1>1, <1>4, <2>1, <2>2 DEF PhaseFence
<1>9. StopKillsActivation'
  BY <1>2, <1>4, ActivationsAssumption DEF StopKillsActivation, Stopped, Activation
<1>10. FailureEndsEpoch'
  BY <1>1, InFlightStates DEF StoreInvariant, FailureEndsEpoch, InFlight
<1>11. EvidencePreserved'
  BY <1>1, InFlightStates DEF StoreInvariant, EvidencePreserved, InFlight
<1>12. QED BY <1>5, <1>6, <1>7, <1>8, <1>9, <1>10, <1>11 DEF StoreInvariant

\* The row in flight moves on to its next phase: same token, same epoch, one more
\* revision.
LEMMA PhaseKeepsStore ==
    ASSUME TypeOK, StoreInvariant, NEW r \in Requests,
           state[r] \in InFlight, NEW next \in {"dispatched", "provider_recorded"},
           state' = [state EXCEPT ![r] = next],
           NEW facts, journal' = [journal EXCEPT ![r] = facts],
           next = "dispatched" => facts \in {{}, {"intent"}, {"intent", "attempt"}},
           next = "provider_recorded" => facts \in {{"intent", "attempt", "receipt"}, Facts},
           PhaseFence', UNCHANGED <<epoch, stopped, token, result>>
    PROVE  StoreInvariant'
<1> USE DEF TypeOK, RowsOK
<1>1. next \in InFlight /\ next # "absent" /\ next # "claimed" BY DEF InFlight
<1>2. \A q \in Requests : state'[q] \in InFlight <=> state[q] \in InFlight
  BY <1>1
<1>3. SingleInflight' BY <1>2 DEF StoreInvariant, SingleInflight
<1>4. TokensAge' BY InFlightStates DEF StoreInvariant, TokensAge
<1>5. JournalShape'
  BY <1>1 DEF StoreInvariant, JournalShape
<1>6. StopKillsActivation'
  BY <1>2, ActivationsAssumption DEF StoreInvariant, StopKillsActivation
<1>7. FailureEndsEpoch'
  BY <1>1, InFlightStates DEF StoreInvariant, FailureEndsEpoch
<1>8. EvidencePreserved'
  <2> SUFFICES ASSUME NEW q \in Requests, state'[q] \in Terminal
               PROVE  result'[q].evidence <=> "attempt" \in journal'[q]
    BY DEF EvidencePreserved
  <2>1. q # r BY <1>1, InFlightStates
  <2>2. QED BY <2>1 DEF StoreInvariant, EvidencePreserved
<1>9. QED BY <1>3, <1>4, <1>5, <1>6, <1>7, <1>8 DEF StoreInvariant

\* Only the row in flight can break the fence.
LEMMA FenceOfRow ==
    ASSUME StoreInvariant, NEW r \in Requests, state[r] \in InFlight,
           \A q \in Requests : q # r => state'[q] = state[q],
           revision' = token'[r].fence + PhaseOffset(r)'
                       + (IF "probe" \in journal'[r] THEN 1 ELSE 0)
    PROVE  PhaseFence'
<1>1. \A q \in Requests : state'[q] \in InFlight => q = r
  BY DEF StoreInvariant, SingleInflight
<1>2. QED BY <1>1 DEF PhaseFence

-----------------------------------------------------------------------------
(* The steps of execute() *)

\* Every journaled fact is the next fact of the row's phase.
LEMMA NoteKeepsStore ==
    ASSUME TypeOK, StoreInvariant, NEW p \in Procs,
           \/ RecordIntent(p) \/ RecordAttempt(p) \/ RecordReceipt(p)
           \/ RecordProbeIntent(p)
    PROVE  StoreInvariant'
<1>1. PICK r \in Requests : r = cur[p]
  BY DEF RecordIntent, RecordAttempt, RecordReceipt, RecordProbeIntent,
         TypeOK, ProcessesOK
<1>2. CASE UNCHANGED <<metaVars, rowVars>>
  BY <1>2, StoreUnchanged DEF metaVars
<1>3. /\ revision \in Nat /\ token[r].fence \in Nat
      /\ state \in [Requests -> RowStates] /\ journal \in [Requests -> SUBSET Facts]
  BY <1>1 DEF TypeOK, MetaOK, RowsOK, Tokens
<1>4. ASSUME NEW at, NEW ending, CanInvoke(p, r, at), state' = state,
             Note(p, r, "intent", ending, "intent")
      PROVE  StoreInvariant'
  <2>1. /\ state[r] = "dispatched" /\ journal[r] = {}
        /\ token[r].fence + 1 = revision
    BY <1>4 DEF CanInvoke
  <2>2. /\ journal' = [journal EXCEPT ![r] = {"intent"}]
        /\ revision' = revision + 1 /\ UNCHANGED <<token, result, epoch, stopped>>
    BY <1>4, <2>1 DEF Note, Advance
  <2>3. state' = [state EXCEPT ![r] = "dispatched"] BY <1>3, <1>4, <2>1
  <2>4. PhaseOffset(r)' = 2 /\ "probe" \notin journal'[r]
    BY <1>1, <1>3, <2>1, <2>2, <2>3 DEF PhaseOffset
  <2>5. PhaseFence'
    BY <1>1, <1>3, <2>1, <2>2, <2>3, <2>4, FenceOfRow DEF InFlight
  <2>6. QED BY <1>1, <2>1, <2>2, <2>3, <2>5, PhaseKeepsStore DEF InFlight
<1>5. ASSUME NEW ending, CanRecordAttempt(r), state' = state,
             Note(p, r, "attempt", ending, "attempted")
      PROVE  StoreInvariant'
  <2>1. /\ state[r] = "dispatched" /\ "attempt" \notin journal[r]
        /\ token[r].epoch = epoch /\ token[r].fence + 2 = revision
    BY <1>5 DEF CanRecordAttempt
  <2>2. journal[r] \in {{}, {"intent"}}
    BY <1>1, <2>1 DEF StoreInvariant, JournalShape
  <2>3. journal[r] = {"intent"}
    BY <1>1, <1>3, <2>1, <2>2 DEF StoreInvariant, PhaseFence, PhaseOffset, InFlight
  <2>4. /\ journal' = [journal EXCEPT ![r] = {"intent", "attempt"}]
        /\ revision' = revision + 1 /\ UNCHANGED <<token, result, epoch, stopped>>
    BY <1>5, <2>3 DEF Note, Advance
  <2>5. state' = [state EXCEPT ![r] = "dispatched"] BY <1>3, <1>5, <2>1
  <2>6. PhaseOffset(r)' = 3 /\ "probe" \notin journal'[r]
    BY <1>1, <1>3, <2>1, <2>4, <2>5 DEF PhaseOffset
  <2>7. PhaseFence'
    BY <1>1, <1>3, <2>1, <2>4, <2>5, <2>6, FenceOfRow DEF InFlight
  <2>8. QED BY <1>1, <2>1, <2>4, <2>5, <2>7, PhaseKeepsStore DEF InFlight
<1>6. ASSUME NEW at, NEW ending, CanRecordReceipt(r, at),
             state' = [state EXCEPT ![r] = "provider_recorded"],
             Note(p, r, "receipt", ending, "recorded")
      PROVE  StoreInvariant'
  <2>1. /\ state[r] = "dispatched" /\ "attempt" \in journal[r]
        /\ token[r].fence + 3 = revision
    BY <1>6 DEF CanRecordReceipt
  <2>2. journal[r] = {"intent", "attempt"}
    BY <1>1, <2>1 DEF StoreInvariant, JournalShape
  <2>3. /\ journal' = [journal EXCEPT ![r] = {"intent", "attempt", "receipt"}]
        /\ revision' = revision + 1 /\ UNCHANGED <<token, result, epoch, stopped>>
    BY <1>6, <2>2 DEF Note, Advance
  <2>4. PhaseOffset(r)' = 4 /\ "probe" \notin journal'[r]
    BY <1>1, <1>3, <1>6, <2>3 DEF PhaseOffset
  <2>5. PhaseFence'
    BY <1>1, <1>3, <1>6, <2>1, <2>3, <2>4, FenceOfRow DEF InFlight
  <2>6. QED BY <1>1, <1>6, <2>1, <2>3, <2>5, PhaseKeepsStore DEF InFlight
<1>7. ASSUME NEW at, NEW ending, CanProbe(p, r, at), state' = state,
             Note(p, r, "probe", ending, "probing")
      PROVE  StoreInvariant'
  <2>1. /\ state[r] = "provider_recorded"
        /\ token[r].epoch = epoch /\ token[r].fence + 4 = revision
    BY <1>7 DEF CanProbe
  <2>2. PhaseOffset(r) = 4 BY <2>1 DEF PhaseOffset
  <2>3. "probe" \notin journal[r]
    BY <1>1, <1>3, <2>1, <2>2 DEF StoreInvariant, PhaseFence, InFlight
  <2>4. journal[r] = {"intent", "attempt", "receipt"}
    BY <1>1, <2>1, <2>3 DEF StoreInvariant, JournalShape, Facts
  <2>5. /\ journal' = [journal EXCEPT ![r] = Facts]
        /\ revision' = revision + 1 /\ UNCHANGED <<token, result, epoch, stopped>>
    BY <1>7, <2>4 DEF Note, Advance, Facts
  <2>6. state' = [state EXCEPT ![r] = "provider_recorded"] BY <1>3, <1>7, <2>1
  <2>7. PhaseOffset(r)' = 4 /\ "probe" \in journal'[r]
    BY <1>1, <1>3, <2>5, <2>6 DEF PhaseOffset, Facts
  <2>8. PhaseFence'
    BY <1>1, <1>3, <2>1, <2>5, <2>6, <2>7, FenceOfRow DEF InFlight
  <2>9. QED BY <1>1, <2>1, <2>5, <2>6, <2>8, PhaseKeepsStore DEF InFlight
<1>8. QED
  BY <1>1, <1>2, <1>4, <1>5, <1>6, <1>7
     DEF RecordIntent, RecordAttempt, RecordReceipt, RecordProbeIntent, Raise,
         rowVars

LEMMA ConcludeIsEnd ==
    ASSUME TypeOK, NEW r \in Requests, NEW verdict \in NonSuccess, NEW at,
           state[r] \in InFlight, Conclude(r, verdict, at)
    PROVE  UNCHANGED <<token, journal>> /\ \A q \in Requests : EndedOrKept(q)
<1> USE DEF TypeOK, RowsOK
<1>1. UNCHANGED <<token, journal>> BY DEF Conclude
<1>2. ASSUME NEW q \in Requests, q # r PROVE EndedOrKept(q)
  BY <1>2 DEF Conclude, EndedOrKept
<1>3. state'[r] = verdict BY DEF Conclude
<1>4. result'[r].evidence <=> "attempt" \in journal[r] BY DEF Conclude, Evidence
<1>5. EndedOrKept(r) BY <1>3, <1>4 DEF EndedOrKept
<1>6. QED BY <1>1, <1>2, <1>5

LEMMA RedeemKeepsStore ==
    ASSUME TypeOK, StoreInvariant, NEW p \in Procs, Redeem(p)
    PROVE  StoreInvariant'
<1>1. PICK r \in Requests : r = cur[p] BY DEF Redeem, TypeOK, ProcessesOK
<1>2. CASE UNCHANGED <<metaVars, rowVars>>
  BY <1>2, StoreUnchanged DEF metaVars
<1>3. ASSUME NEW at \in Attested, NEW ending \in Endings, RedeemOwned(p, r, at, ending)
      PROVE  StoreInvariant'
  <2>1. state[r] = "claimed" /\ revision' = revision + 1
    BY <1>3 DEF RedeemOwned, Advance
  <2>2. CASE CanRedeem(r, at)
    <3>1. /\ state' = [state EXCEPT ![r] = "dispatched"]
          /\ UNCHANGED <<epoch, stopped, token, journal, result>>
      BY <1>3, <2>2 DEF RedeemOwned
    <3>2. journal[r] = {} /\ token[r].fence = revision
      BY <1>1, <2>1, <2>2 DEF StoreInvariant, JournalShape, CanRedeem
    <3>3. journal' = [journal EXCEPT ![r] = {}]
      BY <3>1, <3>2 DEF TypeOK, RowsOK
    <3>4. PhaseOffset(r)' = 1 /\ "probe" \notin journal'[r]
      BY <1>1, <3>1, <3>2 DEF PhaseOffset, TypeOK, RowsOK
    <3>5. PhaseFence'
      BY <1>1, <2>1, <3>1, <3>2, <3>4, FenceOfRow
         DEF InFlight, TypeOK, MetaOK, RowsOK, Tokens
    <3>6. QED BY <1>1, <2>1, <3>1, <3>3, <3>5, PhaseKeepsStore DEF InFlight
  <2>3. CASE ~CanRedeem(r, at)
    <3>1. Conclude(r, "unknown", at) /\ Stop BY <1>3, <2>3 DEF RedeemOwned
    <3>2. state[r] \in InFlight /\ "unknown" \in NonSuccess
      BY <2>1 DEF InFlight, NonSuccess
    <3>3. QED BY <1>1, <3>1, <3>2, ConcludeIsEnd, StopKeepsStore
  <2>4. QED BY <2>2, <2>3
<1>4. QED BY <1>1, <1>2, <1>3 DEF Redeem

LEMMA CloseKeepsStore ==
    ASSUME TypeOK, StoreInvariant, NEW p \in Procs, CloseUncertain(p)
    PROVE  StoreInvariant'
<1> DEFINE r == cur[p]
<1>1. r \in Requests BY DEF CloseUncertain, TypeOK, ProcessesOK
<1>2. CASE UNCHANGED <<metaVars, rowVars>>
  BY <1>2, StoreUnchanged DEF metaVars
<1>3. CASE state[r] = "dispatched" /\ Conclude(r, "unknown", trustedAt) /\ Stop
  <2>1. state[r] \in InFlight /\ "unknown" \in NonSuccess
    BY <1>3 DEF InFlight, NonSuccess
  <2>2. QED BY <1>1, <1>3, <2>1, ConcludeIsEnd, StopKeepsStore
<1>4. QED BY <1>2, <1>3 DEF CloseUncertain

LEMMA CommitKeepsStore ==
    ASSUME TypeOK, StoreInvariant, NEW p \in Procs,
           CommitSuccess(p) \/ CommitNonSuccess(p) \/ CommitUnknown(p)
    PROVE  StoreInvariant'
<1> DEFINE r == cur[p]
<1>1. r \in Requests
  BY DEF CommitSuccess, CommitNonSuccess, CommitUnknown, TypeOK, ProcessesOK
<1>2. ASSUME NEW verdict \in Terminal, CommitResult(p, verdict) PROVE StoreInvariant'
  <2>1. CASE UNCHANGED <<metaVars, rowVars>>
    BY <2>1, StoreUnchanged DEF metaVars
  <2>2. ASSUME NEW at \in Attested, CanCommit(p, r, verdict, at),
               Conclude(r, verdict, at),
               IF verdict = "succeeded" THEN UNCHANGED <<stopped, epoch>> ELSE Stop
        PROVE  StoreInvariant'
    <3>1. state[r] \in InFlight BY <2>2 DEF CanCommit, InFlight
    <3>2. CASE verdict = "succeeded"
      BY <1>1, <2>2, <3>1, <3>2, SuccessKeepsStore
    <3>3. CASE verdict # "succeeded"
      <4>1. verdict \in NonSuccess BY <3>3, InFlightStates
      <4>2. QED BY <1>1, <2>2, <3>1, <3>3, <4>1, ConcludeIsEnd, StopKeepsStore
    <3>4. QED BY <3>2, <3>3
  <2>3. QED BY <1>2, <2>1, <2>2 DEF CommitResult
<1>3. CASE CommitNonSuccess(p)
  <2>1. receipt[r].outcome \in ProviderOutcomes
    BY <1>1 DEF TypeOK, OutsideOK, Receipts
  <2>2. QED BY <1>2, <1>3, <2>1, VerdictType, InFlightStates DEF CommitNonSuccess
<1>4. QED
  BY <1>2, <1>3, InFlightStates DEF CommitSuccess, CommitUnknown, Terminal, NonSuccess

-----------------------------------------------------------------------------
(* All steps *)

\* The steps that leave the rows, the epoch and the revision alone.
Aside ==
    \/ Tick \/ IssueReset
    \/ \E r \in Requests : Revoke(r) \/ Mutate(r) \/ OrphanEnds(r)
    \/ \E p \in Procs :
          \/ RecoverAnchor(p)
          \/ \E r \in Requests : ClaimRefused(p, r)
          \/ CheckBoundary(p) \/ Launch(p) \/ ProviderReturns(p) \/ ProviderEscapes(p)
          \/ JudgeProvider(p) \/ ProbeReturns(p) \/ ProbeFails(p) \/ SignActionReceipt(p)
          \/ TransactionFails(p) \/ Crash(p) \/ Close(p)
          \/ \E cause \in {"clock", "roots"} : FailsAfterClaim(p, cause)
          \/ \E q \in Procs : Fork(p, q)

LEMMA AsideKeepsRows ==
    ASSUME Aside PROVE UNCHANGED <<revision, epoch, stopped, rowVars>>
BY DEF Aside, Tick, IssueReset, Revoke, Mutate, OrphanEnds, RecoverAnchor, ClaimRefused,
       CheckBoundary, Launch, ProviderReturns, ProviderEscapes, JudgeProvider,
       ProbeReturns, ProbeFails, SignActionReceipt, TransactionFails, Crash, Close,
       FailsAfterClaim, Fork, metaVars

\* A failing authority stops the store, or leaves it alone; rows do not move.
LEMMA FailureStops ==
    ASSUME NEW p \in Procs,
           AuthorityFails(p) \/ \E cause \in {"clock", "roots"} : FailsBeforeClaim(p, cause)
    PROVE  /\ UNCHANGED rowVars
           /\ Stop \/ UNCHANGED metaVars
BY DEF AuthorityFails, FailsBeforeClaim

LEMMA NextCases ==
    ASSUME Next
    PROVE  \/ Aside
           \/ \E p \in Procs :
                \/ Open(p) \/ ApplyReset(p)
                \/ \E r \in Requests : Claim(p, r)
                \/ AuthorityFails(p)
                \/ \E cause \in {"clock", "roots"} : FailsBeforeClaim(p, cause)
                \/ Redeem(p) \/ CloseUncertain(p)
                \/ RecordIntent(p) \/ RecordAttempt(p) \/ RecordReceipt(p)
                \/ RecordProbeIntent(p)
                \/ CommitSuccess(p) \/ CommitNonSuccess(p) \/ CommitUnknown(p)
BY Zenon DEF Next, Aside, Execute, Fails

LEMMA RecoverIsEnd ==
    ASSUME TypeOK, NEW ending, Recover(ending)
    PROVE  /\ Stop /\ UNCHANGED <<token, journal>>
           /\ \A r \in Requests : EndedOrKept(r)
<1>1. Stop /\ UNCHANGED <<token, journal>> BY DEF Recover
<1>2. ASSUME NEW r \in Requests, state[r] \in InFlight PROVE EndedOrKept(r)
  <2>1. state'[r] = "unknown" BY <1>2 DEF Recover
  <2>2. result'[r].evidence <=> "attempt" \in journal[r]
    BY <1>2 DEF Recover, Evidence
  <2>3. QED BY <1>2, <2>1, <2>2 DEF EndedOrKept, NonSuccess
<1>3. ASSUME NEW r \in Requests, state[r] \notin InFlight PROVE EndedOrKept(r)
  BY <1>3 DEF Recover, EndedOrKept
<1>4. QED BY <1>1, <1>2, <1>3

LEMMA StoreInit == Init => StoreInvariant
BY InFlightStates, ActivationsAssumption
   DEF Init, StoreInvariant, SingleInflight, TokensAge, JournalShape, PhaseFence,
       StopKillsActivation, FailureEndsEpoch, EvidencePreserved

LEMMA StoreNext == TypeOK /\ StoreInvariant /\ [Next]_vars => StoreInvariant'
<1> SUFFICES ASSUME TypeOK, StoreInvariant, [Next]_vars PROVE StoreInvariant'
  OBVIOUS
<1>1. CASE Aside BY <1>1, AsideKeepsRows, StoreUnchanged
<1>2. CASE UNCHANGED vars BY <1>2, StoreUnchanged DEF vars, metaVars
<1>3. ASSUME UNCHANGED rowVars, Stop PROVE StoreInvariant'
  BY <1>3, StopKeepsStore DEF EndedOrKept, rowVars
<1>4. ASSUME NEW p \in Procs, Open(p) PROVE StoreInvariant'
  <2>1. CASE UNCHANGED <<metaVars, rowVars>>
    BY <2>1, StoreUnchanged DEF metaVars
  <2>2. CASE \E ending \in Endings : Recover(ending)
    BY <2>2, RecoverIsEnd, StopKeepsStore
  <2>3. QED BY <1>4, <2>1, <2>2 DEF Open
<1>5. ASSUME NEW p \in Procs, ApplyReset(p) PROVE StoreInvariant'
  <2>1. ~HasInflight /\ epoch' = epoch + 1 /\ UNCHANGED rowVars
    BY <1>5 DEF ApplyReset, CanReset
  <2>2. QED BY <2>1, ResumeKeepsStore
<1>6. ASSUME NEW p \in Procs, NEW r \in Requests, Claim(p, r) PROVE StoreInvariant'
  BY <1>6, ClaimKeepsStore DEF Claim
<1>7. ASSUME NEW p \in Procs,
             AuthorityFails(p) \/ \E cause \in {"clock", "roots"} : FailsBeforeClaim(p, cause)
      PROVE  StoreInvariant'
  BY <1>3, <1>7, FailureStops, StoreUnchanged DEF metaVars
<1>8. QED
  BY <1>1, <1>2, <1>4, <1>5, <1>6, <1>7, NextCases, RedeemKeepsStore, CloseKeepsStore,
     NoteKeepsStore, CommitKeepsStore

\* The store's own invariant, for every number of processes and requests, with or
\* without store faults: what the four theorems below are read off from.
THEOREM StoreCorrect == Spec => []StoreInvariant
BY TypeCorrect, StoreInit, StoreNext, PTL DEF Spec

LEMMA StoreParts ==
    StoreInvariant =>
        PhaseFence /\ StopKillsActivation /\ FailureEndsEpoch /\ EvidencePreserved
BY DEF StoreInvariant

\* No transaction of another process slips in between two phases of a live token:
\* the fence arithmetic of redeem(), the provider invocation and commit_result()
\* identifies the phase exactly.
THEOREM PhaseFenceCorrect == Spec => []PhaseFence
BY StoreCorrect, StoreParts, PTL

\* A live activation token never coexists with STOP.
THEOREM StopKillsActivationCorrect == Spec => []StopKillsActivation
BY StoreCorrect, StoreParts, PTL

\* A request that ended without success has a token of a closed epoch.
THEOREM FailureEndsEpochCorrect == Spec => []FailureEndsEpoch
BY StoreCorrect, StoreParts, PTL

\* A terminal result carries the provider fact that was durable when it was written.
THEOREM EvidencePreservedCorrect == Spec => []EvidencePreserved
BY StoreCorrect, StoreParts, PTL

-----------------------------------------------------------------------------
(* Terminal rows never change *)

Final(r) ==
    state[r] \in Terminal => UNCHANGED <<state[r], result[r], journal[r], token[r]>>

LEMMA RowsFinal ==
    ASSUME UNCHANGED rowVars, NEW r \in Requests PROVE Final(r)
BY DEF Final, rowVars

LEMMA EndsFinal ==
    ASSUME UNCHANGED <<token, journal>>, NEW r \in Requests, EndedOrKept(r)
    PROVE  Final(r)
BY InFlightStates DEF Final, EndedOrKept

LEMMA FinalNext ==
    ASSUME TypeOK, [Next]_vars, NEW r \in Requests PROVE Final(r)
<1> USE DEF TypeOK, RowsOK
<1>1. CASE UNCHANGED rowVars BY <1>1, RowsFinal
<1>2. ASSUME NEW p \in Procs, Open(p) PROVE Final(r)
  <2>1. CASE \E ending \in Endings : Recover(ending)
    BY <2>1, RecoverIsEnd, EndsFinal
  <2>2. QED BY <1>1, <1>2, <2>1 DEF Open
<1>3. ASSUME NEW p \in Procs, NEW q \in Requests, Claim(p, q) PROVE Final(r)
  <2>1. PICK at \in Attested, ending \in Endings : ClaimRow(p, q, at, ending)
    BY <1>3 DEF Claim
  <2>2. UNCHANGED <<journal, result>> BY <1>3 DEF Claim
  <2>3. state[q] = "absent" BY <2>1 DEF ClaimRow, CanClaim
  <2>4. CASE r = q BY <2>3, <2>4, InFlightStates DEF Final
  <2>5. CASE r # q
    <3>1. state'[r] = state[r] /\ token'[r] = token[r] BY <2>1, <2>5 DEF ClaimRow
    <3>2. QED BY <2>2, <3>1 DEF Final
  <2>6. QED BY <2>4, <2>5
<1>4. ASSUME NEW q \in Requests, NEW verdict, NEW at, state[q] \in InFlight,
             Conclude(q, verdict, at)
      PROVE  Final(r)
  <2>1. CASE r = q BY <1>4, <2>1, InFlightStates DEF Final
  <2>2. CASE r # q
    <3>1. state'[r] = state[r] /\ result'[r] = result[r] BY <1>4, <2>2 DEF Conclude
    <3>2. UNCHANGED <<token, journal>> BY <1>4 DEF Conclude
    <3>3. QED BY <3>1, <3>2 DEF Final
  <2>3. QED BY <2>1, <2>2
<1>5. ASSUME NEW p \in Procs, Redeem(p) PROVE Final(r)
  <2>1. PICK q \in Requests : q = cur[p] BY <1>5 DEF Redeem, ProcessesOK
  <2>2. ASSUME NEW at \in Attested, NEW ending \in Endings, RedeemOwned(p, q, at, ending)
        PROVE  Final(r)
    <3>1. state[q] \in InFlight BY <2>2 DEF RedeemOwned, InFlight
    <3>2. CASE Conclude(q, "unknown", at) BY <1>4, <3>1, <3>2
    <3>3. CASE state' = [state EXCEPT ![q] = "dispatched"]
               /\ UNCHANGED <<token, journal, result>>
      <4>1. CASE r = q BY <3>1, <4>1, InFlightStates DEF Final
      <4>2. CASE r # q BY <3>3, <4>2 DEF Final
      <4>3. QED BY <4>1, <4>2
    <3>4. QED BY <2>2, <3>2, <3>3 DEF RedeemOwned
  <2>3. QED BY <1>1, <1>5, <2>1, <2>2 DEF Redeem
<1>6. ASSUME NEW p \in Procs, CloseUncertain(p) PROVE Final(r)
  <2>1. PICK q \in Requests : q = cur[p] BY <1>6 DEF CloseUncertain, ProcessesOK
  <2>2. CASE state[q] = "dispatched" /\ Conclude(q, "unknown", trustedAt)
    BY <1>4, <2>2 DEF InFlight
  <2>3. QED BY <1>1, <1>6, <2>1, <2>2 DEF CloseUncertain
<1>7. ASSUME NEW p \in Procs,
             \/ RecordIntent(p) \/ RecordAttempt(p) \/ RecordReceipt(p)
             \/ RecordProbeIntent(p)
      PROVE  Final(r)
  <2>1. PICK q \in Requests : q = cur[p]
    BY <1>7 DEF RecordIntent, RecordAttempt, RecordReceipt, RecordProbeIntent, ProcessesOK
  <2>2. ASSUME NEW fact, NEW ending, NEW phase, Note(p, q, fact, ending, phase),
               state[q] \in InFlight,
               state' = state \/ state' = [state EXCEPT ![q] = "provider_recorded"]
        PROVE  Final(r)
    <3>1. UNCHANGED <<token, result>> /\ journal' = [journal EXCEPT ![q] = @ \cup {fact}]
      BY <2>2 DEF Note
    <3>2. CASE r = q BY <2>2, <3>2, InFlightStates DEF Final
    <3>3. CASE r # q
      <4>1. state'[r] = state[r] /\ journal'[r] = journal[r] BY <2>2, <3>1, <3>3
      <4>2. QED BY <3>1, <4>1 DEF Final
    <3>4. QED BY <3>2, <3>3
  <2>3. CASE UNCHANGED rowVars BY <1>1, <2>3
  <2>4. CASE RecordIntent(p)
    BY <2>1, <2>2, <2>3, <2>4 DEF RecordIntent, CanInvoke, InFlight, Raise
  <2>5. CASE RecordAttempt(p)
    BY <2>1, <2>2, <2>5 DEF RecordAttempt, CanRecordAttempt, InFlight
  <2>6. CASE RecordReceipt(p)
    BY <2>1, <2>2, <2>3, <2>6 DEF RecordReceipt, CanRecordReceipt, InFlight, Raise
  <2>7. CASE RecordProbeIntent(p)
    BY <2>1, <2>2, <2>3, <2>7 DEF RecordProbeIntent, CanProbe, InFlight, rowVars
  <2>8. QED BY <1>7, <2>4, <2>5, <2>6, <2>7
<1>8. ASSUME NEW p \in Procs, CommitSuccess(p) \/ CommitNonSuccess(p) \/ CommitUnknown(p)
      PROVE  Final(r)
  <2>1. PICK q \in Requests : q = cur[p]
    BY <1>8 DEF CommitSuccess, CommitNonSuccess, CommitUnknown, ProcessesOK
  <2>2. PICK verdict : CommitResult(p, verdict)
    BY <1>8 DEF CommitSuccess, CommitNonSuccess, CommitUnknown
  <2>3. ASSUME NEW at \in Attested, CanCommit(p, q, verdict, at), Conclude(q, verdict, at)
        PROVE  Final(r)
    BY <1>4, <2>3 DEF CanCommit, InFlight
  <2>4. QED BY <1>1, <2>1, <2>2, <2>3 DEF CommitResult
<1>9. CASE UNCHANGED vars BY <1>1, <1>9 DEF vars
<1>10. CASE Aside BY <1>1, <1>10, AsideKeepsRows
<1>11. ASSUME NEW p \in Procs, ApplyReset(p) PROVE Final(r)
  BY <1>1, <1>11 DEF ApplyReset
<1>12. ASSUME NEW p \in Procs,
              AuthorityFails(p) \/ \E cause \in {"clock", "roots"} : FailsBeforeClaim(p, cause)
       PROVE  Final(r)
  BY <1>1, <1>12, FailureStops
<1>13. QED
  BY <1>2, <1>3, <1>5, <1>6, <1>7, <1>8, <1>9, <1>10, <1>11, <1>12, NextCases

\* No retry, recovery or late commit rewrites a terminal row, its journal, its
\* result or its token (recovery, commit_result() and the replays of execute()).
THEOREM TerminalIsFinalCorrect == Spec => TerminalIsFinal
<1>1. TypeOK /\ [Next]_vars =>
         [\A r \in Requests : state[r] \in Terminal =>
             UNCHANGED <<state[r], result[r], journal[r], token[r]>>]_vars
  BY FinalNext DEF Final
<1>2. QED BY <1>1, TypeCorrect, PTL DEF Spec, TerminalIsFinal

-----------------------------------------------------------------------------
(***************************************************************************)
(* GlobalStop implements StopContract: with the phases, locks, anchors,    *)
(* clocks and failures forgotten, every step of every process is a begin,  *)
(* a success, a STOP, a resume, or nothing.                                *)
(***************************************************************************)

-----------------------------------------------------------------------------
(* The abstract status of a row *)

LEMMA StatusValues ==
    ASSUME TypeOK, NEW r \in Requests
    PROVE  /\ Status(r) = "new" <=> state[r] = "absent"
           /\ Status(r) = "open" <=> state[r] \in InFlight
           /\ Status(r) = "succeeded" <=> state[r] = "succeeded"
           /\ Status(r) = "ended" <=> state[r] \in NonSuccess
BY InFlightStates DEF Status, TypeOK, RowsOK, RowStates, InFlight, Terminal, NonSuccess

\* A step that keeps every status, the epoch, STOP and the tokens is a stutter.
LEMMA StutterStep ==
    ASSUME UNCHANGED <<epoch, stopped, token>>,
           \A r \in Requests : Status(r)' = Status(r)
    PROVE  UNCHANGED Contract!vars
BY DEF Contract!vars

LEMMA RowsStutter ==
    ASSUME UNCHANGED <<epoch, stopped, rowVars>> PROVE UNCHANGED Contract!vars
<1>1. \A r \in Requests : Status(r)' = Status(r) BY DEF Status, rowVars
<1>2. QED BY <1>1, StutterStep DEF rowVars

\* The row in flight goes to another phase: nothing the contract sees.
LEMMA PhaseStutter ==
    ASSUME TypeOK, NEW r \in Requests, state[r] \in InFlight,
           NEW next \in InFlight, state' = [state EXCEPT ![r] = next],
           UNCHANGED <<epoch, stopped, token>>
    PROVE  UNCHANGED Contract!vars
<1>1. \A q \in Requests : Status(q)' = Status(q)
  BY InFlightStates DEF Status, TypeOK, RowsOK, InFlight
<1>2. QED BY <1>1, StutterStep

\* A STOP alone.
LEMMA StopHalts ==
    ASSUME Stop, UNCHANGED rowVars PROVE Contract!Next
<1>1. \A r \in Requests : Status(r)' = Status(r) BY DEF Status, rowVars
<1>2. Contract!Halt BY <1>1 DEF Contract!Halt, Stop, rowVars
<1>3. QED BY <1>2 DEF Contract!Next

\* A STOP that ends whatever is in flight.
LEMMA EndHalts ==
    ASSUME TypeOK, Stop, UNCHANGED token,
           \A r \in Requests :
              \/ state[r] \in InFlight /\ state'[r] \in NonSuccess
              \/ state[r] \notin InFlight /\ state'[r] = state[r]
    PROVE  Contract!Next
<1>1. ASSUME NEW r \in Requests
      PROVE  Status(r)' = IF Status(r) = "open" THEN "ended" ELSE Status(r)
  <2>1. CASE state[r] \in InFlight
    <3>1. Status(r) = "open" BY <2>1, StatusValues
    <3>2. Status(r)' = "ended"
      BY <2>1, InFlightStates DEF Status, NonSuccess, InFlight, Terminal
    <3>3. QED BY <3>1, <3>2
  <2>2. CASE state[r] \notin InFlight
    <3>1. Status(r) # "open" BY <2>2, StatusValues
    <3>2. Status(r)' = Status(r) BY <2>2 DEF Status
    <3>3. QED BY <3>1, <3>2
  <2>3. QED BY <2>1, <2>2
<1>2. [r \in Requests |-> Status(r)]' =
        [r \in Requests |-> IF [q \in Requests |-> Status(q)][r] = "open" THEN "ended"
                            ELSE [q \in Requests |-> Status(q)][r]]
  BY <1>1
<1>3. Contract!Halt BY <1>2 DEF Contract!Halt, Stop
<1>4. QED BY <1>3 DEF Contract!Next

\* commit_result(), redeem() and the uncertain close end the one row in flight.
LEMMA ConcludeHalts ==
    ASSUME TypeOK, StoreInvariant, NEW r \in Requests, state[r] \in InFlight,
           NEW verdict \in NonSuccess, NEW at, Conclude(r, verdict, at), Stop
    PROVE  Contract!Next
<1>1. state' = [state EXCEPT ![r] = verdict] /\ UNCHANGED token BY DEF Conclude
<1>2. \A q \in Requests : q # r => state[q] \notin InFlight
  BY DEF StoreInvariant, SingleInflight
<1>3. \A q \in Requests :
          \/ state[q] \in InFlight /\ state'[q] \in NonSuccess
          \/ state[q] \notin InFlight /\ state'[q] = state[q]
  BY <1>1, <1>2 DEF TypeOK, RowsOK
<1>4. QED BY <1>1, <1>3, EndHalts

LEMMA NoneOpen ==
    ASSUME TypeOK, ~HasInflight PROVE Contract!Open = {}
BY StatusValues DEF Contract!Open, HasInflight

-----------------------------------------------------------------------------
(* The initial state and the steps *)

LEMMA ContractInit == Init => Contract!Init
BY DEF Init, Contract!Init, Status, NoToken

LEMMA ClaimBegins ==
    ASSUME TypeOK, NEW p \in Procs, NEW r \in Requests, Claim(p, r)
    PROVE  Contract!Next
<1> USE DEF TypeOK, RowsOK
<1>1. PICK at \in Attested, ending \in Endings : ClaimRow(p, r, at, ending)
  BY DEF Claim
<1>2. state[r] = "absent" /\ ~HasInflight /\ ~Stopped(r)
  BY <1>1 DEF ClaimRow, CanClaim
<1>3. state' = [state EXCEPT ![r] = "claimed"] BY <1>1 DEF ClaimRow
<1>4. \A q \in Requests : token'[q].epoch = IF q = r THEN epoch ELSE token[q].epoch
  BY <1>1 DEF ClaimRow
<1>5. \A q \in Requests : Status(q)' = IF q = r THEN "open" ELSE Status(q)
  BY <1>3 DEF Status, InFlight
<1>6. Status(r) = "new" BY <1>2 DEF Status
<1>7. UNCHANGED <<stopped, epoch>> BY DEF Claim
<1>8. Contract!Begin(r)
  BY <1>2, <1>4, <1>5, <1>6, <1>7, NoneOpen DEF Contract!Begin, Stopped, Activation
<1>9. QED BY <1>8 DEF Contract!Next

LEMMA CommitSucceeds ==
    ASSUME TypeOK, NEW p \in Procs, NEW r \in Requests, NEW at,
           CanCommit(p, r, "succeeded", at), Conclude(r, "succeeded", at),
           UNCHANGED <<stopped, epoch>>
    PROVE  Contract!Next
<1> USE DEF TypeOK, RowsOK
<1>1. state[r] \in InFlight /\ token[r].epoch = epoch /\ ~Stopped(r)
  BY DEF CanCommit, AuthorityFailureStop, InFlight
<1>2. state' = [state EXCEPT ![r] = "succeeded"] /\ UNCHANGED token BY DEF Conclude
<1>3. \A q \in Requests : Status(q)' = IF q = r THEN "succeeded" ELSE Status(q)
  BY <1>2 DEF Status, InFlight
<1>4. Status(r) = "open" BY <1>1 DEF Status, InFlight
<1>5. Contract!Succeed(r)
  BY <1>1, <1>2, <1>3, <1>4 DEF Contract!Succeed, Stopped, Activation
<1>6. QED BY <1>5 DEF Contract!Next

LEMMA ContractNext ==
    TypeOK /\ StoreInvariant /\ [Next]_vars => [Contract!Next]_(Contract!vars)
<1> SUFFICES ASSUME TypeOK, StoreInvariant, [Next]_vars
             PROVE  Contract!Next \/ UNCHANGED Contract!vars
  OBVIOUS
<1> DEFINE Done == Contract!Next \/ UNCHANGED Contract!vars
<1>1. ASSUME UNCHANGED <<metaVars, rowVars>> PROVE Done
  BY <1>1, RowsStutter DEF metaVars
<1>2. CASE Aside BY <1>2, AsideKeepsRows, RowsStutter
<1>3. CASE UNCHANGED vars BY <1>1, <1>3 DEF vars
<1>4. ASSUME NEW p \in Procs, Open(p) PROVE Done
  <2>1. ASSUME NEW ending \in Endings, Recover(ending) PROVE Done
    <3>1. Stop /\ UNCHANGED token BY <2>1 DEF Recover
    <3>2. \A r \in Requests :
             \/ state[r] \in InFlight /\ state'[r] \in NonSuccess
             \/ state[r] \notin InFlight /\ state'[r] = state[r]
      BY <2>1 DEF Recover, NonSuccess
    <3>3. QED BY <3>1, <3>2, EndHalts
  <2>2. QED BY <1>1, <1>4, <2>1 DEF Open
<1>5. ASSUME NEW p \in Procs, ApplyReset(p) PROVE Done
  <2>1. /\ ~HasInflight /\ stopped
        /\ stopped' = FALSE /\ epoch' = epoch + 1 /\ UNCHANGED rowVars
    BY <1>5 DEF ApplyReset, CanReset
  <2>2. \A r \in Requests : Status(r)' = Status(r) BY <2>1 DEF Status, rowVars
  <2>3. Contract!Resume BY <2>1, <2>2, NoneOpen DEF Contract!Resume, rowVars
  <2>4. QED BY <2>3 DEF Contract!Next
<1>6. ASSUME NEW p \in Procs, NEW r \in Requests, Claim(p, r) PROVE Done
  BY <1>6, ClaimBegins
<1>7. ASSUME NEW p \in Procs,
             AuthorityFails(p) \/ \E cause \in {"clock", "roots"} : FailsBeforeClaim(p, cause)
      PROVE  Done
  BY <1>1, <1>7, FailureStops, StopHalts
<1>8. ASSUME NEW p \in Procs, Redeem(p) PROVE Done
  <2>1. PICK r \in Requests : r = cur[p] BY <1>8 DEF Redeem, TypeOK, ProcessesOK
  <2>2. ASSUME NEW at \in Attested, NEW ending \in Endings, RedeemOwned(p, r, at, ending)
        PROVE  Done
    <3>1. state[r] = "claimed" BY <2>2 DEF RedeemOwned
    <3>2. CASE CanRedeem(r, at)
      <4>1. /\ state' = [state EXCEPT ![r] = "dispatched"]
            /\ UNCHANGED <<epoch, stopped, token>>
        BY <2>2, <3>2 DEF RedeemOwned
      <4>2. QED BY <3>1, <4>1, PhaseStutter DEF InFlight
    <3>3. CASE ~CanRedeem(r, at)
      <4>1. Conclude(r, "unknown", at) /\ Stop BY <2>2, <3>3 DEF RedeemOwned
      <4>2. QED BY <3>1, <4>1, ConcludeHalts DEF InFlight, NonSuccess
    <3>4. QED BY <3>2, <3>3
  <2>3. QED BY <1>1, <1>8, <2>1, <2>2 DEF Redeem
<1>9. ASSUME NEW p \in Procs, CloseUncertain(p) PROVE Done
  <2>1. PICK r \in Requests : r = cur[p] BY <1>9 DEF CloseUncertain, TypeOK, ProcessesOK
  <2>2. CASE state[r] = "dispatched" /\ Conclude(r, "unknown", trustedAt) /\ Stop
    BY <2>2, ConcludeHalts DEF InFlight, NonSuccess
  <2>3. QED BY <1>1, <1>9, <2>1, <2>2 DEF CloseUncertain
<1>10. ASSUME NEW p \in Procs,
              \/ RecordIntent(p) \/ RecordAttempt(p) \/ RecordReceipt(p)
              \/ RecordProbeIntent(p)
       PROVE  Done
  <2>1. PICK r \in Requests : r = cur[p]
    BY <1>10 DEF RecordIntent, RecordAttempt, RecordReceipt, RecordProbeIntent,
                 TypeOK, ProcessesOK
  <2>2. ASSUME NEW fact, NEW ending, NEW phase, Note(p, r, fact, ending, phase),
               \/ UNCHANGED state
               \/ /\ state[r] = "dispatched"
                  /\ state' = [state EXCEPT ![r] = "provider_recorded"]
        PROVE  Done
    <3>1. UNCHANGED <<epoch, stopped, token>> BY <2>2 DEF Note
    <3>2. CASE UNCHANGED state
      <4>1. \A q \in Requests : Status(q)' = Status(q) BY <3>2 DEF Status
      <4>2. QED BY <3>1, <4>1, StutterStep
    <3>3. QED BY <2>2, <3>1, <3>2, PhaseStutter DEF InFlight
  <2>3. CASE UNCHANGED <<metaVars, rowVars>> BY <1>1, <2>3
  <2>4. CASE RecordIntent(p) BY <2>1, <2>2, <2>3, <2>4 DEF RecordIntent, Raise
  <2>5. CASE RecordAttempt(p) BY <2>1, <2>2, <2>5 DEF RecordAttempt
  <2>6. CASE RecordReceipt(p)
    BY <2>1, <2>2, <2>3, <2>6 DEF RecordReceipt, CanRecordReceipt, Raise
  <2>7. CASE RecordProbeIntent(p) BY <2>1, <2>2, <2>3, <2>7 DEF RecordProbeIntent, rowVars
  <2>8. QED BY <1>10, <2>4, <2>5, <2>6, <2>7
<1>11. ASSUME NEW p \in Procs, CommitSuccess(p) \/ CommitNonSuccess(p) \/ CommitUnknown(p)
       PROVE  Done
  <2>1. PICK r \in Requests : r = cur[p]
    BY <1>11 DEF CommitSuccess, CommitNonSuccess, CommitUnknown, TypeOK, ProcessesOK
  <2>2. PICK verdict \in Terminal : CommitResult(p, verdict)
    <3>1. receipt[r].outcome \in ProviderOutcomes BY DEF TypeOK, OutsideOK, Receipts
    <3>2. Verdict(receipt[r].outcome) \in Terminal
      BY <3>1, VerdictType, InFlightStates
    <3>3. QED BY <1>11, <2>1, <3>2
              DEF CommitSuccess, CommitNonSuccess, CommitUnknown, Terminal, NonSuccess
  <2>3. ASSUME NEW at \in Attested, CanCommit(p, r, verdict, at),
               Conclude(r, verdict, at),
               IF verdict = "succeeded" THEN UNCHANGED <<stopped, epoch>> ELSE Stop
        PROVE  Done
    <3>1. CASE verdict = "succeeded" BY <2>3, <3>1, CommitSucceeds
    <3>2. CASE verdict # "succeeded"
      <4>1. verdict \in NonSuccess /\ state[r] \in InFlight
        BY <2>3, <3>2, InFlightStates DEF CanCommit
      <4>2. QED BY <2>3, <3>2, <4>1, ConcludeHalts
    <3>3. QED BY <3>1, <3>2
  <2>4. QED BY <1>1, <2>1, <2>2, <2>3 DEF CommitResult
<1>12. QED
  BY <1>2, <1>3, <1>4, <1>5, <1>6, <1>7, <1>8, <1>9, <1>10, <1>11, NextCases

\* The store keeps the promise of StopContract whatever crashes, fails or
\* interleaves (GlobalStopStore, all of its transactions and its recovery).
THEOREM ContractCorrect == Spec => ImplementsContract
BY TypeCorrect, StoreCorrect, ContractInit, ContractNext, PTL
   DEF Spec, ImplementsContract, Contract!Spec
=============================================================================
