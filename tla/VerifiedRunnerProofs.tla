------------------------- MODULE VerifiedRunnerProofs -------------------------
(***************************************************************************)
(* What the P19 consumer store promises, for every number of processes,    *)
(* any evidence, any pins and any times: StoreIsRecoverable,               *)
(* AnswersAreNotShoppedFor and EvidenceIsOfOneRun.                         *)
(*                                                                         *)
(* The inductive invariant follows a call: between the freeze it commits   *)
(* and the receipt that lifts it, the store holds one answer more than it  *)
(* has receipts, and nobody else is in. The anchor is at the revision or   *)
(* at the one before, and abandoned callbacks know nothing newer.          *)
(***************************************************************************)
EXTENDS EvidenceStores, TLAPS

Heads == Bundles \cup {NoHead}
Receipts == [sequence : Nat, previous : Heads, bundle : Bundles,
    challenge : {b.challenge : b \in Bundles}, request : Nat, at : Time]
Jobs == [bundle : Bundles, pins : PinSets]

StoreTypes == TypeOK /\ rows \in Seq(Receipts) /\ job \in [Procs -> Jobs \cup {NoJob}]

\* Only the newest commit may still have to be anchored.
AnchorIsNear == prior <= anchor /\ anchor <= revision /\ revision <= prior + 1

\* Where a call is tells how many answers the store has bought.
PhaseKnowsAnswers == \A p \in Procs :
    /\ pc[p] = "arming" => frozen /\ asked = Len(rows)
    /\ pc[p] = "asking" => frozen /\ asked = Len(rows) + 1

\* What Enter and Consume checked of a bundle.
Taken(b) ==
    /\ BundleHolds(b)
    /\ b.imageSeal.signer = "image_builder" /\ b.clock.signer = "time_auditor"
JobsHold == \A p \in Procs : pc[p] # "idle" => job[p] \in Jobs /\ BundleHolds(job[p].bundle)
RowsAreTaken == \A i \in 1..Len(rows) : Taken(rows[i].bundle)

RunnerInv ==
    /\ StoreTypes /\ AnchorIsNear /\ AnswersAreNotShoppedFor /\ PhaseKnowsAnswers
    /\ JobsHold /\ RowsAreTaken

-----------------------------------------------------------------------------
(* Lemmas *)

\* The greater of two revisions, as the anchor service keeps it (the anchor's advance).
LEMMA GreaterOfTwo ==
    ASSUME NEW a \in Nat, NEW b \in Nat
    PROVE  Max({a, b}) = IF a <= b THEN b ELSE a
BY DEF Max

\* A callback that knows no newer revision moves the anchor to where it still is near.
LEMMA AnchorStaysNear ==
    ASSUME StoreTypes, AnchorIsNear, NEW r \in 0..revision, Writes(r)
    PROVE  anchor' \in Nat /\ anchor <= anchor' /\ anchor' <= revision
           /\ (r = revision => anchor' = revision)
<1>1. anchor \in Nat /\ revision \in Nat /\ r \in Nat /\ anchor <= revision /\ r <= revision
  BY DEF StoreTypes, TypeOK, AnchorIsNear
<1> QED
  BY <1>1, GreaterOfTwo DEF Writes

\* A created store is empty, anchored and not frozen (create).
LEMMA RunnerInit == Init => RunnerInv
<1> SUFFICES ASSUME Init PROVE RunnerInv
  OBVIOUS
<1>1. rows = <<>> /\ Len(rows) = 0 /\ rows \in Seq(Receipts)
  BY DEF Init
<1>2. \A p \in Procs : pc[p] = "idle" /\ holder # p
  BY RunnerBounds DEF Init
<1>3. ChainHolds /\ RowsAreTaken
  BY <1>1 DEF ChainHolds, RowsAreTaken
<1>4. StoreTypes
  <2>1. now \in Time /\ mishaps \in 0..MaxMishaps
    BY RunnerBounds DEF Init, Time
  <2>2. pc \in [Procs -> Phases] /\ job \in [Procs -> Jobs \cup {NoJob}]
    BY DEF Init, Phases
  <2>3. \A p \in Procs : pc[p] # "idle" <=> holder = p
    BY <1>2
  <2> QED
    BY <1>1, <1>3, <2>1, <2>2, <2>3 DEF Init, StoreTypes, TypeOK
<1>5. AnchorIsNear /\ AnswersAreNotShoppedFor
  BY <1>1 DEF Init, AnchorIsNear, AnswersAreNotShoppedFor
<1>6. PhaseKnowsAnswers /\ JobsHold
  BY <1>2 DEF PhaseKnowsAnswers, JobsHold
<1> QED
  BY <1>3, <1>4, <1>5, <1>6 DEF RunnerInv

\* While no call moves, the anchor, the clock and the abandoned callbacks may
\* (Recover, LateWrite, Tick).
LEMMA OutsideStep ==
    ASSUME RunnerInv, UNCHANGED <<rows, revision, frozen, prior, holder, pc, job, asked>>,
           now' \in Time, mishaps' \in 0..MaxMishaps, late' \subseteq 0..revision,
           anchor' \in Nat, anchor <= anchor', anchor' <= revision
    PROVE  RunnerInv'
<1>1. StoreTypes'
  BY DEF RunnerInv, StoreTypes, TypeOK, ChainHolds
<1>2. AnchorIsNear'
  BY DEF RunnerInv, StoreTypes, TypeOK, AnchorIsNear
<1>3. (AnswersAreNotShoppedFor /\ PhaseKnowsAnswers /\ JobsHold /\ RowsAreTaken)'
  BY DEF RunnerInv, AnswersAreNotShoppedFor, PhaseKnowsAnswers, JobsHold, RowsAreTaken
<1> QED
  BY <1>1, <1>2, <1>3 DEF RunnerInv

\* A call that ends, however it ends, leaves the store as it is; a frozen one stays
\* frozen (Return, Refuse, AnchorHangs, Crash).
LEMMA LeaveStep ==
    ASSUME RunnerInv, NEW p \in Procs, Leaves(p), pc[p] # "idle",
           UNCHANGED <<now, rows, revision, frozen, prior, asked>>,
           mishaps' \in 0..MaxMishaps, late' \subseteq 0..revision,
           anchor' \in Nat, anchor <= anchor', anchor' <= revision
    PROVE  RunnerInv'
<1>1. /\ pc' = [pc EXCEPT ![p] = "idle"] /\ job' = [job EXCEPT ![p] = NoJob]
      /\ holder = p /\ holder' = None
  BY DEF Leaves, Goes, RunnerInv, StoreTypes, TypeOK
<1>2. StoreTypes'
  <2>1. \A q \in Procs : pc'[q] # "idle" <=> holder' = q
    BY <1>1, RunnerBounds DEF RunnerInv, StoreTypes, TypeOK
  <2> QED
    BY <1>1, <2>1 DEF RunnerInv, StoreTypes, TypeOK, ChainHolds, Phases
<1>3. AnchorIsNear'
  BY DEF RunnerInv, StoreTypes, TypeOK, AnchorIsNear
<1>4. (AnswersAreNotShoppedFor /\ RowsAreTaken)'
  BY DEF RunnerInv, AnswersAreNotShoppedFor, RowsAreTaken
<1>5. (PhaseKnowsAnswers /\ JobsHold)'
  BY <1>1 DEF RunnerInv, StoreTypes, TypeOK, PhaseKnowsAnswers, JobsHold
<1> QED
  BY <1>2, <1>3, <1>4, <1>5 DEF RunnerInv

\* A call that gets the lock brings a bundle that is one (_file_lock, validate_bundle).
LEMMA EnterStep ==
    ASSUME RunnerInv, NEW p \in Procs, Enter(p)
    PROVE  RunnerInv'
<1>1. PICK b \in Bundles, pins \in PinSets : BundleHolds(b)
        /\ job' = [job EXCEPT ![p] = [bundle |-> b, pins |-> pins]]
  BY DEF Enter
<1>2. /\ pc' = [pc EXCEPT ![p] = "open"] /\ pc[p] = "idle" /\ holder = None /\ holder' = p
      /\ UNCHANGED <<now, rows, revision, frozen, prior, anchor, late, asked, mishaps>>
  BY DEF Enter, Goes, store
<1>3. StoreTypes'
  <2>1. \A q \in Procs : pc'[q] # "idle" <=> holder' = q
    BY <1>2, RunnerBounds DEF RunnerInv, StoreTypes, TypeOK
  <2>2. job' \in [Procs -> Jobs \cup {NoJob}]
    BY <1>1 DEF RunnerInv, StoreTypes, Jobs
  <2> QED
    BY <1>2, <2>1, <2>2 DEF RunnerInv, StoreTypes, TypeOK, ChainHolds, Phases
<1>4. (AnchorIsNear /\ AnswersAreNotShoppedFor /\ RowsAreTaken)'
  BY <1>2 DEF RunnerInv, AnchorIsNear, AnswersAreNotShoppedFor, RowsAreTaken
<1>5. PhaseKnowsAnswers'
  BY <1>2 DEF RunnerInv, StoreTypes, TypeOK, PhaseKnowsAnswers
<1>6. JobsHold'
  BY <1>1, <1>2 DEF RunnerInv, StoreTypes, TypeOK, JobsHold, Jobs
<1> QED
  BY <1>3, <1>4, <1>5, <1>6 DEF RunnerInv

\* Arming commits a freeze on an anchored store that owes no answer
\* (_arm_clock_freeze).
LEMMA ArmStep ==
    ASSUME RunnerInv, NEW p \in Procs, Arm(p)
    PROVE  RunnerInv'
<1>1. /\ pc' = [pc EXCEPT ![p] = "arming"] /\ pc[p] = "open" /\ ~frozen /\ frozen' = TRUE
      /\ anchor = revision /\ revision' = revision + 1 /\ prior' = anchor
      /\ UNCHANGED <<now, rows, anchor, holder, late, job, asked, mishaps>>
  BY DEF Arm, Goes, Commits, Anchored, NotFrozen
<1>2. StoreTypes'
  BY <1>1 DEF RunnerInv, StoreTypes, TypeOK, ChainHolds, Phases
<1>3. AnchorIsNear'
  BY <1>1 DEF RunnerInv, StoreTypes, TypeOK, AnchorIsNear
<1>4. asked = Len(rows)
  BY <1>1 DEF RunnerInv, AnswersAreNotShoppedFor
<1>5. (AnswersAreNotShoppedFor /\ PhaseKnowsAnswers)'
  BY <1>1, <1>4 DEF RunnerInv, StoreTypes, TypeOK, AnswersAreNotShoppedFor, PhaseKnowsAnswers
<1>6. (JobsHold /\ RowsAreTaken)'
  BY <1>1 DEF RunnerInv, StoreTypes, TypeOK, JobsHold, RowsAreTaken
<1> QED
  BY <1>2, <1>3, <1>5, <1>6 DEF RunnerInv

\* Whoever has the lock is the only one in a phase (_file_lock).
LEMMA OneCaller ==
    ASSUME RunnerInv, NEW p \in Procs, NEW q \in Procs, pc[p] # "idle", pc[q] # "idle"
    PROVE  p = q
BY DEF RunnerInv, StoreTypes, TypeOK

\* The one answer too many is bought while the freeze is in force.
LEMMA AskClockStep ==
    ASSUME RunnerInv, NEW p \in Procs, AskClock(p)
    PROVE  RunnerInv'
<1>1. /\ pc' = [pc EXCEPT ![p] = "asking"] /\ pc[p] = "arming" /\ anchor' = revision
      /\ asked' = asked + 1
      /\ UNCHANGED <<now, rows, revision, frozen, prior, holder, late, job, mishaps>>
  BY DEF AskClock, Goes, store
<1>2. StoreTypes'
  BY <1>1 DEF RunnerInv, StoreTypes, TypeOK, ChainHolds, Phases
<1>3. AnchorIsNear'
  BY <1>1 DEF RunnerInv, StoreTypes, TypeOK, AnchorIsNear
<1>4. frozen /\ asked = Len(rows)
  BY <1>1 DEF RunnerInv, PhaseKnowsAnswers
<1>5. AnswersAreNotShoppedFor'
  BY <1>1, <1>4 DEF RunnerInv, StoreTypes, TypeOK, AnswersAreNotShoppedFor
<1>6. PhaseKnowsAnswers'
  BY <1>1, <1>4, OneCaller DEF RunnerInv, StoreTypes, TypeOK, PhaseKnowsAnswers
<1>7. (JobsHold /\ RowsAreTaken)'
  BY <1>1 DEF RunnerInv, StoreTypes, TypeOK, JobsHold, RowsAreTaken
<1> QED
  BY <1>2, <1>3, <1>5, <1>6, <1>7 DEF RunnerInv

\* Consuming turns the answer into a receipt, at the end of the chain, and lifts the
\* freeze (consume).
LEMMA ConsumeStep ==
    ASSUME RunnerInv, NEW p \in Procs, NEW t \in Time, Consume(p, t)
    PROVE  RunnerInv'
<1> DEFINE j == job[p]
           r == Receipt(j.bundle, t)
<1>1. /\ pc' = [pc EXCEPT ![p] = "recording"] /\ pc[p] = "asking" /\ frozen' = FALSE
      /\ anchor = revision /\ revision' = revision + 1 /\ prior' = anchor
      /\ rows' = Append(rows, r)
      /\ UNCHANGED <<now, anchor, holder, late, job, asked, mishaps>>
  BY DEF Consume, Goes, Commits, Anchored
<1>2. rows \in Seq(Receipts) /\ Len(rows) \in Nat /\ asked \in Nat
  BY DEF RunnerInv, StoreTypes, TypeOK
<1>3. j \in Jobs /\ BundleHolds(j.bundle) /\ j.bundle \in Bundles
  BY <1>1 DEF RunnerInv, JobsHold, Jobs
<1>4. Taken(j.bundle)
  BY <1>3 DEF Consume, Verified, Sealed, Taken
<1>5. EvidenceHead \in Heads
  <2>1. rows # <<>> => rows[Len(rows)] \in Receipts
    BY <1>2
  <2> QED
    BY <2>1 DEF EvidenceHead, Heads, Receipts
<1>6. r \in Receipts /\ r.bundle = j.bundle /\ r.sequence = Len(rows) + 1
      /\ r.previous = EvidenceHead
  BY <1>2, <1>3, <1>5 DEF Receipt, Receipts
<1> HIDE DEF r
<1>7. /\ rows' \in Seq(Receipts) /\ Len(rows') = Len(rows) + 1 /\ rows'[Len(rows) + 1] = r
      /\ \A i \in 1..Len(rows) : rows'[i] = rows[i]
  BY <1>1, <1>2, <1>6
<1>8. ChainHolds'
  <2> SUFFICES ASSUME NEW i \in 1..Len(rows')
               PROVE  /\ rows'[i].sequence = i
                      /\ rows'[i].previous = IF i = 1 THEN NoHead ELSE rows'[i - 1].bundle
    BY DEF ChainHolds
  <2>0. ChainHolds
    BY DEF RunnerInv, StoreTypes, TypeOK
  <2>1. CASE i \in 1..Len(rows)
    <3>1. rows'[i] = rows[i]
      BY <1>7, <2>1
    <3>2. CASE i = 1
      <4>1. rows[i].sequence = i /\ rows[i].previous = NoHead
        BY <2>1, <2>0, <3>2 DEF ChainHolds
      <4> QED
        BY <3>1, <3>2, <4>1
    <3>3. CASE i # 1
      <4>1. i - 1 \in 1..Len(rows)
        BY <1>2, <2>1, <3>3
      <4>2. rows'[i - 1] = rows[i - 1]
        BY <1>7, <4>1
      <4>3. rows[i].sequence = i /\ rows[i].previous = rows[i - 1].bundle
        BY <2>1, <2>0, <3>3 DEF ChainHolds
      <4> QED
        BY <3>1, <3>3, <4>2, <4>3
    <3> QED
      BY <3>2, <3>3
  <2>2. CASE i = Len(rows) + 1
    <3>1. CASE Len(rows) = 0
      BY <1>2, <1>6, <1>7, <2>2, <3>1 DEF EvidenceHead
    <3>2. CASE Len(rows) # 0
      <4>1. rows # <<>> /\ Len(rows) \in 1..Len(rows) /\ i - 1 = Len(rows) /\ i # 1
        BY <1>2, <2>2, <3>2
      <4> QED
        BY <1>6, <1>7, <2>2, <4>1 DEF EvidenceHead
    <3> QED
      BY <3>1, <3>2
  <2> QED
    BY <1>2, <1>7, <2>1, <2>2
<1>9. StoreTypes'
  <2>1. late' \subseteq 0..revision' /\ revision' \in Nat /\ prior' \in Nat
    BY <1>1 DEF RunnerInv, StoreTypes, TypeOK
  <2>2. pc' \in [Procs -> Phases] /\ \A q \in Procs : pc'[q] # "idle" <=> holder' = q
    BY <1>1 DEF RunnerInv, StoreTypes, TypeOK, Phases
  <2> QED
    BY <1>1, <1>7, <1>8, <2>1, <2>2 DEF RunnerInv, StoreTypes, TypeOK
<1>10. AnchorIsNear'
  BY <1>1 DEF RunnerInv, StoreTypes, TypeOK, AnchorIsNear
<1>11. asked = Len(rows')
  BY <1>1, <1>2, <1>7 DEF RunnerInv, PhaseKnowsAnswers
<1>12. AnswersAreNotShoppedFor'
  BY <1>1, <1>2, <1>7, <1>11 DEF AnswersAreNotShoppedFor
<1>13. PhaseKnowsAnswers'
  BY <1>1, OneCaller DEF RunnerInv, StoreTypes, TypeOK, PhaseKnowsAnswers
<1>14. JobsHold'
  BY <1>1 DEF RunnerInv, StoreTypes, TypeOK, JobsHold
<1>15. RowsAreTaken'
  BY <1>2, <1>4, <1>6, <1>7 DEF RunnerInv, RowsAreTaken
<1> QED
  BY <1>9, <1>10, <1>12, <1>13, <1>14, <1>15 DEF RunnerInv

\* Every step of the store keeps the invariant.
LEMMA RunnerStep ==
    ASSUME RunnerInv, [Next]_vars
    PROVE  RunnerInv'
<1>1. /\ now \in Time /\ revision \in Nat /\ anchor \in Nat /\ anchor <= revision
      /\ late \subseteq 0..revision /\ mishaps \in 0..MaxMishaps
  BY DEF RunnerInv, StoreTypes, TypeOK, AnchorIsNear
<1>2. Mishap => mishaps' \in 0..MaxMishaps
  BY <1>1, RunnerBounds DEF Mishap
<1>3. Writes(revision) => anchor' \in Nat /\ anchor <= anchor' /\ anchor' <= revision
  BY <1>1, AnchorStaysNear DEF RunnerInv
<1>4. ASSUME NEW p \in Procs, Recover(p) PROVE RunnerInv'
  BY <1>1, <1>3, <1>4, OutsideStep DEF Recover, store
<1>5. ASSUME NEW p \in Procs, Return(p) \/ Refuse(p) \/ AnchorHangs(p) \/ Crash(p)
      PROVE  RunnerInv'
  <2>1. pc[p] # "idle" /\ Leaves(p) /\ UNCHANGED <<now, rows, revision, frozen, prior, asked>>
    BY <1>5 DEF Return, Refuse, AnchorHangs, Crash, store
  <2>2. mishaps' \in 0..MaxMishaps
    BY <1>1, <1>2, <1>5 DEF Return, Refuse, AnchorHangs, Crash
  <2>4. late' = late \/ late' = late \cup {revision}
    BY <1>5 DEF Return, Refuse, AnchorHangs, Crash
  <2>5. late' \subseteq 0..revision
    <3>1. revision \in 0..revision
      BY <1>1
    <3> QED
      BY <1>1, <2>4, <3>1
  <2>3. anchor' \in Nat /\ anchor <= anchor' /\ anchor' <= revision
    BY <1>1, <1>3, <1>5 DEF Return, Refuse, AnchorHangs, Crash
  <2> QED
    BY <2>1, <2>2, <2>3, <2>5, LeaveStep
<1>6. ASSUME NEW r \in late, LateWrite(r) PROVE RunnerInv'
  <2>1. anchor' \in Nat /\ anchor <= anchor' /\ anchor' <= revision
    BY <1>1, <1>6, AnchorStaysNear DEF LateWrite, RunnerInv
  <2> QED
    BY <1>1, <1>6, <2>1, OutsideStep DEF LateWrite, store
<1>7. CASE Tick \/ UNCHANGED vars
  <2>1. now' \in Time
    BY <1>1, <1>7, RunnerBounds DEF Tick, vars, Time
  <2>2. UNCHANGED <<rows, revision, frozen, prior, anchor, holder, late, pc, job, asked, mishaps>>
    BY <1>7 DEF Tick, vars, store
  <2> QED
    BY <1>1, <2>1, <2>2, OutsideStep
<1> QED
  BY <1>4, <1>5, <1>6, <1>7, EnterStep, ArmStep, AskClockStep, ConsumeStep DEF Next

-----------------------------------------------------------------------------
(* Theorems *)

\* In every reachable state of the store the inductive invariant holds.
THEOREM RunnerCorrect == Spec => []RunnerInv
<1>1. Init => RunnerInv
  BY RunnerInit
<1>2. RunnerInv /\ [Next]_vars => RunnerInv'
  BY RunnerStep
<1> QED
  BY <1>1, <1>2, PTL DEF Spec

\* Two runs that bind the same challenge and records are one (SignersAreHonest), and
\* a bundle binds its seals to both: so a bundle that holds, with seals of honest
\* signers, is the content of the run that its clock was asked for (validate_bundle).
LEMMA TakenIsOneRun ==
    ASSUME NEW b \in Bundles, Taken(b)
    PROVE  \E r \in Runs : Content(b) = Content(r)
<1>1. PICK r \in Runs : r.clock = b.clock
  BY SignersAreHonest DEF Taken
<1>2. PICK s \in Runs : s.imageSeal = b.imageSeal
  BY SignersAreHonest DEF Taken
<1>3. BundleHolds(r) /\ BundleHolds(s)
  BY SignersAreHonest
<1>4. r.challenge = b.challenge /\ r.records = b.records
  BY <1>1, <1>3 DEF Taken, BundleHolds, ClockBinds
<1>5. s.challenge = b.challenge /\ s.records = b.records
  BY <1>2, <1>3 DEF Taken, BundleHolds, ImageBinds
<1>6. Content(r) = Content(s)
  BY <1>4, <1>5, SignersAreHonest
<1>7. r.imageSeal = b.imageSeal
  BY <1>2, <1>6 DEF Content
<1>8. PICK c \in Checks : TRUE
  BY EvidenceConstants
<1>9. r.tree = b.tree /\ r.image = b.image /\ r.advisory = b.advisory
  <2>1. RecordBinds(b, c) /\ RecordBinds(r, c)
    BY <1>3 DEF Taken, BundleHolds
  <2> QED
    BY <1>4, <2>1 DEF RecordBinds
<1> QED
  BY <1>1, <1>4, <1>7, <1>9 DEF Content

\* The invariant implies the three properties of the store.
LEMMA RunnerKeeps ==
    RunnerInv => StoreIsRecoverable /\ AnswersAreNotShoppedFor /\ EvidenceIsOfOneRun
<1> SUFFICES ASSUME RunnerInv
             PROVE  StoreIsRecoverable /\ AnswersAreNotShoppedFor /\ EvidenceIsOfOneRun
  OBVIOUS
<1>1. StoreIsRecoverable
  BY DEF RunnerInv, StoreTypes, TypeOK, AnchorIsNear, StoreIsRecoverable, Recoverable, Anchored
<1>2. AnswersAreNotShoppedFor
  BY DEF RunnerInv
<1>3. ASSUME NEW i \in 1..Len(rows)
      PROVE  \E r \in Runs : Content(rows[i].bundle) = Content(r)
  <2>1. rows[i] \in Receipts
    BY DEF RunnerInv, StoreTypes
  <2>2. rows[i].bundle \in Bundles /\ Taken(rows[i].bundle)
    BY <2>1 DEF RunnerInv, RowsAreTaken, Receipts
  <2> QED
    BY <2>2, TakenIsOneRun
<1> QED
  BY <1>1, <1>2, <1>3 DEF EvidenceIsOfOneRun

\* A behaviour of the parts is one of this store, or never is.
OfRunner == part = "runner"
LEMMA RunnerPart == PartSpec => Spec \/ []~OfRunner
<1>1. PartInit /\ OfRunner => Init
  BY DEF PartInit, OfRunner
<1>2. [PartNext]_partVars /\ OfRunner => OfRunner' /\ [Next]_vars
  BY DEF PartNext, partVars, vars, store, runnerVars, storesVars, OfRunner
<1>3. [PartNext]_partVars /\ ~OfRunner => ~OfRunner'
  BY DEF PartNext, partVars, OfRunner
<1> QED
  BY <1>1, <1>2, <1>3, PTL DEF PartSpec, Spec

\* The store can always be reopened, whatever crashes, hangs or answers late, for any
\* number of processes (_assert_integrity and the two commits of consume).
THEOREM RunnerStoreCorrect == PartSpec => []RunnerStoreIsRecoverable
<1>1. StoreIsRecoverable \/ ~OfRunner => RunnerStoreIsRecoverable
  BY DEF RunnerStoreIsRecoverable, OfRunner
<1> QED
  BY <1>1, RunnerPart, RunnerCorrect, RunnerKeeps, PTL

\* An answer of the clock that did not go into a receipt leaves the store frozen, so
\* that no second one can be bought (_arm_clock_freeze).
THEOREM ClockAnswersCorrect == PartSpec => []ClockAnswersAreNotShoppedFor
<1>1. AnswersAreNotShoppedFor \/ ~OfRunner => ClockAnswersAreNotShoppedFor
  BY DEF ClockAnswersAreNotShoppedFor, OfRunner
<1> QED
  BY <1>1, RunnerPart, RunnerCorrect, RunnerKeeps, PTL

\* What the store consumes is the complete evidence of one run, however artifacts of
\* several runs were combined, as long as signers are honest (validate_bundle, consume).
THEOREM ConsumedEvidenceCorrect == PartSpec => []ConsumedEvidenceIsOfOneRun
<1>1. EvidenceIsOfOneRun \/ ~OfRunner => ConsumedEvidenceIsOfOneRun
  BY DEF ConsumedEvidenceIsOfOneRun, OfRunner
<1> QED
  BY <1>1, RunnerPart, RunnerCorrect, RunnerKeeps, PTL
=============================================================================
