------------------------ MODULE ExternalActionsProofs ------------------------
(***************************************************************************)
(* The external action guard for every number of processes and grants:     *)
(* its invariant is inductive, a dispatch window stays clean, the external *)
(* pin never falls back, and the store is a one-shot register.             *)
(***************************************************************************)
EXTENDS ExternalActions, TLAPS

-----------------------------------------------------------------------------
(* The kinds of steps *)

\* A call that neither writes nor keeps the lock.
Quiet(p) ==
    \/ Open(p) \/ RegisterAgain(p) \/ CheckRevocations(p) \/ FoldReturns(p)
    \/ Return(p) \/ TimesOut(p) \/ Refused(p) \/ ReadFails(p) \/ LeaveFence(p)
    \/ \E g \in Grants, t \in Time :
          AskRevocation(p, g, t) \/ CheckClaim(p, g, t) \/ FoldSnapshot(p, g, t)

Fences(p) == \E g \in Grants, t \in Time : EnterFence(p, g, t)

\* A call that commits a transaction.
Transacts(p) ==
    \/ Register(p)
    \/ \E g \in Grants : Claim(p, g) \/ \E result \in Results : Conclude(p, g, result)

\* A step of _write_anchor, of its callback, or a crash.
Anchors(p) ==
    WriteFile(p) \/ PublishPin(p) \/ WriteFails(p) \/ PublishFails(p)
    \/ LatePublish(p) \/ Crash(p)

\* Every step is of one of these kinds.
LEMMA StepKinds ==
    ASSUME [Next]_vars
    PROVE  \/ Tick \/ UNCHANGED vars
           \/ \E p \in Procs : Quiet(p) \/ Fences(p) \/ Transacts(p) \/ Anchors(p)
<1>1. CASE Tick \/ UNCHANGED vars BY <1>1
<1>2. CASE \E p \in Procs : Open(p) \/ Starts(p) \/ Proceeds(p) \/ Mishap(p)
  <2> PICK p \in Procs : Open(p) \/ Starts(p) \/ Proceeds(p) \/ Mishap(p) BY <1>2
  <2>1. CASE Open(p) BY <2>1 DEF Quiet
  <2>2. CASE Starts(p) BY <2>2 DEF Starts, Quiet, Fences, Transacts
  <2>3. CASE Proceeds(p) BY <2>3 DEF Proceeds, Quiet, Transacts, Anchors
  <2>4. CASE Mishap(p) BY <2>4 DEF Mishap, Quiet, Anchors
  <2>5. QED BY <2>1, <2>2, <2>3, <2>4
<1>3. QED BY <1>1, <1>2 DEF Next

\* A quiet step changes nothing durable and moves p to a phase without the lock.
LEMMA QuietEffect ==
    ASSUME NEW p \in Procs, Quiet(p)
    PROVE  /\ UNCHANGED <<now, dbVars, anchorVars>>
           /\ \E x \in Phases \ Holding : pc' = [pc EXCEPT ![p] = x]
BY DEF Quiet, Open, RegisterAgain, CheckRevocations, FoldReturns, Return, TimesOut,
       Refused, ReadFails, LeaveFence, AskRevocation, CheckClaim, FoldSnapshot, Ends,
       Begin, Phases, Holding

\* A transaction enters an intact, unlocked store, bumps the revision and keeps the lock.
LEMMA TransactEffect ==
    ASSUME NEW p \in Procs, Transacts(p)
    PROVE  /\ Enters /\ revision' = revision + 1
           /\ pc' = [pc EXCEPT ![p] = "committed"]
           /\ job' = [job EXCEPT ![p] = NoJob]
           /\ UNCHANGED <<view, anchorVars, now, incidents>>
BY DEF Transacts, Register, Claim, Conclude, Commits

\* Writing the anchor touches neither the database nor the clock.
LEMMA AnchorEffect ==
    ASSUME NEW p \in Procs, Anchors(p)
    PROVE  UNCHANGED <<now, dbVars>>
BY DEF Anchors, WriteFile, PublishPin, WriteFails, PublishFails, LatePublish, Crash

-----------------------------------------------------------------------------
(* Types *)

\* Calls that write nothing keep the types.
LEMMA QuietTypes ==
    ASSUME TypeOK, NEW p \in Procs, Quiet(p)
    PROVE  TypeOK'
<1> USE DEF TypeOK
<1>1. UNCHANGED <<now, dbVars, anchorVars>> BY QuietEffect
<1>2. NoJob \in Jobs /\ NoView \in Views
  BY BoundAssumption DEF NoJob, NoView, Jobs, Views, Time, AuthorityStates, OutcomeStates
<1>3. incidents' \in Nat
  BY DEF Quiet, Open, RegisterAgain, CheckRevocations, FoldReturns, Return, TimesOut,
         Refused, ReadFails, LeaveFence, AskRevocation, CheckClaim, FoldSnapshot, Incident
<1>4. /\ pc' \in [Procs -> Phases] /\ job' \in [Procs -> Jobs] /\ view' \in [Procs -> Views]
      /\ \A q \in Procs : pc'[q] \in {"revoking", "fenced", "checked", "valid",
                                     "folding", "reported"} => job'[q].grant \in Grants
  <2>1. CASE Open(p) BY <2>1 DEF Open, Phases
  <2>2. CASE \/ RegisterAgain(p) \/ Return(p) \/ TimesOut(p) \/ Refused(p)
             \/ ReadFails(p) \/ LeaveFence(p)
    <3>1. Ends(p) BY <2>2 DEF RegisterAgain, Return, TimesOut, Refused, ReadFails, LeaveFence
    <3>2. QED BY <3>1, <1>2 DEF Ends, Phases
  <2>3. CASE CheckRevocations(p) BY <2>3 DEF CheckRevocations, Phases
  <2>4. CASE FoldReturns(p) BY <2>4 DEF FoldReturns, Phases
  <2>5. ASSUME NEW g \in Grants, NEW t \in Time, AskRevocation(p, g, t) \/ CheckClaim(p, g, t)
        PROVE  <1>4
    <3>1. /\ view' = view
          /\ \E phase \in {"revoking", "checked"} : Begin(p, phase, g, t)
      BY <2>5 DEF AskRevocation, CheckClaim
    <3>2. [grant |-> g, time |-> t] \in Jobs BY DEF Jobs
    <3>3. /\ \E phase \in {"revoking", "checked"} : pc' = [pc EXCEPT ![p] = phase]
          /\ job' = [job EXCEPT ![p] = [grant |-> g, time |-> t]]
      BY <3>1 DEF Begin
    <3>4. QED BY <3>1, <3>2, <3>3 DEF Phases
  <2>6. ASSUME NEW g \in Grants, NEW t \in Time, FoldSnapshot(p, g, t)
        PROVE  <1>4
    <3>1. [revision |-> revision, authority |-> AuthorityState(g, t),
           outcome |-> OutcomeState(g)] \in Views
      BY DEF Views, AuthorityState, AuthorityStates, OutcomeState, OutcomeStates, Receipts
    <3>2. QED BY <3>1, <2>6 DEF FoldSnapshot, Begin, Phases, Jobs
  <2>7. QED BY <2>1, <2>2, <2>3, <2>4, <2>5, <2>6 DEF Quiet
<1>5. QED BY <1>1, <1>3, <1>4 DEF dbVars, anchorVars

\* So does opening a fence,
LEMMA FenceTypes ==
    ASSUME TypeOK, NEW p \in Procs, Fences(p)
    PROVE  TypeOK'
BY DEF TypeOK, Fences, EnterFence, Begin, Phases, Jobs, dbVars, anchorVars

\* so does every transaction,
LEMMA TransactTypes ==
    ASSUME TypeOK, NEW p \in Procs, Transacts(p)
    PROVE  TypeOK'
<1> USE DEF TypeOK
<1>1. NoJob \in Jobs BY BoundAssumption DEF NoJob, Jobs, Time
<1>2. /\ now' = now /\ incidents' = incidents /\ view' = view
      /\ UNCHANGED anchorVars /\ revision' = revision + 1
      /\ pc' = [pc EXCEPT ![p] = "committed"] /\ job' = [job EXCEPT ![p] = NoJob]
  BY TransactEffect
<1>3. /\ claims' \in [Grants -> Time \cup {None}]
      /\ receipts' \in [Grants -> Receipts \cup {None}]
      /\ revocations' \in [Grants -> SUBSET Time]
  <2>1. CASE Register(p) BY <2>1 DEF Register, Jobs
  <2>2. ASSUME NEW g \in Grants, Claim(p, g) PROVE <1>3 BY <2>2 DEF Claim
  <2>3. ASSUME NEW g \in Grants, NEW result \in Results, Conclude(p, g, result)
        PROVE  <1>3
    BY <2>3 DEF Conclude, Receipts
  <2>4. QED BY <2>1, <2>2, <2>3 DEF Transacts
<1>4. QED BY <1>1, <1>2, <1>3 DEF anchorVars, Phases

\* and so do the steps of _write_anchor and a crash.
LEMMA AnchorTypes ==
    ASSUME TypeOK, NEW p \in Procs, Anchors(p)
    PROVE  TypeOK'
<1> USE DEF TypeOK
<1>1. UNCHANGED <<now, dbVars>> BY AnchorEffect
<1>2. NoJob \in Jobs /\ NoView \in Views
  BY BoundAssumption DEF NoJob, NoView, Jobs, Views, Time, AuthorityStates, OutcomeStates
<1>3. incidents' \in Nat
  BY DEF Anchors, WriteFile, PublishPin, WriteFails, PublishFails, LatePublish, Crash, Incident
<1>4. file' \in Nat /\ torn' \in BOOLEAN /\ pin' \in Nat /\ late' \in [Procs -> Nat]
  <2>1. FileAfterFailure => file' \in Nat /\ torn' \in BOOLEAN BY DEF FileAfterFailure
  <2>2. CASE WriteFile(p) BY <2>2 DEF WriteFile
  <2>3. CASE PublishPin(p) BY <2>3 DEF PublishPin
  <2>4. CASE WriteFails(p) BY <2>1, <2>4 DEF WriteFails
  <2>5. CASE PublishFails(p)
    <3>1. UNCHANGED <<file, torn>> /\ pin' \in {pin, revision}
      BY <2>5 DEF PublishFails
    <3>2. late' = late \/ late' = [late EXCEPT ![p] = revision] BY <2>5 DEF PublishFails
    <3>3. QED BY <3>1, <3>2
  <2>6. CASE LatePublish(p) BY <2>6 DEF LatePublish
  <2>7. CASE Crash(p)
    <3>1. late' = [late EXCEPT ![p] = 0] /\ pin' \in {pin, revision} BY <2>7 DEF Crash
    <3>2. FileAfterFailure \/ UNCHANGED <<file, torn>> BY <2>7 DEF Crash
    <3>3. QED BY <2>1, <3>1, <3>2
  <2>8. QED BY <2>2, <2>3, <2>4, <2>5, <2>6, <2>7 DEF Anchors
<1>5. /\ pc' \in [Procs -> Phases] /\ job' \in [Procs -> Jobs] /\ view' \in [Procs -> Views]
      /\ \A q \in Procs : pc'[q] \in {"revoking", "fenced", "checked", "valid",
                                     "folding", "reported"} => job'[q].grant \in Grants
  <2>1. CASE PublishPin(p) \/ WriteFails(p) \/ PublishFails(p)
    <3>1. Ends(p) BY <2>1 DEF PublishPin, WriteFails, PublishFails
    <3>2. QED BY <3>1, <1>2 DEF Ends, Phases
  <2>2. CASE WriteFile(p) BY <2>2 DEF WriteFile, Phases
  <2>3. CASE LatePublish(p) BY <2>3 DEF LatePublish, guardVars
  <2>4. CASE Crash(p) BY <2>4, <1>2 DEF Crash, Phases
  <2>5. QED BY <2>1, <2>2, <2>3, <2>4 DEF Anchors
<1>6. QED BY <1>1, <1>3, <1>4, <1>5 DEF dbVars

\* Every step keeps the types.
LEMMA TypeStep == TypeOK /\ [Next]_vars => TypeOK'
<1> SUFFICES ASSUME TypeOK, [Next]_vars PROVE TypeOK' OBVIOUS
<1>1. CASE Tick
  BY <1>1, BoundAssumption DEF Tick, TypeOK, Time, dbVars, anchorVars, guardVars
<1>2. CASE UNCHANGED vars
  BY <1>2 DEF vars, TypeOK, dbVars, anchorVars, guardVars
<1>3. ASSUME NEW p \in Procs, Quiet(p) \/ Fences(p) \/ Transacts(p) \/ Anchors(p)
      PROVE  TypeOK'
  BY <1>3, QuietTypes, FenceTypes, TransactTypes, AnchorTypes
<1>4. QED BY <1>1, <1>2, <1>3, StepKinds

-----------------------------------------------------------------------------
(* The lock *)

\* Whoever moves to a phase with the lock held it already or found it free.
LEMMA LockMoves ==
    ASSUME TypeOK, OneHolder, NEW p \in Procs, NEW x,
           pc' = [pc EXCEPT ![p] = x],
           x \in Holding => LockFree \/ pc[p] \in Holding
    PROVE  OneHolder'
BY DEF TypeOK, OneHolder, LockFree

\* Every step keeps the lock with at most one process (_file_lock).
LEMMA HolderStep ==
    ASSUME TypeOK, OneHolder, [Next]_vars
    PROVE  OneHolder'
<1>1. CASE Tick \/ UNCHANGED vars
  BY <1>1 DEF Tick, vars, guardVars, OneHolder
<1>2. ASSUME NEW p \in Procs, Quiet(p) PROVE OneHolder'
  BY <1>2, QuietEffect, LockMoves
<1>3. ASSUME NEW p \in Procs, Fences(p) PROVE OneHolder'
  BY <1>3, LockMoves DEF Fences, EnterFence, Begin, Enters
<1>4. ASSUME NEW p \in Procs, Transacts(p) PROVE OneHolder'
  BY <1>4, TransactEffect, LockMoves DEF Enters
<1>5. ASSUME NEW p \in Procs, Anchors(p) PROVE OneHolder'
  <2>1. CASE WriteFile(p) BY <2>1, LockMoves DEF WriteFile, Holding
  <2>2. CASE PublishPin(p) \/ WriteFails(p) \/ PublishFails(p)
    <3>1. Ends(p) BY <2>2 DEF PublishPin, WriteFails, PublishFails
    <3>2. QED BY <3>1, LockMoves DEF Ends, Holding
  <2>3. CASE LatePublish(p) BY <2>3 DEF LatePublish, guardVars, OneHolder
  <2>4. CASE Crash(p) BY <2>4, LockMoves DEF Crash, Holding
  <2>5. QED BY <1>5, <2>1, <2>2, <2>3, <2>4 DEF Anchors
<1>6. QED BY <1>1, <1>2, <1>3, <1>4, <1>5, StepKinds

-----------------------------------------------------------------------------
(* The anchors *)

\* A step that leaves database and anchors alone and takes the lock for nothing but a
\* fence in an intact store.
LEMMA AnchorsUntouched ==
    ASSUME TypeOK, AnchorsTrail, NEW p \in Procs, NEW x,
           UNCHANGED <<dbVars, anchorVars>>, pc' = [pc EXCEPT ![p] = x],
           x \notin {"committed", "written"},
           x = "fenced" => Enters
    PROVE  AnchorsTrail'
<1> USE DEF TypeOK, AnchorsTrail, dbVars, anchorVars
<1>1. pin' <= file' /\ file' <= revision' /\ revision' <= pin' + 1 OBVIOUS
<1> SUFFICES ASSUME NEW q \in Procs
             PROVE  AnchorsTrail!2!(q)'
  BY <1>1
<1>2. pc'[q] = "committed" \/ pc'[q] = "written" => pc'[q] = pc[q] OBVIOUS
<1>3. pc'[q] = "fenced" => Intact' BY DEF Enters, Intact
<1>4. ASSUME late'[q] # 0 PROVE LockFree' /\ pc[p] \notin Holding
  <2>1. LockFree /\ revision = pin + 1 BY <1>4
  <2>2. x \notin Holding BY <2>1 DEF Enters, Intact, Holding
  <2>3. QED BY <2>1, <2>2 DEF LockFree
<1>5. QED BY <1>2, <1>3, <1>4

\* A transaction leaves the anchors exactly one revision behind.
LEMMA TransactAnchors ==
    ASSUME TypeOK, AnchorsTrail, NEW p \in Procs, Transacts(p)
    PROVE  AnchorsTrail'
<1> USE DEF TypeOK, AnchorsTrail
<1>1. /\ LockFree /\ ~torn /\ file = revision /\ pin = revision
      /\ revision' = revision + 1 /\ pc' = [pc EXCEPT ![p] = "committed"]
      /\ UNCHANGED <<file, torn, pin, late>>
  BY TransactEffect DEF Enters, Intact, anchorVars
<1>2. \A q \in Procs : late[q] = 0 BY <1>1
<1>3. \A q \in Procs : q # p => pc'[q] \notin Holding BY <1>1 DEF LockFree
<1>4. QED BY <1>1, <1>2, <1>3 DEF Holding

\* _write_anchor catches up or leaves them so, wherever it is cut short.
LEMMA AnchorAnchors ==
    ASSUME TypeOK, OneHolder, AnchorsTrail, NEW p \in Procs, Anchors(p)
    PROVE  AnchorsTrail'
<1> USE DEF TypeOK, AnchorsTrail
<1>1. revision' = revision BY AnchorEffect DEF dbVars
\* While p holds the lock no callback is outstanding and nobody else is inside.
<1>2. ASSUME pc[p] \in Holding
      PROVE  /\ \A q \in Procs : late[q] = 0
             /\ \A q \in Procs : q # p => pc[q] \notin Holding
  BY <1>2 DEF OneHolder, LockFree
<1>3. CASE WriteFile(p)
  <2>1. /\ pc[p] = "committed" /\ file' = revision /\ ~torn'
        /\ pc' = [pc EXCEPT ![p] = "written"] /\ UNCHANGED <<pin, late>>
    BY <1>3 DEF WriteFile
  <2>2. QED BY <1>1, <1>2, <2>1 DEF Holding
<1>4. ASSUME pc[p] \in {"committed", "written"},
             pc' = [pc EXCEPT ![p] = "idle"] \/ pc' = [pc EXCEPT ![p] = "closed"],
             pin' <= file' /\ file' <= revision /\ revision <= pin' + 1,
             \A q \in Procs : late'[q] # 0 =>
                /\ q = p /\ late'[q] = revision /\ file' = revision /\ ~torn'
                /\ revision = pin' + 1
      PROVE  AnchorsTrail'
  <2>1. \A q \in Procs : pc'[q] \notin Holding BY <1>2, <1>4 DEF Holding
  <2>2. LockFree' BY <2>1 DEF LockFree
  <2>3. QED BY <1>1, <1>4, <2>1, <2>2 DEF Holding
<1>5. CASE PublishPin(p)
  BY <1>2, <1>4, <1>5 DEF PublishPin, Ends, Holding
<1>6. ASSUME pc[p] = "committed", FileAfterFailure
      PROVE  file' \in {pin, revision} /\ revision = pin + 1
  BY <1>6 DEF FileAfterFailure
<1>7. CASE WriteFails(p)
  BY <1>2, <1>4, <1>6, <1>7 DEF WriteFails, Ends, Holding
<1>8. CASE PublishFails(p)
  <2>1. /\ pc[p] = "written" /\ UNCHANGED <<file, torn>>
        /\ pc' = [pc EXCEPT ![p] = "idle"]
    BY <1>8 DEF PublishFails, Ends
  <2>2. \/ pin' \in {pin, revision} /\ late' = late
        \/ late' = [late EXCEPT ![p] = revision] /\ pin' = pin
    BY <1>8 DEF PublishFails
  <2>3. ~torn /\ file = revision /\ revision = pin + 1 /\ \A q \in Procs : late[q] = 0
    BY <1>2, <2>1 DEF Holding
  <2>4. QED BY <1>4, <2>1, <2>2, <2>3
<1>9. CASE LatePublish(p)
  <2>1. /\ late[p] # 0 /\ pin' = late[p] /\ late' = [late EXCEPT ![p] = 0]
        /\ UNCHANGED <<file, torn, pc>>
    BY <1>9 DEF LatePublish, guardVars
  <2>2. late[p] = revision /\ file = revision /\ LockFree BY <2>1
  <2>3. \A q \in Procs : pc'[q] \notin Holding /\ late'[q] = 0
    BY <2>1, <2>2 DEF LockFree
  <2>4. QED BY <1>1, <2>1, <2>2, <2>3 DEF Holding
<1>10. CASE Crash(p)
  <2>1. pc' = [pc EXCEPT ![p] = "closed"] /\ late' = [late EXCEPT ![p] = 0]
    BY <1>10 DEF Crash
  <2>2. CASE pc[p] = "committed"
    BY <1>2, <1>4, <1>6, <1>10, <2>1, <2>2 DEF Crash, Holding
  <2>3. CASE pc[p] = "written"
    BY <1>2, <1>4, <1>10, <2>1, <2>3 DEF Crash, Holding
  <2>4. CASE pc[p] \notin {"committed", "written"}
    <3>1. UNCHANGED <<file, torn, pin>> BY <1>10, <2>4 DEF Crash
    <3>2. ASSUME NEW q \in Procs
          PROVE  /\ pc'[q] \in Holding => pc'[q] = pc[q]
                 /\ late'[q] # 0 => late'[q] = late[q]
      BY <2>1 DEF Holding
    <3>3. LockFree => LockFree'
      <4> HIDE DEF TypeOK, AnchorsTrail
      <4>1. QED BY <3>2 DEF LockFree
    <3>4. Intact => Intact' BY <1>1, <3>1 DEF Intact
    <3>5. pin' <= file' /\ file' <= revision' /\ revision' <= pin' + 1 BY <1>1, <3>1
    <3>6. ASSUME NEW q \in Procs
          PROVE  /\ pc'[q] = "committed" => ~torn' /\ file' = pin' /\ revision' = pin' + 1
                 /\ pc'[q] = "written" => ~torn' /\ file' = revision' /\ revision' = pin' + 1
                 /\ pc'[q] = "fenced" => Intact'
      BY <1>1, <3>1, <3>2, <3>4 DEF Holding
    <3>7. ASSUME NEW q \in Procs, late'[q] # 0
          PROVE  /\ late'[q] = revision' /\ file' = revision' /\ revision' = pin' + 1
                 /\ LockFree' /\ \A r \in Procs : late'[r] # 0 => r = q
      BY <1>1, <3>1, <3>2, <3>3, <3>7
    <3>8. QED BY <3>5, <3>6, <3>7
  <2>5. QED BY <2>2, <2>3, <2>4
<1>11. QED BY <1>3, <1>5, <1>7, <1>8, <1>9, <1>10 DEF Anchors

\* Every step keeps the anchors within one transaction of the database.
LEMMA AnchorStep ==
    ASSUME TypeOK, OneHolder, AnchorsTrail, [Next]_vars
    PROVE  AnchorsTrail'
<1>1. CASE Tick \/ UNCHANGED vars
  BY <1>1 DEF Tick, vars, dbVars, anchorVars, guardVars, AnchorsTrail, LockFree, Intact
<1>2. ASSUME NEW p \in Procs, Quiet(p) PROVE AnchorsTrail'
  BY <1>2, QuietEffect, AnchorsUntouched DEF Holding
<1>3. ASSUME NEW p \in Procs, Fences(p) PROVE AnchorsTrail'
  <2>1. /\ UNCHANGED <<dbVars, anchorVars>> /\ Enters
        /\ pc' = [pc EXCEPT ![p] = "fenced"]
    BY <1>3 DEF Fences, EnterFence, Begin
  <2>2. QED BY <2>1, AnchorsUntouched
<1>4. ASSUME NEW p \in Procs, Transacts(p) PROVE AnchorsTrail'
  BY <1>4, TransactAnchors
<1>5. ASSUME NEW p \in Procs, Anchors(p) PROVE AnchorsTrail'
  BY <1>5, AnchorAnchors
<1>6. QED BY <1>1, <1>2, <1>3, <1>4, <1>5, StepKinds

-----------------------------------------------------------------------------
(* Claims and receipts *)

\* The three transactions, as changes of the database.
LEMMA TransactData ==
    ASSUME TypeOK, NEW p \in Procs, Transacts(p)
    PROVE  \E g \in Grants :
              \/ /\ job[p].grant = g /\ job[p].time \in Time
                 /\ revocations' = [revocations EXCEPT ![g] = @ \cup {job[p].time}]
                 /\ UNCHANGED <<claims, receipts>>
              \/ /\ CanClaim(g) /\ claims' = [claims EXCEPT ![g] = now]
                 /\ UNCHANGED <<receipts, revocations>>
              \/ \E result \in Results :
                    /\ CanConclude(g)
                    /\ receipts' = [receipts EXCEPT ![g] = [result |-> result, at |-> now]]
                    /\ UNCHANGED <<claims, revocations>>
<1>1. CASE Register(p)
  <2>1. job[p].grant \in Grants /\ job[p].time \in Time
    BY <1>1 DEF Register, TypeOK, Jobs
  <2>2. QED BY <1>1, <2>1 DEF Register
<1>2. ASSUME NEW g \in Grants, Claim(p, g) PROVE CanClaim(g) /\ claims' = [claims EXCEPT ![g] = now]
                 /\ UNCHANGED <<receipts, revocations>>
  BY <1>2 DEF Claim
<1>3. ASSUME NEW g \in Grants, NEW result \in Results, Conclude(p, g, result)
      PROVE  /\ CanConclude(g)
             /\ receipts' = [receipts EXCEPT ![g] = [result |-> result, at |-> now]]
             /\ UNCHANGED <<claims, revocations>>
  BY <1>3 DEF Conclude
<1>4. QED BY <1>1, <1>2, <1>3 DEF Transacts

\* Outside transactions the database does not change; the clock only advances.
LEMMA Untouched ==
    ASSUME TypeOK, [Next]_vars
    PROVE  \/ UNCHANGED dbVars /\ now' \in {now, now + 1}
           \/ /\ now' = now
              /\ \E p \in Procs : Transacts(p)
<1>1. CASE Tick \/ UNCHANGED vars BY <1>1 DEF Tick, vars
<1>2. ASSUME NEW p \in Procs, Quiet(p) \/ Anchors(p) \/ Fences(p)
      PROVE  UNCHANGED dbVars /\ now' = now
  BY <1>2, QuietEffect, AnchorEffect DEF Fences, EnterFence
<1>3. ASSUME NEW p \in Procs, Transacts(p) PROVE now' = now
  BY <1>3, TransactEffect
<1>4. QED BY <1>1, <1>2, <1>3, StepKinds

\* Every step keeps claims unique and in time, and receipts in their claim's window.
LEMMA ClaimsStep ==
    ASSUME TypeOK, ClaimsOK, [Next]_vars
    PROVE  ClaimsOK'
<1> USE DEF ClaimsOK
<1>1. CASE UNCHANGED dbVars /\ now' \in {now, now + 1}
  <2>1. now \in Nat /\ \A g \in Grants : claims[g] # None => claims[g] \in Nat
    BY DEF TypeOK, Time
  <2>2. QED BY <1>1, <2>1 DEF dbVars
<1>2. ASSUME now' = now, NEW p \in Procs, Transacts(p)
      PROVE  ClaimsOK'
  <2> PICK g \in Grants :
              \/ UNCHANGED <<claims, receipts>>
              \/ /\ CanClaim(g) /\ claims' = [claims EXCEPT ![g] = now]
                 /\ UNCHANGED <<receipts, revocations>>
              \/ \E result \in Results :
                    /\ CanConclude(g)
                    /\ receipts' = [receipts EXCEPT ![g] = [result |-> result, at |-> now]]
                    /\ UNCHANGED <<claims, revocations>>
    BY <1>2, TransactData
  <2>1. CASE UNCHANGED <<claims, receipts>> BY <1>2, <2>1
  <2>2. CASE CanClaim(g) /\ claims' = [claims EXCEPT ![g] = now] /\ UNCHANGED receipts
    <3>1. \A h \in Grants : Rival(g, h) => claims[h] = None BY <2>2 DEF CanClaim
    <3>2. \A h \in Grants : Rival(g, h) <=> Rival(h, g) BY DEF Rival
    <3>3. claims[g] = None /\ receipts[g] = None BY <3>1 DEF Rival
    <3>4. \A h \in Grants : claims'[h] = IF h = g THEN now ELSE claims[h]
      BY <2>2 DEF TypeOK
    <3>5. \A h, k \in Grants :
             Rival(h, k) /\ claims'[h] # None /\ claims'[k] # None => h = k
      BY <3>1, <3>2, <3>4
    <3>6. Issued[g] <= now /\ now < Expiry[g] /\ now <= now
      BY <2>2 DEF CanClaim, TypeOK, Time
    <3>7. QED BY <1>2, <2>2, <3>3, <3>4, <3>5, <3>6
  <2>3. ASSUME NEW result \in Results, CanConclude(g), UNCHANGED claims,
               receipts' = [receipts EXCEPT ![g] = [result |-> result, at |-> now]]
        PROVE  ClaimsOK'
    <3>1. receipts'[g].at = now /\ \A h \in Grants \ {g} : receipts'[h] = receipts[h]
      BY <2>3 DEF TypeOK
    <3>2. QED BY <1>2, <2>3, <3>1 DEF CanConclude
  <2>4. QED BY <2>1, <2>2, <2>3
<1>3. QED BY <1>1, <1>2, Untouched

-----------------------------------------------------------------------------
(* Fences and reads *)

\* What the store has recorded it never takes back, and any change of it shows in its
\* revision.
LEMMA NothingUndone ==
    ASSUME TypeOK, [Next]_vars
    PROVE  /\ \A g \in Grants :
                 /\ claims[g] # None => claims'[g] = claims[g]
                 /\ receipts[g] # None => receipts'[g] = receipts[g]
                 /\ revocations[g] \subseteq revocations'[g]
           /\ revision' >= revision
           /\ revision' = revision => UNCHANGED dbVars
<1>1. CASE UNCHANGED dbVars BY <1>1 DEF TypeOK, dbVars
<1>2. ASSUME NEW p \in Procs, Transacts(p)
      PROVE  /\ \A g \in Grants :
                 /\ claims[g] # None => claims'[g] = claims[g]
                 /\ receipts[g] # None => receipts'[g] = receipts[g]
                 /\ revocations[g] \subseteq revocations'[g]
             /\ revision' = revision + 1
  <2>1. revision' = revision + 1 BY <1>2, TransactEffect
  <2>2. PICK g \in Grants :
              \/ /\ job[p].grant = g /\ job[p].time \in Time
                 /\ revocations' = [revocations EXCEPT ![g] = @ \cup {job[p].time}]
                 /\ UNCHANGED <<claims, receipts>>
              \/ /\ CanClaim(g) /\ claims' = [claims EXCEPT ![g] = now]
                 /\ UNCHANGED <<receipts, revocations>>
              \/ \E result \in Results :
                    /\ CanConclude(g)
                    /\ receipts' = [receipts EXCEPT ![g] = [result |-> result, at |-> now]]
                    /\ UNCHANGED <<claims, revocations>>
    BY <1>2, TransactData
  <2>3. CanClaim(g) => claims[g] = None BY DEF CanClaim, Rival
  <2>4. CanConclude(g) => receipts[g] = None BY DEF CanConclude
  <2>5. QED BY <2>1, <2>2, <2>3, <2>4 DEF TypeOK
<1>3. revision \in Nat BY DEF TypeOK
<1>4. QED BY <1>1, <1>2, <1>3, Untouched

\* A step of p leaves the calls of the other processes where they are.
LEMMA OthersAlone ==
    ASSUME TypeOK, NEW p \in Procs, Quiet(p) \/ Fences(p) \/ Transacts(p) \/ Anchors(p),
           NEW q \in Procs, q # p
    PROVE  pc'[q] = pc[q] /\ job'[q] = job[q] /\ view'[q] = view[q]
<1>1. ASSUME Ends(p) PROVE pc'[q] = pc[q] /\ job'[q] = job[q] /\ view'[q] = view[q]
  BY <1>1 DEF Ends, TypeOK
<1>2. ASSUME NEW phase, NEW g, NEW t, Begin(p, phase, g, t)
      PROVE  pc'[q] = pc[q] /\ job'[q] = job[q]
  BY <1>2 DEF Begin, TypeOK
<1>3. CASE Quiet(p)
  <2>1. CASE Open(p) \/ CheckRevocations(p) \/ FoldReturns(p)
    BY <2>1 DEF Open, CheckRevocations, FoldReturns, TypeOK
  <2>2. CASE \/ RegisterAgain(p) \/ Return(p) \/ TimesOut(p) \/ Refused(p)
             \/ ReadFails(p) \/ LeaveFence(p)
    BY <1>1, <2>2 DEF RegisterAgain, Return, TimesOut, Refused, ReadFails, LeaveFence
  <2>3. ASSUME NEW g \in Grants, NEW t \in Time,
               AskRevocation(p, g, t) \/ CheckClaim(p, g, t)
        PROVE  pc'[q] = pc[q] /\ job'[q] = job[q] /\ view'[q] = view[q]
    BY <1>2, <2>3 DEF AskRevocation, CheckClaim
  <2>4. ASSUME NEW g \in Grants, NEW t \in Time, FoldSnapshot(p, g, t)
        PROVE  pc'[q] = pc[q] /\ job'[q] = job[q] /\ view'[q] = view[q]
    BY <1>2, <2>4 DEF FoldSnapshot, TypeOK
  <2>5. QED BY <1>3, <2>1, <2>2, <2>3, <2>4 DEF Quiet
<1>4. CASE Fences(p) BY <1>2, <1>4 DEF Fences, EnterFence
<1>5. CASE Transacts(p) BY <1>5, TransactEffect DEF TypeOK
<1>6. CASE Anchors(p)
  BY <1>1, <1>6 DEF Anchors, WriteFile, PublishPin, WriteFails, PublishFails,
     LatePublish, Crash, guardVars, TypeOK
<1>7. QED BY <1>3, <1>4, <1>5, <1>6

\* A call is in a fence or between two reads because it was there already or because
\* this step took it there.
LEMMA Arrivals ==
    ASSUME TypeOK, [Next]_vars, NEW q \in Procs,
           pc'[q] \in {"fenced", "checked", "folding"}
    PROVE  \/ pc[q] = pc'[q] /\ job'[q] = job[q] /\ view'[q] = view[q]
           \/ \E g \in Grants, t \in Time :
                 \/ pc'[q] = "fenced" /\ EnterFence(q, g, t)
                 \/ pc'[q] = "checked" /\ CheckClaim(q, g, t)
                 \/ pc'[q] = "folding" /\ FoldSnapshot(q, g, t)
<1>1. CASE Tick \/ UNCHANGED vars BY <1>1 DEF Tick, vars, guardVars
<1>2. ASSUME NEW p \in Procs, p # q, Quiet(p) \/ Fences(p) \/ Transacts(p) \/ Anchors(p)
      PROVE  pc[q] = pc'[q] /\ job'[q] = job[q] /\ view'[q] = view[q]
  BY <1>2, OthersAlone
<1>3. CASE Quiet(q)
  <2>1. ~Ends(q) BY DEF Ends, TypeOK
  <2>2. ~Open(q) /\ ~CheckRevocations(q) /\ ~FoldReturns(q)
    BY DEF Open, CheckRevocations, FoldReturns, TypeOK
  <2>3. PICK g \in Grants, t \in Time :
           AskRevocation(q, g, t) \/ CheckClaim(q, g, t) \/ FoldSnapshot(q, g, t)
    BY <1>3, <2>1, <2>2
    DEF Quiet, RegisterAgain, Return, TimesOut, Refused, ReadFails, LeaveFence
  <2>4. ~AskRevocation(q, g, t) BY DEF AskRevocation, Begin, TypeOK
  <2>5. CASE CheckClaim(q, g, t)
    <3>1. pc'[q] = "checked" BY <2>5 DEF CheckClaim, Begin, TypeOK
    <3>2. QED BY <2>5, <3>1
  <2>6. CASE FoldSnapshot(q, g, t)
    <3>1. pc'[q] = "folding" BY <2>6 DEF FoldSnapshot, Begin, TypeOK
    <3>2. QED BY <2>6, <3>1
  <2>7. QED BY <2>3, <2>4, <2>5, <2>6
<1>4. CASE Fences(q)
  <2> PICK g \in Grants, t \in Time : EnterFence(q, g, t) BY <1>4 DEF Fences
  <2>1. pc'[q] = "fenced" BY DEF EnterFence, Begin, TypeOK
  <2>2. QED BY <2>1
<1>5. CASE Transacts(q)
  <2>1. pc'[q] = "committed" BY <1>5, TransactEffect DEF TypeOK
  <2>2. QED BY <2>1
<1>6. CASE Anchors(q)
  <2>1. ~Ends(q) BY DEF Ends, TypeOK
  <2>2. ~WriteFile(q) /\ ~Crash(q) BY DEF WriteFile, Crash, TypeOK
  <2>3. LatePublish(q)
    BY <1>6, <2>1, <2>2 DEF Anchors, PublishPin, WriteFails, PublishFails
  <2>4. QED BY <2>3 DEF LatePublish, guardVars
<1>7. QED BY <1>1, <1>2, <1>3, <1>4, <1>5, <1>6, StepKinds

\* While a fence is open nobody commits a transaction.
LEMMA FenceExcludes ==
    ASSUME TypeOK, [Next]_vars, NEW q \in Procs, pc[q] = "fenced"
    PROVE  UNCHANGED dbVars
<1>1. ~LockFree BY DEF LockFree, Holding
<1>2. \A p \in Procs : ~Transacts(p) BY <1>1, TransactEffect DEF Enters
<1>3. QED BY <1>2, Untouched

\* Every step keeps what open fences rely on.
LEMMA FencesStep ==
    ASSUME TypeOK, FencesHold, [Next]_vars
    PROVE  FencesHold'
<1> SUFFICES ASSUME NEW q \in Procs, pc'[q] = "fenced"
             PROVE  /\ claims'[job'[q].grant] # None
                    /\ job'[q].time <= Expiry[job'[q].grant]
                    /\ \A from \in revocations'[job'[q].grant] : from >= job'[q].time
  BY DEF FencesHold
<1>1. CASE pc[q] = "fenced" /\ job'[q] = job[q]
  BY <1>1, FenceExcludes DEF FencesHold, dbVars
<1>2. ASSUME NEW g \in Grants, NEW t \in Time, EnterFence(q, g, t)
      PROVE  /\ claims'[job'[q].grant] # None
             /\ job'[q].time <= Expiry[job'[q].grant]
             /\ \A from \in revocations'[job'[q].grant] : from >= job'[q].time
  <2>1. job'[q] = [grant |-> g, time |-> t] BY <1>2 DEF EnterFence, Begin, TypeOK
  <2>2. QED BY <1>2, <2>1 DEF EnterFence, FenceOpen, dbVars
<1>3. QED BY <1>1, <1>2, Arrivals

\* Every step keeps what two-read calls rely on.
LEMMA ReadsStep ==
    ASSUME TypeOK, ReadsHold, [Next]_vars
    PROVE  ReadsHold'
<1>1. ASSUME NEW q \in Procs, pc'[q] = "checked"
      PROVE  claims'[job'[q].grant] # None
  <2>1. CASE pc[q] = "checked" /\ job'[q] = job[q]
    <3>1. job[q].grant \in Grants /\ claims[job[q].grant] # None
      BY <2>1 DEF ReadsHold, TypeOK
    <3>2. QED BY <2>1, <3>1, NothingUndone
  <2>2. ASSUME NEW g \in Grants, NEW t \in Time, CheckClaim(q, g, t)
        PROVE  claims'[job'[q].grant] # None
    BY <2>2 DEF CheckClaim, Begin, TypeOK, dbVars
  <2>3. QED BY <1>1, <2>1, <2>2, Arrivals
<1>2. ASSUME NEW q \in Procs, pc'[q] = "folding"
      PROVE  /\ view'[q].revision <= revision'
             /\ view'[q].revision = revision' =>
                   /\ view'[q].authority = AuthorityState(job[q].grant, job[q].time)'
                   /\ view'[q].outcome = OutcomeState(job[q].grant)'
  <2>1. CASE pc[q] = "folding" /\ job'[q] = job[q] /\ view'[q] = view[q]
    <3>1. /\ view[q].revision \in Nat /\ revision \in Nat /\ revision' >= revision
          /\ view[q].revision <= revision /\ revision' \in Nat
      BY <2>1, NothingUndone, TypeStep DEF ReadsHold, TypeOK, Views
    <3>2. ASSUME view'[q].revision = revision'
          PROVE  /\ view'[q].authority = AuthorityState(job[q].grant, job[q].time)'
                 /\ view'[q].outcome = OutcomeState(job[q].grant)'
      <4>1. view[q].revision = revision /\ UNCHANGED dbVars
        BY <2>1, <3>1, <3>2, NothingUndone
      <4>2. /\ view[q].authority = AuthorityState(job[q].grant, job[q].time)
            /\ view[q].outcome = OutcomeState(job[q].grant)
        BY <2>1, <4>1 DEF ReadsHold
      <4>3. QED BY <2>1, <4>1, <4>2 DEF AuthorityState, OutcomeState, RevokedAt, dbVars
    <3>3. QED BY <2>1, <3>1, <3>2
  <2>2. ASSUME NEW g \in Grants, NEW t \in Time, FoldSnapshot(q, g, t)
        PROVE  /\ view'[q].revision <= revision'
               /\ view'[q].revision = revision' =>
                     /\ view'[q].authority = AuthorityState(job[q].grant, job[q].time)'
                     /\ view'[q].outcome = OutcomeState(job[q].grant)'
    <3>1. /\ job'[q] = [grant |-> g, time |-> t] /\ UNCHANGED dbVars
          /\ view'[q] = [revision |-> revision, authority |-> AuthorityState(g, t),
                         outcome |-> OutcomeState(g)]
      BY <2>2 DEF FoldSnapshot, Begin, TypeOK
    <3>2. QED BY <3>1 DEF AuthorityState, OutcomeState, RevokedAt, dbVars, TypeOK
  <2>3. QED BY <1>2, <2>1, <2>2, Arrivals
<1>3. QED BY <1>1, <1>2 DEF ReadsHold

-----------------------------------------------------------------------------
(* Theorems *)

\* A store that create() has made satisfies the invariant,
LEMMA InitHolds == Init => GuardInvariant
<1> SUFFICES ASSUME Init PROVE GuardInvariant OBVIOUS
<1> USE DEF Init
<1>1. NoJob \in Jobs /\ NoView \in Views
  BY BoundAssumption DEF NoJob, NoView, Jobs, Views, Time, AuthorityStates, OutcomeStates
<1>2. TypeOK
  <2>1. 0 \in Time BY BoundAssumption DEF Time
  <2>2. /\ pc \in [Procs -> Phases] /\ late \in [Procs -> Nat]
        /\ job \in [Procs -> Jobs] /\ view \in [Procs -> Views]
    BY <1>1 DEF Phases
  <2>3. /\ claims \in [Grants -> Time \cup {None}]
        /\ receipts \in [Grants -> Receipts \cup {None}]
        /\ revocations \in [Grants -> SUBSET Time]
    OBVIOUS
  <2>4. \A p \in Procs : pc[p] = "closed" OBVIOUS
  <2>5. QED BY <2>1, <2>2, <2>3, <2>4 DEF TypeOK
<1>3. OneHolder BY DEF OneHolder, Holding
<1>4. AnchorsTrail BY DEF AnchorsTrail
<1>5. ClaimsOK BY DEF ClaimsOK
<1>6. FencesHold /\ ReadsHold BY DEF FencesHold, ReadsHold
<1>7. QED BY <1>2, <1>3, <1>4, <1>5, <1>6 DEF GuardInvariant

\* and every step of every guard keeps it.
LEMMA GuardStep == GuardInvariant /\ [Next]_vars => GuardInvariant'
BY TypeStep, HolderStep, AnchorStep, ClaimsStep, FencesStep, ReadsStep DEF GuardInvariant

\* The store of external_actions.py is consistent in every state of every number of
\* guards: between the commit, the anchor file and the pin, after a crash or a failed
\* write in any of them, and while fences and two-read calls are open.
THEOREM GuardCorrect == Spec => []GuardInvariant
BY InitHolds, GuardStep, PTL DEF Spec

\* A caller inside dispatch_fence that keeps to its limit mutates under a grant that is
\* claimed, unexpired and not revoked, at every instant of its window.
THEOREM MutationWindowCorrect == Spec => []MutationWindowIsClean
<1>1. GuardInvariant => MutationWindowIsClean
  <2> SUFFICES ASSUME GuardInvariant, NEW p \in Procs, pc[p] = "fenced", now < job[p].time
               PROVE  /\ claims[job[p].grant] # None
                      /\ now < Expiry[job[p].grant]
                      /\ ~RevokedAt(job[p].grant, now)
    BY DEF MutationWindowIsClean
  <2>1. /\ claims[job[p].grant] # None
        /\ job[p].time <= Expiry[job[p].grant]
        /\ \A from \in revocations[job[p].grant] : from >= job[p].time
    BY DEF GuardInvariant, FencesHold
  <2>2. /\ job[p].grant \in Grants /\ job[p].time \in Nat /\ now \in Nat
        /\ Expiry[job[p].grant] \in Nat
        /\ \A from \in revocations[job[p].grant] : from \in Nat
    BY GrantAssumption DEF GuardInvariant, TypeOK, Jobs, Time
  <2>3. QED BY <2>1, <2>2 DEF RevokedAt
<1>2. QED BY <1>1, GuardCorrect, PTL

\* No step lowers the external pin, the publication of an abandoned callback included
\* (_write_anchor, _bounded_external_store_callback).
THEOREM PinCorrect == Spec => PinNeverFallsBack
<1>1. GuardInvariant /\ [Next]_vars => pin' >= pin
  <2> SUFFICES ASSUME GuardInvariant, [Next]_vars PROVE pin' >= pin OBVIOUS
  <2>1. /\ pin \in Nat /\ revision \in Nat /\ file \in Nat /\ pin <= revision
        /\ \A p \in Procs : late[p] # 0 => late[p] = revision
    BY DEF GuardInvariant, TypeOK, AnchorsTrail
  <2>2. CASE UNCHANGED pin BY <2>1, <2>2
  <2>3. ASSUME NEW p \in Procs, Quiet(p) \/ Fences(p) \/ Transacts(p) PROVE UNCHANGED pin
    BY <2>3, QuietEffect, TransactEffect DEF Fences, EnterFence, anchorVars
  <2>4. ASSUME NEW p \in Procs, Anchors(p) PROVE pin' \in {pin, revision}
    BY <2>1, <2>4 DEF Anchors, WriteFile, PublishPin, WriteFails, PublishFails,
       LatePublish, Crash
  <2>5. CASE Tick \/ UNCHANGED vars BY <2>5, <2>2 DEF Tick, vars, anchorVars
  <2>6. QED BY <2>1, <2>2, <2>3, <2>4, <2>5, StepKinds
<1>2. QED BY <1>1, GuardCorrect, PTL DEF Spec, PinNeverFallsBack

\* An answer is given by the second of the two reads only.
LEMMA Answers ==
    ASSUME TypeOK, [Next]_vars, NEW p \in Procs,
           pc'[p] \in {"valid", "reported"}, pc'[p] # pc[p]
    PROVE  \/ pc'[p] = "valid" /\ CheckRevocations(p)
           \/ pc'[p] = "reported" /\ FoldReturns(p)
<1>1. CASE Tick \/ UNCHANGED vars BY <1>1 DEF Tick, vars, guardVars
<1>2. ASSUME NEW q \in Procs, q # p, Quiet(q) \/ Fences(q) \/ Transacts(q) \/ Anchors(q)
      PROVE  pc'[p] = pc[p]
  BY <1>2, OthersAlone
<1>3. ~Ends(p) BY DEF Ends, TypeOK
<1>4. \A x \in {"revoking", "fenced", "checked", "folding"}, g \in Grants, t \in Time :
         ~Begin(p, x, g, t)
  BY DEF Begin, TypeOK
<1>5. CASE Quiet(p)
  <2>1. ~Open(p) BY DEF Open, TypeOK
  <2>2. \A g \in Grants, t \in Time :
           ~AskRevocation(p, g, t) /\ ~CheckClaim(p, g, t) /\ ~FoldSnapshot(p, g, t)
    BY <1>4 DEF AskRevocation, CheckClaim, FoldSnapshot
  <2>3. CheckRevocations(p) \/ FoldReturns(p)
    BY <1>3, <1>5, <2>1, <2>2
    DEF Quiet, RegisterAgain, Return, TimesOut, Refused, ReadFails, LeaveFence
  <2>4. CheckRevocations(p) => pc'[p] = "valid" BY DEF CheckRevocations, TypeOK
  <2>5. FoldReturns(p) => pc'[p] = "reported" BY DEF FoldReturns, TypeOK
  <2>6. QED BY <2>3, <2>4, <2>5
<1>6. CASE Fences(p) BY <1>4, <1>6 DEF Fences, EnterFence
<1>7. CASE Transacts(p)
  <2>1. pc'[p] = "committed" BY <1>7, TransactEffect DEF TypeOK
  <2>2. QED BY <2>1
<1>8. CASE Anchors(p)
  <2>1. ~WriteFile(p) /\ ~Crash(p) BY DEF WriteFile, Crash, TypeOK
  <2>2. LatePublish(p)
    BY <1>3, <1>8, <2>1 DEF Anchors, PublishPin, WriteFails, PublishFails
  <2>3. QED BY <2>2 DEF LatePublish, guardVars
<1>9. QED BY <1>1, <1>2, <1>5, <1>6, <1>7, <1>8, StepKinds

\* verifies_claim and fold_action_journal read twice and unlock in between, and still
\* answer only what the store holds when they answer.
THEOREM AnswersCorrect == Spec => AnswersAreCurrent
<1>1. GuardInvariant /\ [Next]_vars => \A p \in Procs : AnswerIsCurrent(p)
  <2> SUFFICES ASSUME GuardInvariant, [Next]_vars, NEW p \in Procs PROVE AnswerIsCurrent(p)
    OBVIOUS
  <2> USE DEF GuardInvariant
  <2>1. ASSUME pc[p] = "checked", pc'[p] = "valid"
        PROVE  /\ claims'[job[p].grant] # None
               /\ ~\E from \in revocations'[job[p].grant] : from <= job[p].time
    <3>1. CheckRevocations(p) BY <2>1, Answers
    <3>2. StillAuthorized(p) /\ UNCHANGED <<claims, revocations>>
      BY <3>1 DEF CheckRevocations, dbVars
    <3>3. QED BY <2>1, <3>2 DEF ReadsHold, StillAuthorized, RevokedAt
  <2>2. ASSUME pc[p] = "folding", pc'[p] = "reported"
        PROVE  /\ view[p].authority = AuthorityState(job[p].grant, job[p].time)'
               /\ view[p].outcome = OutcomeState(job[p].grant)'
    <3>1. FoldReturns(p) BY <2>2, Answers
    <3>2. UNCHANGED dbVars /\ UNCHANGED job BY <3>1 DEF FoldReturns
    <3>3. /\ view[p].authority = AuthorityState(job[p].grant, job[p].time)
          /\ view[p].outcome = OutcomeState(job[p].grant)
      BY <2>2, <3>1 DEF FoldReturns, IsCurrent, ReadsHold
    <3>4. QED BY <3>2, <3>3 DEF AuthorityState, OutcomeState, RevokedAt, dbVars
  <2>3. QED BY <2>1, <2>2 DEF AnswerIsCurrent
<1>2. QED BY <1>1, GuardCorrect, PTL DEF Spec, AnswersAreCurrent

\* The durable claims, receipts and revocations implement the one-shot register: every
\* transaction is one of its operations and no other step, crash or late callback is.
THEOREM OnceOnlyCorrect == Spec => ImplementsOnceOnly
<1> USE DEF OneShot!vars
<1>1. Init => OneShot!Init BY DEF Init, OneShot!Init
<1>2. TypeOK /\ [Next]_vars => [OneShot!Next]_(OneShot!vars)
  <2> SUFFICES ASSUME TypeOK, [Next]_vars PROVE [OneShot!Next]_(OneShot!vars)
    OBVIOUS
  <2>1. CASE UNCHANGED dbVars BY <2>1 DEF dbVars
  <2>2. ASSUME NEW p \in Procs, Transacts(p) PROVE OneShot!Next
    <3> PICK g \in Grants :
              \/ /\ job[p].grant = g /\ job[p].time \in Time
                 /\ revocations' = [revocations EXCEPT ![g] = @ \cup {job[p].time}]
                 /\ UNCHANGED <<claims, receipts>>
              \/ /\ CanClaim(g) /\ claims' = [claims EXCEPT ![g] = now]
                 /\ UNCHANGED <<receipts, revocations>>
              \/ \E result \in Results :
                    /\ CanConclude(g)
                    /\ receipts' = [receipts EXCEPT ![g] = [result |-> result, at |-> now]]
                    /\ UNCHANGED <<claims, revocations>>
      BY <2>2, TransactData
    <3>1. now \in Time /\ \A from \in revocations[g] : now \in Nat /\ from \in Nat
      BY DEF TypeOK, Time
    <3>2. ASSUME job[p].time \in Time, UNCHANGED <<claims, receipts>>,
                 revocations' = [revocations EXCEPT ![g] = @ \cup {job[p].time}]
          PROVE  OneShot!Withdraw(g, job[p].time)
      BY <3>2 DEF OneShot!Withdraw
    <3>3. ASSUME CanClaim(g), claims' = [claims EXCEPT ![g] = now],
                 UNCHANGED <<receipts, revocations>>
          PROVE  OneShot!Take(g, now)
      <4>1. claims[g] = None /\ \A h \in Grants : Rival(g, h) => claims[h] = None
        BY <3>3 DEF CanClaim, Rival
      <4>2. \A h \in Grants : <<g, h>> \in RivalPairs => Rival(g, h) BY DEF RivalPairs
      <4>3. \A from \in revocations[g] : now < from
        BY <3>1, <3>3 DEF CanClaim, RevokedAt
      <4>4. QED BY <3>3, <4>1, <4>2, <4>3 DEF OneShot!Take
    <3>4. ASSUME NEW result \in Results, CanConclude(g), UNCHANGED <<claims, revocations>>,
                 receipts' = [receipts EXCEPT ![g] = [result |-> result, at |-> now]]
          PROVE  /\ [result |-> result, at |-> now] \in Receipts
                 /\ OneShot!Finish(g, [result |-> result, at |-> now])
      <4>1. [result |-> result, at |-> now] \in Receipts BY <3>1 DEF Receipts
      <4>2. QED BY <3>4, <4>1 DEF CanConclude, OneShot!Finish
    <3>5. QED BY <3>1, <3>2, <3>3, <3>4 DEF OneShot!Next
  <2>3. QED BY <2>1, <2>2, Untouched
<1>3. Spec => []TypeOK BY GuardCorrect, PTL DEF GuardInvariant
<1>4. QED BY <1>1, <1>2, <1>3, PTL DEF Spec, ImplementsOnceOnly, OneShot!Spec
=============================================================================
