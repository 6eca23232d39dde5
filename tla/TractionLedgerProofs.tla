-------------------------- MODULE TractionLedgerProofs --------------------------
(***************************************************************************)
(* What the traction ledger keeps through every failure, for any number of *)
(* processes, any observations and settlements and any times: the anchor   *)
(* never goes back, an answer is a finalized row, the ledger is a          *)
(* TimelyLog, settled history is kept, a recommendation of scale review is *)
(* earned, and the ledger can be opened again.                             *)
(*                                                                         *)
(* The inductive invariant says that targets and their finalizations       *)
(* alternate in the order of time, that the anchor is at most one row      *)
(* behind, and that a callback which outlived its time-out can publish     *)
(* nothing but the last row: until it ends, nobody can commit.             *)
(***************************************************************************)
EXTENDS TractionLedger, SequenceTheorems, FiniteSetTheorems, WellFoundedInduction, TLAPS

IsLog == \E S : log \in Seq(S)

Alternates == \A k \in Nat :
    /\ 2 * k + 1 <= Len(log) => IsTarget(2 * k + 1)
    /\ 0 < k /\ 2 * k <= Len(log) => ~IsTarget(2 * k)

RowsFollow == \A i \in 1..Len(log) :
    /\ log[i].at \in Nat
    /\ i > 1 => log[i - 1].at <= log[i].at
    /\ ~IsTarget(i) => log[i].item = Verdict(log[i].at, log[i - 1])

AnchorIsNear ==
    /\ anchor \in Nat /\ prior \in Nat
    /\ anchor \in {Len(log), prior} /\ Len(log) \in {prior, prior + 1}
    /\ worker.owner # None => worker.revision \in {0, Len(log)}

CallHolds(p) ==
    /\ pc[p] \in Holding <=> holder = p
    /\ pc[p] \in {"publish", "stamp", "ready"} => AnchorFree
    /\ pc[p] = "stamp" => Anchored /\ Pending
    /\ pc[p] = "ready" => Anchored /\ ~Pending
    /\ appended[p] => log # <<>>
CallsHold ==
    /\ pc \in [Procs -> Phases] /\ appended \in [Procs -> BOOLEAN]
    /\ \A p \in Procs : CallHolds(p)

LedgerInv == IsLog /\ Alternates /\ RowsFollow /\ AnchorIsNear /\ CallsHold

-----------------------------------------------------------------------------
(* Rows *)

\* The length of the ledger.
LEMMA Lengths ==
    ASSUME IsLog
    PROVE  Len(log) \in Nat /\ DOMAIN log = 1..Len(log) /\ (log = <<>> <=> Len(log) = 0)
<1> PICK S : log \in Seq(S)
  BY DEF IsLog
<1>1. Len(log) \in Nat /\ DOMAIN log = 1..Len(log)
  BY LenProperties
<1>2. log = <<>> <=> Len(log) = 0
  BY EmptySeq
<1> QED
  BY <1>1, <1>2

\* Every length is odd or even.
LEMMA OddOrEven ==
    ASSUME NEW n \in Nat
    PROVE  \E k \in Nat : n = 2 * k \/ n = 2 * k + 1
<1> DEFINE h == n \div 2
<1>1. h \in Nat /\ (n = 2 * h \/ n = 2 * h + 1)
  OBVIOUS
<1> HIDE DEF h
<1> QED
  BY <1>1

\* A ledger whose tail is pending has an odd length, any other an even one.
LEMMA Parity ==
    ASSUME IsLog, Alternates
    PROVE  /\ Pending => \E k \in Nat : Len(log) = 2 * k + 1
           /\ ~Pending => \E k \in Nat : Len(log) = 2 * k
<1> PICK k \in Nat : Len(log) = 2 * k \/ Len(log) = 2 * k + 1
  BY Lengths, OddOrEven
<1>1. Len(log) = 2 * k + 1 => IsTarget(Len(log)) /\ log # <<>>
  BY Lengths DEF Alternates
<1>2. Len(log) = 2 * k => log = <<>> \/ ~IsTarget(Len(log))
  <2>1. k = 0 \/ 0 < k
    OBVIOUS
  <2> QED
    BY <2>1, Lengths DEF Alternates
<1> QED
  BY <1>1, <1>2 DEF Pending

\* What appending a row does to the ledger.
LEMMA Appended ==
    ASSUME IsLog, NEW e, log' = Append(log, e)
    PROVE  /\ IsLog' /\ Len(log') = Len(log) + 1 /\ log'[Len(log) + 1] = e
           /\ \A i \in 1..Len(log) : log'[i] = log[i]
<1> PICK S : log \in Seq(S)
  BY DEF IsLog
<1> DEFINE T == S \cup {e}
<1>1. log \in Seq(T)
  BY SeqMonotonic
<1>2. e \in T
  OBVIOUS
<1> HIDE DEF T
<1>3. log' \in Seq(T) /\ Len(log') = Len(log) + 1 /\ log'[Len(log) + 1] = e
      /\ \A i \in 1..Len(log) : log'[i] = log[i]
  BY <1>1, <1>2, AppendProperties
<1> QED
  BY <1>3 DEF IsLog

\* The anchor is a revision that is there.
LEMMA AnchorReaches ==
    ASSUME LedgerInv
    PROVE  anchor \in Nat /\ anchor <= Len(log)
BY DEF LedgerInv, AnchorIsNear

\* A row that is a target exactly when none waits, no earlier than the last row, and
\* if a finalization, the verdict of the target before it, keeps the rows in shape
\* (_commit_state).
LEMMA RowsGrow ==
    ASSUME IsLog, Alternates, RowsFollow, NEW e, log' = Append(log, e),
           e.at \in Nat, e.at >= LastTime, e.kind # "finalization" <=> ~Pending,
           e.kind = "finalization" => e.item = Verdict(e.at, log[Len(log)])
    PROVE  IsLog' /\ Alternates' /\ RowsFollow'
<1>1. /\ Len(log) \in Nat /\ Len(log') = Len(log) + 1 /\ log'[Len(log) + 1] = e /\ IsLog'
      /\ \A i \in 1..Len(log) : log'[i] = log[i]
  BY Appended, Lengths
<1>2. Alternates'
  <2> SUFFICES ASSUME NEW k \in Nat
               PROVE  /\ 2 * k + 1 <= Len(log') => log'[2 * k + 1].kind # "finalization"
                      /\ 0 < k /\ 2 * k <= Len(log') => log'[2 * k].kind = "finalization"
    BY DEF Alternates, IsTarget
  <2>1. CASE 2 * k + 1 <= Len(log)
    BY <1>1, <2>1 DEF Alternates, IsTarget
  <2>2. CASE 2 * k + 1 = Len(log) + 1
    <3>1. ~Pending
      <4> SUFFICES ASSUME NEW m \in Nat, Len(log) = 2 * m + 1 PROVE FALSE
        BY Parity
      <4> QED
        BY <2>2
    <3>2. 0 < k => 2 * k \in 1..Len(log) /\ log[2 * k].kind = "finalization"
      BY <1>1, <2>2 DEF Alternates, IsTarget
    <3> QED
      BY <1>1, <2>2, <3>1, <3>2
  <2>3. CASE 2 * k = Len(log) + 1
    <3>1. Pending
      <4> SUFFICES ASSUME NEW m \in Nat, Len(log) = 2 * m PROVE FALSE
        BY Parity
      <4> QED
        BY <2>3
    <3> QED
      BY <1>1, <2>3, <3>1
  <2>4. CASE 2 * k > Len(log) + 1
    BY <1>1, <2>4
  <2> QED
    BY <1>1, <2>1, <2>2, <2>3, <2>4
<1>3. RowsFollow'
  <2> SUFFICES ASSUME NEW i \in 1..Len(log')
               PROVE  /\ log'[i].at \in Nat
                      /\ i > 1 => log'[i - 1].at <= log'[i].at
                      /\ log'[i].kind = "finalization" =>
                            log'[i].item = Verdict(log'[i].at, log'[i - 1])
    BY DEF RowsFollow, IsTarget, Verdict
  <2>1. CASE i \in 1..Len(log)
    <3>1. i > 1 => i - 1 \in 1..Len(log)
      BY <1>1, <2>1
    <3>2. i = 1 => IsTarget(i)
      BY <1>1, <2>1 DEF Alternates
    <3> QED
      BY <1>1, <2>1, <3>1, <3>2 DEF RowsFollow, IsTarget
  <2>2. CASE i = Len(log) + 1
    <3>1. i > 1 => log # <<>> /\ Len(log) \in 1..Len(log)
      BY <1>1, <2>2, Lengths
    <3>2. e.kind = "finalization" => i > 1
      <4>1. e.kind = "finalization" => log # <<>>
        BY DEF Pending
      <4> QED
        BY <1>1, <2>2, <4>1, Lengths
    <3>3. log'[i] = e
      BY <1>1, <2>2
    <3>4. i > 1 => log'[i - 1] = log[Len(log)]
      BY <1>1, <2>2, <3>1
    <3>5. i > 1 => log[Len(log)].at <= e.at
      BY <3>1 DEF LastTime, RowsFollow
    <3> QED
      BY <3>2, <3>3, <3>4, <3>5
  <2>3. i \in 1..Len(log) \/ i = Len(log) + 1
    BY <1>1
  <2> QED
    BY <2>1, <2>2, <2>3
<1> QED
  BY <1>1, <1>2, <1>3

-----------------------------------------------------------------------------
(* Steps *)

\* A created ledger is empty and anchored (create).
LEMMA LedgerInit == Init => LedgerInv
<1> SUFFICES ASSUME Init PROVE LedgerInv
  OBVIOUS
<1>1. log \in Seq({}) /\ Len(log) = 0
  BY EmptySeq DEF Init
<1>2. IsLog
  BY <1>1 DEF IsLog
<1>3. Alternates /\ RowsFollow
  BY <1>1 DEF Alternates, RowsFollow
<1>4. AnchorIsNear /\ CallsHold
  BY <1>1, LedgerBounds DEF Init, AnchorIsNear, CallsHold, CallHolds, NoWorker, Phases, Holding
<1> QED
  BY <1>2, <1>3, <1>4 DEF LedgerInv

\* What is said of the rows and their shape depends on the rows alone.
LEMMA RowsStay ==
    ASSUME LedgerInv, UNCHANGED log
    PROVE  IsLog' /\ Alternates' /\ RowsFollow' /\ Pending' = Pending
BY DEF LedgerInv, IsLog, Alternates, RowsFollow, Pending, IsTarget, Verdict

\* A commit by the call that holds the lock file leaves it to publish the new row.
LEMMA CommitStep ==
    ASSUME LedgerInv, NEW p \in Procs, NEW e, Commits(p, e), Anchored,
           pc[p] \in {"stamp", "ready"}, appended' \in [Procs -> BOOLEAN],
           e.at \in Nat, e.at >= LastTime, e.kind # "finalization" <=> ~Pending,
           e.kind = "finalization" => e.item = Verdict(e.at, log[Len(log)])
    PROVE  LedgerInv'
<1>1. /\ log' = Append(log, e) /\ prior' = anchor /\ anchor' = anchor /\ anchor = Len(log)
      /\ pc' = [pc EXCEPT ![p] = "publish"] /\ worker.owner = None
      /\ UNCHANGED <<holder, worker>>
  BY DEF Commits, Goes, AnchorFree, Anchored
<1>2. IsLog' /\ Alternates' /\ RowsFollow'
  BY <1>1, RowsGrow DEF LedgerInv
<1>3. Len(log) \in Nat /\ Len(log') = Len(log) + 1 /\ log' # <<>>
  <2>1. Len(log) \in Nat /\ Len(log') = Len(log) + 1
    BY <1>1, Appended, Lengths DEF LedgerInv
  <2>2. IsLog' => (log' = <<>> <=> Len(log') = 0)
    <3> SUFFICES ASSUME NEW S, log' \in Seq(S) PROVE log' = <<>> <=> Len(log') = 0
      BY DEF IsLog
    <3> QED
      BY EmptySeq
  <2> QED
    BY <1>2, <2>1, <2>2
<1>4. AnchorIsNear'
  BY <1>1, <1>3 DEF AnchorIsNear
<1>5. CallsHold'
  BY <1>1, <1>3 DEF LedgerInv, CallsHold, CallHolds, Holding, Phases, AnchorFree
<1> QED
  BY <1>2, <1>4, <1>5 DEF LedgerInv

\* A call that ends without a commit leaves an anchor that is near, and a callback
\* that hangs can publish the last row or nothing (a return, a refusal, a time-out
\* and a crash).
LEMMA EndStep ==
    ASSUME LedgerInv, NEW p \in Procs, Ends(p), UNCHANGED <<log, prior>>,
           anchor' \in {anchor, Len(log)},
           worker' = worker \/ worker' = NoWorker
               \/ (pc[p] \in Holding /\ worker'.revision \in {0, Len(log)})
    PROVE  LedgerInv'
<1>1. IsLog' /\ Alternates' /\ RowsFollow' /\ Pending' = Pending
  BY RowsStay
<1>2. Len(log) \in Nat
  BY Lengths DEF LedgerInv
<1>3. AnchorIsNear'
  BY <1>2 DEF LedgerInv, AnchorIsNear, NoWorker
<1>4. CallsHold'
  <2>1. /\ pc' = [pc EXCEPT ![p] = "idle"] /\ appended' = [appended EXCEPT ![p] = FALSE]
        /\ holder' = IF holder = p THEN None ELSE holder
    BY DEF Ends, Goes
  <2>2. pc' \in [Procs -> Phases] /\ appended' \in [Procs -> BOOLEAN]
    BY <2>1 DEF LedgerInv, CallsHold, Phases
  <2>3. ASSUME NEW q \in Procs
        PROVE  CallHolds(q)'
    <3>1. /\ pc'[q] \in Holding <=> holder' = q
          /\ appended'[q] => log' # <<>>
      BY <2>1, LedgerBounds DEF LedgerInv, CallsHold, CallHolds, Holding
    <3>2. CASE pc'[q] \in {"publish", "stamp", "ready"}
      <4>1. q # p /\ pc'[q] = pc[q] /\ holder = q /\ pc[p] \notin Holding
        BY <2>1, <3>2 DEF LedgerInv, CallsHold, CallHolds, Holding
      <4>2. worker' = worker \/ worker' = NoWorker
        BY <4>1
      <4>3. worker.owner = None /\ worker'.owner = None
        BY <3>2, <4>1, <4>2 DEF LedgerInv, CallsHold, CallHolds, AnchorFree, NoWorker
      <4>4. (pc[q] = "stamp" => Anchored /\ Pending) /\ (pc[q] = "ready" => Anchored /\ ~Pending)
        BY DEF LedgerInv, CallsHold, CallHolds
      <4> QED
        BY <1>1, <3>1, <4>1, <4>3, <4>4 DEF CallHolds, AnchorFree, Anchored
    <3>3. CASE pc'[q] \notin {"publish", "stamp", "ready"}
      BY <3>1, <3>3 DEF CallHolds
    <3> QED
      BY <3>2, <3>3
  <2> QED
    BY <2>2, <2>3 DEF CallsHold
<1> QED
  BY <1>1, <1>3, <1>4 DEF LedgerInv

\* A call that goes on without a commit, to a phase that the rows and the anchor
\* call for (Enter, Verify and Publish).
LEMMA GoStep ==
    ASSUME LedgerInv, NEW p \in Procs, NEW phase \in Holding,
           pc' = [pc EXCEPT ![p] = phase], holder' = p, holder \in {None, p},
           UNCHANGED <<log, prior, worker, appended>>, anchor' \in {anchor, Len(log)},
           phase # "open" => AnchorFree,
           phase = "stamp" => anchor' = Len(log) /\ Pending,
           phase = "ready" => anchor' = Len(log) /\ ~Pending
    PROVE  LedgerInv'
<1>1. IsLog' /\ Alternates' /\ RowsFollow' /\ Pending' = Pending
  BY RowsStay
<1>2. Len(log) \in Nat
  BY Lengths DEF LedgerInv
<1>3. AnchorIsNear'
  BY <1>2 DEF LedgerInv, AnchorIsNear
<1>4. CallsHold'
  <2>1. pc' \in [Procs -> Phases] /\ appended' \in [Procs -> BOOLEAN]
    BY DEF LedgerInv, CallsHold, Phases, Holding
  <2>2. ASSUME NEW q \in Procs, q # p
        PROVE  pc'[q] = pc[q] /\ pc[q] \notin Holding
    BY <2>2, LedgerBounds DEF LedgerInv, CallsHold, CallHolds
  <2>3. pc'[p] = phase
    BY DEF LedgerInv, CallsHold
  <2>4. ASSUME NEW q \in Procs
        PROVE  CallHolds(q)'
    <3>1. CASE q = p
      BY <1>1, <2>3, <3>1 DEF LedgerInv, CallsHold, CallHolds, AnchorFree, Anchored
    <3>2. CASE q # p
      BY <2>2, <3>2 DEF LedgerInv, CallsHold, CallHolds, Holding
    <3> QED
      BY <3>1, <3>2
  <2> QED
    BY <2>1, <2>4 DEF CallsHold
<1> QED
  BY <1>1, <1>3, <1>4 DEF LedgerInv

\* Every new event is a target, recorded at a clock reading after the last row.
LEMMA RecordsStep ==
    ASSUME LedgerInv, NEW p \in Procs, NEW kind, NEW item, NEW t \in Time, NEW notAfter,
           kind # "finalization", Records(p, kind, item, t, notAfter)
    PROVE  LedgerInv' /\ anchor' = anchor
<1> PICK e : e = Event(kind, item, t, notAfter)
  OBVIOUS
<1>1. /\ Commits(p, e) /\ pc[p] = "ready" /\ t >= LastTime
      /\ appended' = [appended EXCEPT ![p] = TRUE]
  BY DEF Records, Begins
<1>2. Anchored /\ ~Pending /\ appended' \in [Procs -> BOOLEAN]
  BY <1>1 DEF LedgerInv, CallsHold, CallHolds
<1>3. e.at \in Nat /\ e.at >= LastTime /\ e.kind # "finalization"
  BY <1>1, LedgerBounds DEF Event, Time
<1>4. LedgerInv'
  BY <1>1, <1>2, <1>3, CommitStep
<1> QED
  BY <1>1, <1>4 DEF Commits

\* The finalization of a pending tail says whether the second clock reading was
\* before the target's end (_finalize_event).
LEMMA StampStep ==
    ASSUME LedgerInv, NEW p \in Procs, NEW t \in Time, Stamp(p, t)
    PROVE  LedgerInv' /\ anchor' = anchor
<1> PICK e : e = Event("finalization", Verdict(t, log[Len(log)]), t, 0)
  OBVIOUS
<1>1. Commits(p, e) /\ pc[p] = "stamp" /\ t >= LastTime /\ appended' = appended
  BY DEF Stamp
<1>2. Anchored /\ Pending /\ appended' \in [Procs -> BOOLEAN]
  BY <1>1 DEF LedgerInv, CallsHold, CallHolds
<1>3. e.at \in Nat /\ e.at >= LastTime /\ e.kind = "finalization"
      /\ e.item = Verdict(e.at, log[Len(log)])
  BY <1>1, LedgerBounds DEF Event, Time
<1>4. LedgerInv'
  BY <1>1, <1>2, <1>3, CommitStep
<1> QED
  BY <1>1, <1>4 DEF Commits

\* What a step of a call does: it ends, goes on or commits.
LEMMA CallStep ==
    ASSUME LedgerInv, NEW p \in Procs,
           \/ Enter(p) \/ Verify(p) \/ Publish(p) \/ Read(p)
           \/ \E o \in Observations : ReplayObservation(p, o)
           \/ \E e \in Settlements : ReplaySettlement(p, e)
           \/ Fail(p) \/ AnchorHangs(p) \/ ClockHangs(p) \/ Crash(p)
    PROVE  /\ LedgerInv' /\ UNCHANGED log
           /\ anchor' \in {anchor, Len(log)}
<1> USE DEF Goes
<1>1. CASE Enter(p)
  <2>1. LedgerInv'
    BY <1>1, GoStep DEF Enter, Holding
  <2> QED
    BY <1>1, <2>1 DEF Enter
<1>2. CASE Verify(p)
  <2> DEFINE phase == IF ~Anchored THEN "publish" ELSE IF Pending THEN "stamp" ELSE "ready"
  <2>1. pc[p] = "open" /\ holder = p /\ AnchorFree /\ pc' = [pc EXCEPT ![p] = phase]
        /\ UNCHANGED <<log, prior, anchor, holder, worker, appended>>
    BY <1>2 DEF Verify, LedgerInv, CallsHold, CallHolds, Holding
  <2>2. phase \in Holding /\ (phase = "stamp" => anchor = Len(log) /\ Pending)
        /\ (phase = "ready" => anchor = Len(log) /\ ~Pending)
    BY DEF Holding, Anchored
  <2>3. PICK q \in Holding : q = phase
    BY <2>2
  <2> HIDE DEF phase
  <2>4. LedgerInv'
    BY <2>1, <2>2, <2>3, GoStep
  <2> QED
    BY <2>1, <2>4
<1>3. CASE Publish(p)
  <2>1. pc[p] = "publish" /\ AnchorFree /\ anchor' = Len(log) /\ holder = p
        /\ UNCHANGED <<log, prior, worker>>
    BY <1>3 DEF Publish, LedgerInv, CallsHold, CallHolds, Holding
  <2>2. CASE Pending
    <3>1. LedgerInv'
      BY <1>3, <2>1, <2>2, GoStep DEF Publish, Holding
    <3> QED
      BY <2>1, <3>1
  <2>3. CASE ~Pending /\ ~appended[p]
    <3>1. LedgerInv'
      BY <1>3, <2>1, <2>3, GoStep DEF Publish, Holding
    <3> QED
      BY <2>1, <3>1
  <2>4. CASE ~Pending /\ appended[p]
    <3>1. LedgerInv'
      BY <1>3, <2>1, <2>4, EndStep DEF Publish
    <3> QED
      BY <2>1, <3>1
  <2> QED
    BY <2>2, <2>3, <2>4
<1>4. CASE \/ Read(p) \/ Fail(p) \/ ClockHangs(p)
           \/ \E o \in Observations : ReplayObservation(p, o)
           \/ \E e \in Settlements : ReplaySettlement(p, e)
  <2>1. Ends(p) /\ UNCHANGED <<log, prior, worker>> /\ anchor' \in {anchor, Len(log)}
    BY <1>4 DEF Read, Fail, ClockHangs, ReplayObservation, ReplaySettlement, Replays
  <2> QED
    BY <2>1, EndStep
<1>5. CASE AnchorHangs(p)
  <2>1. /\ Ends(p) /\ UNCHANGED <<log, prior, anchor>> /\ pc[p] \in Holding
        /\ worker'.revision \in {0, Len(log)}
    BY <1>5 DEF AnchorHangs
  <2> QED
    BY <2>1, EndStep
<1>6. CASE Crash(p)
  <2>1. /\ Ends(p) /\ UNCHANGED <<log, prior>> /\ worker' \in {worker, NoWorker}
    BY <1>6 DEF Crash
  <2>2. anchor' \in {anchor, Len(log)}
    <3>1. worker.owner = p => worker.revision \in {0, Len(log)}
      BY LedgerBounds DEF LedgerInv, AnchorIsNear
    <3> QED
      BY <1>6, <3>1 DEF Crash
  <2> QED
    BY <2>1, <2>2, EndStep
<1> QED
  BY <1>1, <1>2, <1>3, <1>4, <1>5, <1>6

\* Every step of the ledger keeps the invariant, and moves the anchor, if at all, to
\* the last row there was.
LEMMA LedgerStep ==
    ASSUME LedgerInv, [Next]_vars
    PROVE  LedgerInv' /\ anchor' \in {anchor, Len(log)}
<1>1. ASSUME NEW p \in Procs, NEW t \in Time, NEW o \in Observations, AppendObservation(p, o, t)
      PROVE  LedgerInv' /\ anchor' = anchor
  BY <1>1, RecordsStep DEF AppendObservation
<1>2. ASSUME NEW p \in Procs, NEW t \in Time, NEW e \in Settlements, AppendSettlement(p, e, t)
      PROVE  LedgerInv' /\ anchor' = anchor
  <2> PICK until : until = SettlementNotAfter({e})
    OBVIOUS
  <2> QED
    BY <1>2, RecordsStep DEF AppendSettlement
<1>3. ASSUME NEW p \in Procs, NEW t \in Time, Evaluate(p, t)
      PROVE  LedgerInv' /\ anchor' = anchor
  <2> PICK report : report = Report(ActiveObservations, LatestSettlements)
    OBVIOUS
  <2> PICK until : until = SettlementNotAfter(LatestSettlements)
    OBVIOUS
  <2>1. Records(p, "evaluation", report, t, until)
    BY <1>3 DEF Evaluate
  <2> QED
    BY <2>1, RecordsStep
<1>4. ASSUME UNCHANGED <<log, prior, pc, appended, holder>>, anchor' \in {anchor, Len(log)},
             worker' = worker \/ (worker.owner # None /\ worker'.owner = None)
      PROVE  LedgerInv'
  <2>1. IsLog' /\ Alternates' /\ RowsFollow' /\ Pending' = Pending /\ Len(log) \in Nat
    BY <1>4, RowsStay, Lengths DEF LedgerInv
  <2>2. AnchorIsNear'
    BY <1>4, <2>1 DEF LedgerInv, AnchorIsNear
  <2>3. ASSUME NEW p \in Procs PROVE CallHolds(p)'
    BY <1>4, <2>1 DEF LedgerInv, CallsHold, CallHolds, AnchorFree, Anchored
  <2> QED
    BY <1>4, <2>1, <2>2, <2>3 DEF LedgerInv, CallsHold
<1>5. CASE AnchorReturns
  BY <1>4, <1>5 DEF AnchorReturns, LedgerInv, AnchorIsNear, NoWorker
<1>6. CASE ClockReturns \/ Tick \/ UNCHANGED vars
  BY <1>4, <1>6 DEF ClockReturns, Tick, vars
<1>7. CASE \E p \in Procs, t \in Time :
             \/ Stamp(p, t) \/ Evaluate(p, t)
             \/ \E o \in Observations : AppendObservation(p, o, t)
             \/ \E e \in Settlements : AppendSettlement(p, e, t)
  BY <1>1, <1>2, <1>3, <1>7, StampStep
<1>8. CASE \E p \in Procs :
             \/ Enter(p) \/ Verify(p) \/ Publish(p) \/ Read(p)
             \/ \E o \in Observations : ReplayObservation(p, o)
             \/ \E e \in Settlements : ReplaySettlement(p, e)
             \/ Fail(p) \/ AnchorHangs(p) \/ ClockHangs(p) \/ Crash(p)
  BY <1>8, CallStep
<1> QED
  BY <1>5, <1>6, <1>7, <1>8 DEF Next

-----------------------------------------------------------------------------
(* Theorems *)

\* In every reachable state the inductive invariant holds.
THEOREM LedgerIsSound == Spec => []LedgerInv
<1>1. LedgerInv /\ [Next]_vars => LedgerInv'
  BY LedgerStep
<1> QED
  BY LedgerInit, <1>1, PTL DEF Spec

\* Nothing takes the external anchor back: not a callback that outlived its
\* time-out, nor what a crashed process had asked of the service (_commit_state).
THEOREM AnchorNeverReturns == Spec => AnchorNeverFallsBack
<1>1. LedgerInv /\ [Next]_vars => [anchor' >= anchor]_anchor
  <2> SUFFICES ASSUME LedgerInv, [Next]_vars PROVE anchor' >= anchor
    OBVIOUS
  <2>1. anchor \in Nat /\ anchor <= Len(log)
    BY AnchorReaches
  <2>2. anchor' \in {anchor, Len(log)}
    BY LedgerStep
  <2>3. Len(log) \in Nat
    BY Lengths DEF LedgerInv
  <2> QED
    BY <2>1, <2>2, <2>3
<1> QED
  BY <1>1, LedgerIsSound, PTL DEF Spec, AnchorNeverFallsBack

-----------------------------------------------------------------------------
(* Answers *)

\* Odd revisions are targets, even ones finalizations.
LEMMA Places ==
    ASSUME LedgerInv, NEW k \in Nat
    PROVE  /\ 2 * k + 1 <= Len(log) => IsTarget(2 * k + 1)
           /\ 2 * k + 2 <= Len(log) => ~IsTarget(2 * k + 2)
<1>1. 2 * k + 1 <= Len(log) => IsTarget(2 * k + 1)
  BY DEF LedgerInv, Alternates
<1>2. PICK m \in Nat : m = k + 1
  OBVIOUS
<1>3. 0 < m /\ 2 * m <= Len(log) => ~IsTarget(2 * m)
  BY DEF LedgerInv, Alternates
<1>4. 2 * m = 2 * k + 2 /\ 0 < m
  BY <1>2
<1> QED
  BY <1>1, <1>3, <1>4

\* The place of a target, and of a finalization.
LEMMA PlaceOf ==
    ASSUME LedgerInv, NEW i \in 1..Len(log)
    PROVE  \E k \in Nat : \/ (IsTarget(i) /\ i = 2 * k + 1)
                         \/ (~IsTarget(i) /\ i = 2 * k + 2)
<1>1. Len(log) \in Nat /\ i \in Nat /\ i <= Len(log) /\ 1 <= i
  BY Lengths DEF LedgerInv
<1>2. PICK k \in Nat : i = 2 * k \/ i = 2 * k + 1
  BY <1>1, OddOrEven
<1>3. CASE i = 2 * k + 1
  BY <1>1, <1>3, Places
<1>4. CASE i = 2 * k
  <2>1. PICK m \in Nat : k = m + 1
    <3>1. k - 1 \in Nat /\ k = (k - 1) + 1
      BY <1>1, <1>4
    <3> QED
      BY <3>1
  <2>2. i = 2 * m + 2
    BY <1>4, <2>1
  <2> QED
    BY <1>1, <2>2, Places
<1> QED
  BY <1>2, <1>3, <1>4

\* What a finalization says of the row before it.
LEMMA Finalized ==
    ASSUME LedgerInv, NEW i \in 1..Len(log), ~IsTarget(i)
    PROVE  /\ i - 1 \in 1..Len(log) /\ IsTarget(i - 1)
           /\ Outcome(i - 1) = log[i].item /\ log[i].item \in {"accepted", "expired"}
<1>1. Len(log) \in Nat /\ i <= Len(log)
  BY Lengths DEF LedgerInv
<1>2. PICK k \in Nat : i = 2 * k + 2
  BY PlaceOf
<1>3. i - 1 = 2 * k + 1 /\ i - 1 \in 1..Len(log) /\ i - 1 < Len(log) /\ (i - 1) + 1 = i
  BY <1>1, <1>2
<1>4. IsTarget(i - 1)
  BY <1>1, <1>3, Places
<1>5. log[i].item \in {"accepted", "expired"}
  BY DEF LedgerInv, RowsFollow, Verdict
<1> QED
  BY <1>3, <1>4, <1>5 DEF Outcome

\* A target that does not wait is followed by its finalization.
LEMMA Follows ==
    ASSUME LedgerInv, NEW i \in 1..Len(log), IsTarget(i), ~Pending
    PROVE  i < Len(log) /\ Outcome(i) \in {"accepted", "expired"}
<1>1. Len(log) \in Nat /\ i <= Len(log)
  BY Lengths DEF LedgerInv
<1>2. PICK n \in Nat : Len(log) = 2 * n
  BY Parity DEF LedgerInv
<1>3. PICK k \in Nat : i = 2 * k + 1
  BY PlaceOf
<1>4. 2 * k + 1 < Len(log) /\ 2 * k + 2 <= Len(log) /\ (i + 1) - 1 = i /\ i + 1 \in 1..Len(log)
  BY <1>1, <1>2, <1>3
<1>5. ~IsTarget(i + 1)
  BY <1>3, <1>4, Places
<1>6. Outcome((i + 1) - 1) \in {"accepted", "expired"}
  BY <1>4, <1>5, Finalized
<1> QED
  BY <1>3, <1>4, <1>6

\* An answer is kept by what the steps do to the rows and the anchor.
LEMMA AnswerKept ==
    ASSUME LedgerInv, LedgerInv', AnswersAreFinal, answer' = answer, anchor' >= anchor,
           log' = log \/ \E e : log' = Append(log, e)
    PROVE  AnswersAreFinal'
<1> SUFFICES ASSUME answer # None
             PROVE  \E i \in 1..Len(log') : /\ IsTarget(i)' /\ log'[i].item = answer
                        /\ Outcome(i)' = "accepted" /\ anchor' > i
  BY DEF AnswersAreFinal
<1>1. PICK i \in 1..Len(log) : IsTarget(i) /\ log[i].item = answer
                               /\ Outcome(i) = "accepted" /\ anchor > i
  BY DEF AnswersAreFinal
<1>2. Len(log) \in Nat /\ anchor \in Nat /\ anchor' \in Nat /\ anchor <= Len(log)
  BY Lengths, AnchorReaches DEF LedgerInv, AnchorIsNear
<1>3. i < Len(log) /\ i + 1 \in 1..Len(log) /\ anchor' > i
  BY <1>1, <1>2
<1>4. CASE log' = log
  BY <1>1, <1>3, <1>4 DEF IsTarget, Outcome
<1>5. ASSUME NEW e, log' = Append(log, e)
      PROVE  /\ i \in 1..Len(log') /\ IsTarget(i)' /\ log'[i].item = answer
             /\ Outcome(i)' = "accepted"
  <2>1. /\ Len(log') = Len(log) + 1 /\ log'[i] = log[i] /\ log'[i + 1] = log[i + 1]
    BY <1>3, <1>5, Appended DEF LedgerInv
  <2> QED
    BY <1>1, <1>2, <1>3, <2>1 DEF IsTarget, Outcome
<1> QED
  BY <1>3, <1>4, <1>5

\* What a call returns is a finalized row.
LEMMA AnswerStep ==
    ASSUME LedgerInv, AnswersAreFinal, [Next]_vars
    PROVE  AnswersAreFinal'
<1>1. LedgerInv' /\ anchor' \in {anchor, Len(log)} /\ anchor \in Nat /\ anchor <= Len(log)
      /\ Len(log) \in Nat
  BY LedgerStep, AnchorReaches, Lengths DEF LedgerInv
<1>2. anchor' >= anchor
  BY <1>1
<1>3. CASE answer' = None
  BY <1>3 DEF AnswersAreFinal
<1>4. CASE answer' = answer /\ (log' = log \/ \E e : log' = Append(log, e))
  BY <1>1, <1>2, <1>4, AnswerKept
<1>5. ASSUME UNCHANGED log, NEW i \in 1..Len(log), IsTarget(i), log[i].item = answer',
             Outcome(i) = "accepted", anchor' = Len(log)
      PROVE  AnswersAreFinal'
  <2>1. i < Len(log)
    BY <1>1, <1>5 DEF Outcome
  <2> QED
    BY <1>1, <1>5, <2>1 DEF AnswersAreFinal, IsTarget, Outcome
<1>6. ASSUME NEW p \in Procs, Publish(p), answer' # answer
      PROVE  AnswersAreFinal'
  <2>1. /\ ~Pending /\ appended[p] /\ log[Len(log)].item = "accepted"
        /\ answer' = log[Len(log) - 1].item /\ UNCHANGED log /\ anchor' = Len(log)
    BY <1>6 DEF Publish, FinalizedInTime, Answers
  <2>2. log # <<>> /\ Len(log) \in 1..Len(log)
    BY <1>1, <2>1, Lengths DEF LedgerInv, CallsHold, CallHolds
  <2>3. ~IsTarget(Len(log))
    BY <2>1, <2>2 DEF Pending
  <2>4. /\ Len(log) - 1 \in 1..Len(log) /\ IsTarget(Len(log) - 1)
        /\ Outcome(Len(log) - 1) = "accepted"
    BY <2>1, <2>2, <2>3, Finalized
  <2> QED
    BY <1>5, <2>1, <2>4
<1>7. ASSUME NEW p \in Procs, NEW o \in Observations, ReplayObservation(p, o)
      PROVE  AnswersAreFinal'
  <2>1. PICK i \in SameReport(o) : log[i].item = o
    BY <1>7 DEF ReplayObservation
  <2>2. i \in 1..Len(log) /\ IsTarget(i) /\ Outcome(i) # "expired"
    BY <1>7, <2>1 DEF SameReport, Targets, IsTarget, ReplayObservation, HasExpiredObservation
  <2>3. ~Pending /\ anchor = Len(log) /\ UNCHANGED <<log, anchor>> /\ answer' = o
    BY <1>7 DEF ReplayObservation, Replays, Begins, Answers, LedgerInv, CallsHold, CallHolds, Anchored
  <2>4. Outcome(i) = "accepted"
    BY <2>2, <2>3, Follows
  <2> QED
    BY <1>5, <2>1, <2>2, <2>3, <2>4
<1>8. ASSUME NEW p \in Procs, NEW s \in Settlements, ReplaySettlement(p, s)
      PROVE  AnswersAreFinal'
  <2>1. PICK i \in SameSnapshot(s) : Outcome(i) = "accepted"
    BY <1>8 DEF ReplaySettlement
  <2>2. i \in 1..Len(log) /\ IsTarget(i) /\ log[i].item = s
    BY <2>1 DEF SameSnapshot, Targets, IsTarget
  <2>3. anchor = Len(log) /\ UNCHANGED <<log, anchor>> /\ answer' = s
    BY <1>8 DEF ReplaySettlement, Replays, Begins, Answers, LedgerInv, CallsHold, CallHolds, Anchored
  <2> QED
    BY <1>5, <2>1, <2>2, <2>3
<1>9. ASSUME NEW p \in Procs, NEW t \in Time,
             \/ Stamp(p, t) \/ Evaluate(p, t)
             \/ \E o \in Observations : AppendObservation(p, o, t)
             \/ \E s \in Settlements : AppendSettlement(p, s, t)
      PROVE  answer' = answer /\ \E e : log' = Append(log, e)
  BY <1>9 DEF Stamp, Evaluate, AppendObservation, AppendSettlement, Records, Commits
<1>10. ASSUME NEW p \in Procs,
              Enter(p) \/ Verify(p) \/ Read(p) \/ Fail(p) \/ AnchorHangs(p) \/ ClockHangs(p)
                  \/ Crash(p) \/ (Publish(p) /\ answer' = answer)
       PROVE  answer' \in {answer, None} /\ log' = log
  BY <1>10 DEF Enter, Verify, Read, Fail, AnchorHangs, ClockHangs, Crash, Publish
<1>11. CASE AnchorReturns \/ ClockReturns \/ Tick \/ UNCHANGED vars
  BY <1>4, <1>11 DEF AnchorReturns, ClockReturns, Tick, vars
<1> QED
  BY <1>3, <1>4, <1>6, <1>7, <1>8, <1>9, <1>10, <1>11 DEF Next

\* What append, append_settlement and evaluate have returned was finalized in time,
\* under an anchor that covers the finalization.
THEOREM AnswersWereFinalized == Spec => []AnswersAreFinal
<1>1. Init => AnswersAreFinal
  BY DEF Init, AnswersAreFinal
<1>2. LedgerInv /\ AnswersAreFinal /\ [Next]_vars => AnswersAreFinal'
  BY AnswerStep
<1> QED
  BY <1>1, <1>2, LedgerIsSound, PTL DEF Spec

-----------------------------------------------------------------------------
(* The ledger is a TimelyLog of its targets *)

EntryIn(l, k) ==
    [item |-> l[2 * k - 1].item, opened |-> l[2 * k - 1].at,
     notAfter |-> l[2 * k - 1].notAfter,
     settled |-> IF 2 * k <= Len(l) THEN l[2 * k].at ELSE l[2 * k - 1].at,
     verdict |-> IF 2 * k - 1 < Len(l) THEN l[(2 * k - 1) + 1].item ELSE "pending"]
EntriesIn(l) == [k \in 1..((Len(l) + 1) \div 2) |-> EntryIn(l, k)]

\* The entries are a function of the rows.
LEMMA EntriesAreIn == Entries = EntriesIn(log) /\ Entries' = EntriesIn(log')
BY DEF Entries, EntriesIn, EntryIn, Outcome

\* Rows of so many targets have so many entries.
LEMMA EntriesOf ==
    ASSUME NEW l, NEW n \in Nat, Len(l) = 2 * n \/ Len(l) + 1 = 2 * n, Len(l) \in Nat
    PROVE  /\ EntriesIn(l) = [k \in 1..n |-> EntryIn(l, k)] /\ Len(EntriesIn(l)) = n
           /\ EntriesIn(l) \in Seq({EntryIn(l, k) : k \in 1..n})
<1>1. (Len(l) + 1) \div 2 = n
  <2>1. CASE Len(l) = 2 * n
    BY <2>1
  <2>2. CASE Len(l) + 1 = 2 * n
    BY <2>2
  <2> QED
    BY <2>1, <2>2
<1>2. EntriesIn(l) = [k \in 1..n |-> EntryIn(l, k)]
  BY <1>1 DEF EntriesIn
<1> DEFINE S == {EntryIn(l, k) : k \in 1..n}
<1>3. EntriesIn(l) \in [1..n -> S]
  BY <1>2
<1>4. EntriesIn(l) \in Seq(S)
  <2> HIDE DEF S
  <2> QED
    BY <1>3, SeqDef
<1>5. Len(EntriesIn(l)) = n
  <2> HIDE DEF S
  <2>1. DOMAIN EntriesIn(l) = 1..n /\ DOMAIN EntriesIn(l) = 1..Len(EntriesIn(l))
        /\ Len(EntriesIn(l)) \in Nat
    BY <1>3, <1>4, LenProperties
  <2> QED
    BY <2>1
<1> QED
  BY <1>2, <1>4, <1>5

\* The same of the rows after a step.
LEMMA EntriesNext ==
    ASSUME NEW n \in Nat, Len(log') = 2 * n \/ Len(log') + 1 = 2 * n, Len(log') \in Nat
    PROVE  Entries' = [k \in 1..n |-> EntryIn(log', k)] /\ Len(Entries') = n
<1>1. ASSUME NEW l, Len(l) = 2 * n \/ Len(l) + 1 = 2 * n, Len(l) \in Nat
      PROVE  EntriesIn(l) = [k \in 1..n |-> EntryIn(l, k)] /\ Len(EntriesIn(l)) = n
  BY <1>1, EntriesOf
<1>2. EntriesIn(log') = [k \in 1..n |-> EntryIn(log', k)] /\ Len(EntriesIn(log')) = n
  BY <1>1
<1> QED
  BY <1>2, EntriesAreIn

\* A settled entry does not depend on the rows after it.
LEMMA SettledEntryStays ==
    ASSUME NEW l, NEW m, Len(l) \in Nat, Len(m) = Len(l) + 1,
           \A i \in 1..Len(l) : m[i] = l[i], NEW k \in Nat, 0 < k, 2 * k <= Len(l)
    PROVE  EntryIn(m, k) = EntryIn(l, k)
<1>1. /\ 2 * k \in 1..Len(l) /\ 2 * k - 1 \in 1..Len(l)
      /\ 2 * k <= Len(m) /\ 2 * k - 1 < Len(l) /\ 2 * k - 1 < Len(m)
      /\ (2 * k - 1) + 1 = 2 * k
  OBVIOUS
<1>2. m[2 * k] = l[2 * k] /\ m[2 * k - 1] = l[2 * k - 1]
  BY <1>1
<1> QED
  BY <1>1, <1>2 DEF EntryIn

\* An appended target opens an entry (append, append_settlement, evaluate).
LEMMA RecordOpens ==
    ASSUME LedgerInv, ~Pending, NEW e, log' = Append(log, e), e.at >= LastTime
    PROVE  Abstract!Open
<1>1. PICK n \in Nat : Len(log) = 2 * n
  BY Parity DEF LedgerInv
<1>2. PICK m \in Nat : m = n + 1
  OBVIOUS
<1>3. /\ Len(log) \in Nat /\ Len(log') = 2 * n + 1 /\ log'[2 * n + 1] = e
      /\ \A i \in 1..Len(log) : log'[i] = log[i]
  BY <1>1, Appended DEF LedgerInv
<1>4. /\ Entries = [k \in 1..n |-> EntryIn(log, k)] /\ Len(Entries) = n
      /\ Entries \in Seq({EntryIn(log, k) : k \in 1..n})
  BY <1>1, <1>3, EntriesOf, EntriesAreIn
<1>5. Entries' = [k \in 1..m |-> EntryIn(log', k)] /\ Len(Entries') = m
  <2>1. Len(log') + 1 = 2 * m /\ Len(log') \in Nat
    BY <1>2, <1>3
  <2> QED
    BY <2>1, EntriesNext
<1>6. ASSUME NEW k \in 1..n PROVE Entries'[k] = Entries[k]
  <2>1. EntryIn(log', k) = EntryIn(log, k)
    <3> PICK l : l = log
      OBVIOUS
    <3> PICK l2 : l2 = log'
      OBVIOUS
    <3>1. /\ Len(l) \in Nat /\ Len(l2) = Len(l) + 1 /\ \A i \in 1..Len(l) : l2[i] = l[i]
          /\ k \in Nat /\ 0 < k /\ 2 * k <= Len(l)
      BY <1>1, <1>3
    <3> QED
      BY <3>1, SettledEntryStays
  <2> QED
    BY <1>2, <1>4, <1>5, <2>1
<1>7. SubSeq(Entries', 1, n) = Entries
  <2> DEFINE S == {EntryIn(log, k) : k \in 1..n}
  <2>1. \A i \in 1..n : Entries'[i] \in S
    BY <1>4, <1>6
  <2> HIDE DEF S
  <2>2. SubSeq(Entries', 1, n) \in Seq(S) /\ Len(SubSeq(Entries', 1, n)) = n
        /\ \A i \in 1..n : SubSeq(Entries', 1, n)[i] = Entries'[i]
    BY <2>1, SubSeqProperties
  <2>3. Entries \in Seq(S) /\ Len(Entries) = n
    BY <1>4 DEF S
  <2> QED
    BY <1>6, <2>2, <2>3, SeqEqual
<1>8. Entries'[m] = [item |-> e.item, opened |-> e.at, notAfter |-> e.notAfter,
                     settled |-> e.at, verdict |-> "pending"]
  <2>1. 2 * m - 1 = 2 * n + 1 /\ ~(2 * m <= Len(log')) /\ ~(2 * m - 1 < Len(log'))
    BY <1>2, <1>3
  <2>2. Entries'[m] = EntryIn(log', m)
    BY <1>2, <1>5
  <2> QED
    BY <1>3, <2>1, <2>2 DEF EntryIn
<1>9. CASE n = 0
  <2>1. Entries = <<>>
    BY <1>4, <1>9, EmptySeq
  <2> QED
    BY <1>2, <1>4, <1>5, <1>7, <1>8, <2>1
      DEF Abstract!Open, Abstract!Waits, Abstract!Last, Abstract!Entry
<1>10. CASE 0 < n
  <2>1. 2 * n \in 1..Len(log) /\ 2 * n <= Len(log) /\ 2 * n - 1 < Len(log)
        /\ (2 * n - 1) + 1 = 2 * n
    BY <1>1, <1>10
  <2>2. ~IsTarget(2 * n)
    BY <1>10, <2>1 DEF LedgerInv, Alternates
  <2>3. log[2 * n].item \in {"accepted", "expired"}
    BY <2>1, <2>2, Finalized
  <2>4. log[2 * n].at <= e.at
    BY <1>1, <1>10, Lengths DEF LastTime, LedgerInv
  <2>5. Entries[n].settled = log[2 * n].at /\ Entries[n].verdict # "pending"
    BY <1>4, <1>10, <2>1, <2>3 DEF EntryIn
  <2>6. ~Abstract!Waits /\ Abstract!Last.settled <= e.at
    BY <1>4, <2>4, <2>5 DEF Abstract!Waits, Abstract!Last
  <2>7. Len(Entries) = n /\ Len(Entries') = n + 1 /\ n + 1 = m
    BY <1>2, <1>4, <1>5
  <2> QED
    BY <1>7, <1>8, <2>6, <2>7 DEF Abstract!Open, Abstract!Entry
<1> QED
  BY <1>9, <1>10

\* The finalization settles the entry that waits, by the time it was settled at
\* (_finalize_event).
LEMMA StampSettles ==
    ASSUME LedgerInv, Pending, NEW e, log' = Append(log, e), e.at >= LastTime, e.at \in Nat,
           e.item = Verdict(e.at, log[Len(log)])
    PROVE  Abstract!Settle
<1>1. PICK n \in Nat : Len(log) = 2 * n + 1
  BY Parity DEF LedgerInv
<1>2. PICK m \in Nat : m = n + 1
  OBVIOUS
<1>3. /\ Len(log) \in Nat /\ Len(log') = 2 * n + 2 /\ log'[2 * n + 2] = e
      /\ \A i \in 1..Len(log) : log'[i] = log[i]
  BY <1>1, Appended DEF LedgerInv
<1>4. Entries = [k \in 1..m |-> EntryIn(log, k)] /\ Len(Entries) = m
  <2>1. Len(log) + 1 = 2 * m
    BY <1>1, <1>2
  <2> QED
    BY <1>3, <2>1, EntriesOf, EntriesAreIn
<1>5. Entries' = [k \in 1..m |-> EntryIn(log', k)] /\ Len(Entries') = m
  <2>1. Len(log') = 2 * m /\ Len(log') \in Nat
    BY <1>2, <1>3
  <2> QED
    BY <2>1, EntriesNext
<1>6. ASSUME NEW k \in 1..m, k # m PROVE Entries'[k] = Entries[k]
  <2>1. 0 < k /\ 2 * k <= Len(log) /\ k \in Nat /\ Len(log') = Len(log) + 1
    BY <1>1, <1>2, <1>3, <1>6
  <2>2. EntryIn(log', k) = EntryIn(log, k)
    BY <1>3, <2>1, SettledEntryStays
  <2> QED
    BY <1>4, <1>5, <2>2
<1>7. Entries' = [Entries EXCEPT ![m] = Entries'[m]]
  BY <1>4, <1>5, <1>6
<1> DEFINE target == log[2 * n + 1]
<1>8. 2 * m - 1 = 2 * n + 1 /\ 2 * n + 1 \in 1..Len(log) /\ 2 * m = 2 * n + 2
      /\ (2 * m - 1) + 1 = 2 * m /\ m \in 1..m
  BY <1>1, <1>2
<1>9. Entries[m] = [item |-> target.item, opened |-> target.at, notAfter |-> target.notAfter,
                    settled |-> target.at, verdict |-> "pending"]
  <2>1. ~(2 * m <= Len(log)) /\ ~(2 * m - 1 < Len(log))
    BY <1>1, <1>8
  <2> QED
    BY <1>4, <1>8, <2>1 DEF EntryIn
<1>10. Entries'[m] = [item |-> target.item, opened |-> target.at, notAfter |-> target.notAfter,
                      settled |-> e.at, verdict |-> e.item]
  <2>1. 2 * m <= Len(log') /\ 2 * m - 1 < Len(log') /\ log'[2 * n + 1] = target
    BY <1>3, <1>8
  <2> QED
    BY <1>3, <1>5, <1>8, <2>1 DEF EntryIn
<1>11. target.at <= e.at /\ e.item = IF e.at < target.notAfter THEN "accepted" ELSE "expired"
  <2>1. Len(log) = 2 * n + 1 /\ Len(log) # 0
    BY <1>1
  <2>2. LastTime = target.at
    BY <2>1 DEF LastTime
  <2> QED
    BY <1>1, <2>1, <2>2 DEF Verdict
<1> HIDE DEF target
<1>12. Entries # <<>>
  <2>1. Len(Entries) # 0
    BY <1>2, <1>4
  <2>2. Len(<<>>) = 0
    OBVIOUS
  <2> QED
    BY <2>1, <2>2
<1>13. Abstract!Waits /\ Abstract!Last = Entries[m]
  <2>1. Abstract!Last = Entries[m]
    BY <1>4 DEF Abstract!Last
  <2>2. Entries[m].verdict = "pending"
    BY <1>9
  <2> QED
    BY <1>12, <2>1, <2>2 DEF Abstract!Waits
<1>14. Len(Entries) = m /\ Len(Entries') = m
  BY <1>4, <1>5
<1>15. Entries'[m] = Abstract!Settled(Entries[m], Entries'[m].settled)
  BY <1>9, <1>10, <1>11 DEF Abstract!Settled
<1>16. Entries[m].opened <= Entries'[m].settled
  BY <1>9, <1>10, <1>11
<1> QED
  BY <1>7, <1>13, <1>14, <1>15, <1>16 DEF Abstract!Settle

\* Every step of the ledger opens an entry, settles one, or stutters.
LEMMA StepMaps ==
    ASSUME LedgerInv, [Next]_vars
    PROVE  [Abstract!Next]_Entries
<1>1. ASSUME UNCHANGED log PROVE UNCHANGED Entries
  BY <1>1, EntriesAreIn
<1>2. ASSUME NEW p \in Procs, NEW t \in Time, NEW kind, NEW item, NEW notAfter,
             Records(p, kind, item, t, notAfter)
      PROVE  Abstract!Open
  <2> PICK e : e = Event(kind, item, t, notAfter)
    OBVIOUS
  <2>1. log' = Append(log, e) /\ e.at >= LastTime /\ ~Pending
    BY <1>2 DEF Records, Commits, Begins, Event, LedgerInv, CallsHold, CallHolds
  <2> QED
    BY <2>1, RecordOpens
<1>3. ASSUME NEW p \in Procs, NEW t \in Time, Stamp(p, t)
      PROVE  Abstract!Settle
  <2> PICK e : e = Event("finalization", Verdict(t, log[Len(log)]), t, 0)
    OBVIOUS
  <2>1. log' = Append(log, e) /\ e.at >= LastTime /\ Pending /\ e.at \in Nat
        /\ e.item = Verdict(e.at, log[Len(log)])
    BY <1>3, LedgerBounds DEF Stamp, Commits, Event, Time, LedgerInv, CallsHold, CallHolds
  <2> QED
    BY <2>1, StampSettles
<1>4. ASSUME NEW p \in Procs, NEW t \in Time,
             \/ Evaluate(p, t)
             \/ \E o \in Observations : AppendObservation(p, o, t)
             \/ \E s \in Settlements : AppendSettlement(p, s, t)
      PROVE  Abstract!Open
  <2>1. \E kind, item, notAfter : Records(p, kind, item, t, notAfter)
    BY <1>4 DEF Evaluate, AppendObservation, AppendSettlement
  <2> QED
    BY <1>2, <2>1
<1>5. ASSUME NEW p \in Procs,
             \/ Enter(p) \/ Verify(p) \/ Publish(p) \/ Read(p)
             \/ \E o \in Observations : ReplayObservation(p, o)
             \/ \E e \in Settlements : ReplaySettlement(p, e)
             \/ Fail(p) \/ AnchorHangs(p) \/ ClockHangs(p) \/ Crash(p)
      PROVE  UNCHANGED Entries
  BY <1>1, <1>5, CallStep
<1>6. CASE AnchorReturns \/ ClockReturns \/ Tick \/ UNCHANGED vars
  BY <1>1, <1>6 DEF AnchorReturns, ClockReturns, Tick, vars
<1> QED
  BY <1>3, <1>4, <1>5, <1>6 DEF Next, Abstract!Next

\* Whatever fails, crashes or hangs, the ledger is a TimelyLog: entries are added
\* one at a time, each settled before the next, in the order of time, and accepted
\* only if it was settled before its end.
THEOREM LedgerIsTimely == Spec => ImplementsTimelyLog
<1>1. Init => Abstract!Init
  <2> SUFFICES ASSUME Init PROVE Entries = <<>>
    BY DEF Abstract!Init
  <2> PICK l : l = log
    OBVIOUS
  <2>1. Len(l) = 0
    BY EmptySeq DEF Init
  <2> PICK n \in Nat : n = 0
    OBVIOUS
  <2>2. Len(l) = 2 * n /\ Len(l) \in Nat
    BY <2>1
  <2>3. EntriesIn(l) \in Seq({EntryIn(l, k) : k \in 1..n}) /\ Len(EntriesIn(l)) = n
    BY <2>2, EntriesOf
  <2>4. EntriesIn(l) = <<>>
    <3> PICK S : S = {EntryIn(l, k) : k \in 1..n}
      OBVIOUS
    <3> QED
      BY <2>3, EmptySeq
  <2> QED
    BY <2>4, EntriesAreIn
<1>2. LedgerInv /\ [Next]_vars => [Abstract!Next]_Entries
  BY StepMaps
<1> QED
  BY <1>1, <1>2, LedgerIsSound, PTL DEF Spec, ImplementsTimelyLog, Abstract!Spec

-----------------------------------------------------------------------------
(***************************************************************************)
(* What the accepted settlement snapshots promise: no later one drops an   *)
(* event of an earlier one.  append_settlement compares a snapshot with    *)
(* the newest accepted one only; that is enough because there always is a  *)
(* newest one and it extends all the others.                               *)
(***************************************************************************)

SnapshotsOf(d) == {i \in Targets("settlement") : log[i].item.observation = d}
Accepted(d) == {i \in SnapshotsOf(d) : Outcome(i) = "accepted"}
Newest(k, d) == k \in Accepted(d) /\ \A j \in Accepted(d) : j <= k

HistoryInv ==
    /\ \A i \in Targets("settlement") : log[i].item \in Settlements
    /\ \A d : \A i \in Accepted(d), j \in SnapshotsOf(d) :
        i < j => Extends(log[j].item, log[i].item)
    /\ \A d : Accepted(d) # {} => \E k : Newest(k, d)

\* Rows that are there keep their place, and their outcome unless they waited.
LEMMA RowsKeep ==
    ASSUME LedgerInv, NEW e, log' = Append(log, e)
    PROVE  /\ Len(log) \in Nat /\ Len(log') = Len(log) + 1 /\ log'[Len(log) + 1] = e
           /\ \A i \in 1..Len(log) : log'[i] = log[i]
           /\ \A i \in 1..Len(log) : i < Len(log) => Outcome(i)' = Outcome(i)
<1>1. /\ Len(log) \in Nat /\ Len(log') = Len(log) + 1 /\ log'[Len(log) + 1] = e
      /\ \A i \in 1..Len(log) : log'[i] = log[i]
  BY Appended, Lengths DEF LedgerInv
<1>2. ASSUME NEW i \in 1..Len(log), i < Len(log)
      PROVE  Outcome(i)' = Outcome(i)
  <2>1. i + 1 \in 1..Len(log) /\ i < Len(log')
    BY <1>1, <1>2
  <2>2. log'[i + 1] = log[i + 1]
    BY <1>1, <2>1
  <2> QED
    BY <1>2, <2>1, <2>2 DEF Outcome
<1> QED
  BY <1>1, <1>2

\* A row that is not a settlement leaves the snapshots, and with the rows before it
\* settled their outcomes, as they were.
LEMMA OtherTarget ==
    ASSUME LedgerInv, HistoryInv, ~Pending, NEW e, log' = Append(log, e),
           e.kind # "settlement"
    PROVE  HistoryInv'
<1>1. Targets("settlement")' = Targets("settlement")
  BY RowsKeep DEF Targets
<1>2. ASSUME NEW i \in Targets("settlement")
      PROVE  i \in 1..Len(log) /\ log'[i] = log[i] /\ Outcome(i)' = Outcome(i)
  <2>1. i \in 1..Len(log) /\ IsTarget(i)
    BY DEF Targets, IsTarget
  <2>2. i < Len(log)
    BY <2>1, Follows
  <2> QED
    BY <2>1, <2>2, RowsKeep
<1>3. ASSUME NEW d PROVE SnapshotsOf(d)' = SnapshotsOf(d) /\ Accepted(d)' = Accepted(d)
  <2>1. SnapshotsOf(d)' = SnapshotsOf(d)
    BY <1>1, <1>2 DEF SnapshotsOf
  <2>2. \A i \in SnapshotsOf(d) : Outcome(i)' = Outcome(i)
    BY <1>2 DEF SnapshotsOf
  <2> QED
    BY <2>1, <2>2 DEF Accepted
<1>4. \A d : \A i \in SnapshotsOf(d) : i \in Targets("settlement") /\ log'[i] = log[i]
  BY <1>2 DEF SnapshotsOf
<1>5. \A i \in Targets("settlement")' : log'[i].item \in Settlements
  BY <1>1, <1>2 DEF HistoryInv
<1>6. ASSUME NEW d, NEW i \in Accepted(d)', NEW j \in SnapshotsOf(d)', i < j
      PROVE  Extends(log'[j].item, log'[i].item)
  <2>1. i \in Accepted(d) /\ i \in SnapshotsOf(d) /\ j \in SnapshotsOf(d)
    BY <1>3, <1>6 DEF Accepted
  <2>2. log'[i] = log[i] /\ log'[j] = log[j]
    BY <1>4, <2>1
  <2> QED
    BY <1>6, <2>1, <2>2 DEF HistoryInv
<1>7. ASSUME NEW d, Accepted(d)' # {} PROVE \E k : Newest(k, d)'
  BY <1>3, <1>7 DEF HistoryInv, Newest
<1> QED
  BY <1>5, <1>6, <1>7 DEF HistoryInv

\* A snapshot that extends the newest accepted one of its observation extends them
\* all (append_settlement).
LEMMA ExtendsAll ==
    ASSUME LedgerInv, HistoryInv, NEW e \in Settlements, ExtendsPrevious(e)
    PROVE  \A i \in Accepted(e.observation) : Extends(e, log[i].item)
<1> SUFFICES ASSUME NEW i \in Accepted(e.observation) PROVE Extends(e, log[i].item)
  OBVIOUS
<1> DEFINE d == e.observation
<1>1. PICK k : Newest(k, d)
  BY DEF HistoryInv
<1>2. k \in NewestAccepted([digest |-> d])
  BY <1>1 DEF Newest, NewestAccepted, Accepted, SnapshotsOf, SettlementsOf
<1>3. Extends(e, log[k].item)
  BY <1>2 DEF ExtendsPrevious
<1>4. k \in Targets("settlement") /\ i \in Targets("settlement") /\ i <= k
      /\ k \in SnapshotsOf(d) /\ i \in Nat /\ k \in Nat
  BY <1>1 DEF Newest, Accepted, SnapshotsOf, Targets
<1>5. log[k].item.covered \in Int /\ log[i].item.covered \in Int /\ e.covered \in Int
  BY <1>4, LedgerBounds DEF HistoryInv
<1>6. CASE i = k
  BY <1>3, <1>6
<1>7. CASE i < k
  <2>1. Extends(log[k].item, log[i].item)
    BY <1>4, <1>7 DEF HistoryInv
  <2>2. ASSUME NEW id \in EventIds(log[i].item)
        PROVE  id \in EventIds(e) /\ e.events[id] = log[i].item.events[id]
               /\ e.coverage[id] >= log[i].item.coverage[id]
    <3>1. id \in EventIds(log[k].item) /\ id \in EventIds(e)
      BY <1>3, <2>1 DEF Extends
    <3>2. /\ log[i].item.coverage[id] \in Int /\ log[k].item.coverage[id] \in Int
          /\ e.coverage[id] \in Int
      BY <1>4, <3>1, LedgerBounds DEF HistoryInv
    <3> QED
      BY <1>3, <2>1, <3>1, <3>2 DEF Extends
  <2> QED
    BY <1>3, <1>5, <2>1, <2>2 DEF Extends
<1> QED
  BY <1>4, <1>6, <1>7

\* A new snapshot keeps what was settled before it.
LEMMA SettlementTarget ==
    ASSUME LedgerInv, HistoryInv, ~Pending, NEW e, log' = Append(log, e),
           e.kind = "settlement", e.item \in Settlements, ExtendsPrevious(e.item)
    PROVE  HistoryInv'
<1> PICK n : n = Len(log) + 1
  OBVIOUS
<1>0. Len(log) \in Nat /\ n \in Nat /\ Len(log') = n /\ log'[n] = e /\ n \notin 1..Len(log)
  BY RowsKeep
<1>1. Targets("settlement")' = Targets("settlement") \cup {n}
  BY <1>0, RowsKeep DEF Targets
<1>2. ASSUME NEW i \in Targets("settlement")
      PROVE  i \in 1..Len(log) /\ i # n /\ log'[i] = log[i] /\ Outcome(i)' = Outcome(i)
  <2>1. i \in 1..Len(log) /\ IsTarget(i)
    BY DEF Targets, IsTarget
  <2>2. i < Len(log)
    BY <2>1, Follows
  <2> QED
    BY <1>0, <2>1, <2>2, RowsKeep
<1>3. ASSUME NEW d
      PROVE  /\ SnapshotsOf(d)' = SnapshotsOf(d) \cup (IF e.item.observation = d THEN {n} ELSE {})
             /\ Accepted(d)' = Accepted(d)
  <2>1. SnapshotsOf(d)' = SnapshotsOf(d) \cup (IF e.item.observation = d THEN {n} ELSE {})
    BY <1>0, <1>1, <1>2 DEF SnapshotsOf
  <2>2. \A i \in SnapshotsOf(d) : Outcome(i)' = Outcome(i)
    BY <1>2 DEF SnapshotsOf
  <2>3. Outcome(n)' # "accepted"
    BY <1>0 DEF Outcome
  <2> QED
    BY <2>1, <2>2, <2>3 DEF Accepted
<1>4. \A d : \A i \in SnapshotsOf(d) : i \in Targets("settlement") /\ log'[i] = log[i] /\ i # n
  BY <1>2 DEF SnapshotsOf
<1>5. \A i \in Targets("settlement")' : log'[i].item \in Settlements
  BY <1>0, <1>1, <1>2 DEF HistoryInv
<1>6. ASSUME NEW d, NEW i \in Accepted(d)', NEW j \in SnapshotsOf(d)', i < j
      PROVE  Extends(log'[j].item, log'[i].item)
  <2>1. i \in Accepted(d) /\ i \in SnapshotsOf(d) /\ log'[i] = log[i]
    <3>1. i \in Accepted(d)
      BY <1>3
    <3>2. i \in SnapshotsOf(d)
      BY <3>1 DEF Accepted
    <3> QED
      BY <1>4, <3>1, <3>2
  <2>2. CASE j \in SnapshotsOf(d)
    <3>1. log'[j] = log[j]
      BY <1>4, <2>2
    <3>2. Extends(log[j].item, log[i].item)
      BY <1>6, <2>1, <2>2 DEF HistoryInv
    <3> QED
      BY <2>1, <3>1, <3>2
  <2>3. CASE j = n /\ e.item.observation = d
    <3>1. Extends(e.item, log[i].item)
      BY <2>1, <2>3, ExtendsAll
    <3> QED
      BY <1>0, <2>1, <2>3, <3>1
  <2> QED
    BY <1>3, <2>2, <2>3
<1>7. ASSUME NEW d, Accepted(d)' # {} PROVE \E k : Newest(k, d)'
  BY <1>3, <1>7 DEF HistoryInv, Newest
<1> QED
  BY <1>5, <1>6, <1>7 DEF HistoryInv

\* A finalization settles the last row and no other; if it accepts a snapshot, that
\* is the newest one.
LEMMA FinalizationHistory ==
    ASSUME LedgerInv, HistoryInv, Pending, NEW e, log' = Append(log, e),
           e.kind = "finalization"
    PROVE  HistoryInv'
<1> PICK n : n = Len(log)
  OBVIOUS
<1>0. n \in Nat /\ Len(log') = n + 1
  BY RowsKeep
<1>1. Targets("settlement")' = Targets("settlement")
  BY RowsKeep DEF Targets
<1>2. ASSUME NEW i \in Targets("settlement")
      PROVE  i \in 1..n /\ log'[i] = log[i] /\ (i # n => Outcome(i)' = Outcome(i))
  <2>1. i \in 1..n
    BY DEF Targets
  <2>2. i # n => i < n
    BY <1>0, <2>1
  <2> QED
    BY <2>1, <2>2, RowsKeep
<1>3. ASSUME NEW d
      PROVE  /\ SnapshotsOf(d)' = SnapshotsOf(d) /\ Accepted(d) \subseteq Accepted(d)'
             /\ Accepted(d)' \subseteq Accepted(d) \cup {n}
  <2>1. SnapshotsOf(d)' = SnapshotsOf(d)
    BY <1>1, <1>2 DEF SnapshotsOf
  <2>2. \A i \in SnapshotsOf(d) : i \in Targets("settlement")
    BY DEF SnapshotsOf
  <2>3. Outcome(n) # "accepted"
    BY <1>0 DEF Outcome
  <2> QED
    BY <1>2, <2>1, <2>2, <2>3 DEF Accepted
<1>4. \A d : \A i \in SnapshotsOf(d) : i \in 1..n /\ log'[i] = log[i]
  BY <1>2 DEF SnapshotsOf
<1>5. \A i \in Targets("settlement")' : log'[i].item \in Settlements
  BY <1>1, <1>2 DEF HistoryInv
<1>6. ASSUME NEW d, NEW i \in Accepted(d)', NEW j \in SnapshotsOf(d)', i < j
      PROVE  Extends(log'[j].item, log'[i].item)
  <2>1. j \in SnapshotsOf(d) /\ j \in 1..n /\ log'[j] = log[j] /\ i \in Accepted(d) \cup {n}
    BY <1>3, <1>4
  <2>2. i # n
    BY <1>0, <1>6, <2>1
  <2>3. i \in Accepted(d) /\ i \in SnapshotsOf(d) /\ log'[i] = log[i]
    BY <1>4, <2>1, <2>2 DEF Accepted
  <2> QED
    BY <1>6, <2>1, <2>3 DEF HistoryInv
<1>7. ASSUME NEW d, Accepted(d)' # {} PROVE \E k : Newest(k, d)'
  <2>1. CASE n \in Accepted(d)'
    <3>1. \A j \in Accepted(d)' : j <= n
      BY <1>0, <1>3, <1>4 DEF Accepted
    <3> QED
      BY <2>1, <3>1 DEF Newest
  <2>2. CASE n \notin Accepted(d)'
    <3>1. Accepted(d)' = Accepted(d)
      BY <1>3, <2>2
    <3> QED
      BY <1>7, <3>1 DEF HistoryInv, Newest
  <2> QED
    BY <2>1, <2>2
<1> QED
  BY <1>5, <1>6, <1>7 DEF HistoryInv

\* Every step keeps the history.
LEMMA HistoryStep ==
    ASSUME LedgerInv, HistoryInv, [Next]_vars
    PROVE  HistoryInv'
<1>1. ASSUME UNCHANGED log PROVE HistoryInv'
  <2>1. Targets("settlement")' = Targets("settlement")
    BY <1>1 DEF Targets
  <2>2. ASSUME NEW d PROVE SnapshotsOf(d)' = SnapshotsOf(d) /\ Accepted(d)' = Accepted(d)
    <3>1. SnapshotsOf(d)' = SnapshotsOf(d)
      BY <1>1, <2>1 DEF SnapshotsOf
    <3>2. ASSUME NEW i PROVE Outcome(i)' = Outcome(i)
      BY <1>1 DEF Outcome
    <3> QED
      BY <3>1, <3>2 DEF Accepted
  <2> QED
    BY <1>1, <2>1, <2>2 DEF HistoryInv, Newest
<1>2. ASSUME NEW p \in Procs, NEW t \in Time, NEW o \in Observations, AppendObservation(p, o, t)
      PROVE  HistoryInv'
  <2> PICK e : e = Event("observation", o, t, o.expires)
    OBVIOUS
  <2>1. log' = Append(log, e) /\ e.kind # "settlement" /\ ~Pending
    BY <1>2 DEF AppendObservation, Records, Commits, Begins, Event, LedgerInv, CallsHold, CallHolds
  <2> QED
    BY <2>1, OtherTarget
<1>3. ASSUME NEW p \in Procs, NEW t \in Time, NEW s \in Settlements, AppendSettlement(p, s, t)
      PROVE  HistoryInv'
  <2> PICK e : e = Event("settlement", s, t, SettlementNotAfter({s}))
    OBVIOUS
  <2>1. /\ log' = Append(log, e) /\ e.kind = "settlement" /\ ~Pending /\ e.item = s
        /\ ExtendsPrevious(s)
    BY <1>3 DEF AppendSettlement, Records, Commits, Begins, Event, LedgerInv, CallsHold, CallHolds
  <2> QED
    BY <2>1, SettlementTarget
<1>4. ASSUME NEW p \in Procs, NEW t \in Time, Evaluate(p, t)
      PROVE  HistoryInv'
  <2>1. PICK report, until : Records(p, "evaluation", report, t, until)
    BY <1>4 DEF Evaluate
  <2> PICK e : e = Event("evaluation", report, t, until)
    OBVIOUS
  <2>2. log' = Append(log, e) /\ e.kind # "settlement" /\ ~Pending
    BY <2>1 DEF Records, Commits, Begins, Event, LedgerInv, CallsHold, CallHolds
  <2> QED
    BY <2>2, OtherTarget
<1>5. ASSUME NEW p \in Procs, NEW t \in Time, Stamp(p, t)
      PROVE  HistoryInv'
  <2> PICK e : e = Event("finalization", Verdict(t, log[Len(log)]), t, 0)
    OBVIOUS
  <2>1. log' = Append(log, e) /\ e.kind = "finalization" /\ Pending
    BY <1>5 DEF Stamp, Commits, Event, LedgerInv, CallsHold, CallHolds
  <2> QED
    BY <2>1, FinalizationHistory
<1>6. ASSUME NEW p \in Procs,
             \/ Enter(p) \/ Verify(p) \/ Publish(p) \/ Read(p)
             \/ \E o \in Observations : ReplayObservation(p, o)
             \/ \E e \in Settlements : ReplaySettlement(p, e)
             \/ Fail(p) \/ AnchorHangs(p) \/ ClockHangs(p) \/ Crash(p)
      PROVE  HistoryInv'
  BY <1>1, <1>6, CallStep
<1>7. CASE AnchorReturns \/ ClockReturns \/ Tick \/ UNCHANGED vars
  BY <1>1, <1>7 DEF AnchorReturns, ClockReturns, Tick, vars
<1> QED
  BY <1>2, <1>3, <1>4, <1>5, <1>6, <1>7 DEF Next

\* Accepted settlement snapshots of an observation never drop or change an event
\* that an earlier one reported, nor cover less (append_settlement), whatever fails
\* between them.
THEOREM HistoryIsKept == Spec => []SettledHistoryIsKept
<1>1. Init => HistoryInv
  <2> SUFFICES ASSUME Init PROVE HistoryInv
    OBVIOUS
  <2>1. Targets("settlement") = {}
    BY EmptySeq DEF Init, Targets
  <2> QED
    BY <2>1 DEF HistoryInv, SnapshotsOf, Accepted
<1>2. LedgerInv /\ HistoryInv /\ [Next]_vars => HistoryInv'
  BY HistoryStep
<1>3. LedgerInv /\ HistoryInv => SettledHistoryIsKept
  <2> SUFFICES ASSUME LedgerInv, HistoryInv, NEW i \in Targets("settlement"),
                      NEW j \in Targets("settlement"), i < j,
                      log[i].item.observation = log[j].item.observation,
                      Outcome(i) = "accepted", Outcome(j) = "accepted"
               PROVE  /\ log[i].item.covered <= log[j].item.covered
                      /\ \A id \in EventIds(log[i].item) :
                          /\ id \in EventIds(log[j].item)
                          /\ log[i].item.events[id] = log[j].item.events[id]
                          /\ log[i].item.coverage[id] <= log[j].item.coverage[id]
    BY DEF SettledHistoryIsKept
  <2> PICK d : d = log[i].item.observation
    OBVIOUS
  <2>1. i \in Accepted(d) /\ j \in SnapshotsOf(d)
    BY DEF Accepted, SnapshotsOf
  <2>2. Extends(log[j].item, log[i].item)
    BY <2>1 DEF HistoryInv
  <2>3. log[i].item.covered \in Int /\ log[j].item.covered \in Int
    BY LedgerBounds DEF HistoryInv
  <2>4. \A id \in EventIds(log[i].item) : id \in EventIds(log[j].item)
    BY <2>2 DEF Extends
  <2>5. \A id \in EventIds(log[i].item) :
          log[i].item.coverage[id] \in Int /\ log[j].item.coverage[id] \in Int
    BY <2>4, LedgerBounds DEF HistoryInv
  <2> QED
    BY <2>2, <2>3, <2>5 DEF Extends
<1> QED
  BY <1>1, <1>2, <1>3, LedgerIsSound, PTL DEF Spec

-----------------------------------------------------------------------------
(***************************************************************************)
(* A recommendation of scale review is earned. What evaluate saw were the  *)
(* projections of the moment: the invariant says that the rows it read are *)
(* still there, as they were, under every later row.                       *)
(***************************************************************************)

\* _read_observations: an observation may be observed until it expires, and after one
\* that expired there is none (append).
ObservationsInv ==
    /\ \A j \in Targets("observation") : log[j].notAfter = log[j].item.expires
    /\ \A j, m \in Targets("observation") : Outcome(j) = "expired" => m <= j

Observed(i) == {j \in Targets("observation") : j < i}
InTime(i) == {j \in Observed(i) : log[j + 1].at < log[j].item.expires}
\* k is the newest snapshot of o that there was before row i, and rests in its evidence.
Settles(k, o, i) ==
    /\ k \in SettlementsOf(o) /\ k < i
    /\ log[i].at < log[k].item.expires /\ Outcome(k) = "accepted"
    /\ log[k].item \in log[i].item.evidence
    /\ \A m \in SettlementsOf(o) : m > k => m > i
Earned(i) ==
    /\ InTime(i) # {}
    /\ \A j \in Observed(i) \ InTime(i), m \in Observed(i) : m <= j
    /\ \A j \in InTime(i) : log[j].item.verified /\ \E k : Settles(k, log[j].item, i)
IsReady(i) == log[i].item.decision = "ready_for_scale_review"
EarnedInv == ObservationsInv /\ \A i \in Targets("evaluation") : IsReady(i) => Earned(i)

\* Two rows of a set of rows have different ranks (the ORDER BY of the projections).
LEMMA RanksDiffer ==
    ASSUME NEW n \in Nat, NEW R, R \subseteq 1..n, NEW i \in R, NEW j \in R, i < j
    PROVE  Rank(i, R) < Rank(j, R)
<1> DEFINE Low(k) == {m \in R : m <= k}
<1>1. IsFiniteSet(1..n)
  BY FS_Interval
<1>2. Low(j) \in SUBSET (1..n) /\ Low(i) \in SUBSET Low(j) /\ j \in Low(j) /\ j \notin Low(i)
  <2>1. i \in Int /\ j \in Int /\ \A m \in R : m \in Int /\ m \in 1..n
    OBVIOUS
  <2>2. \A m \in R : m <= i => m <= j
    BY <2>1
  <2>3. j <= j /\ ~(j <= i)
    BY <2>1
  <2> QED
    BY <2>1, <2>2, <2>3
<1> HIDE DEF Low
<1>3. IsFiniteSet(Low(j))
  BY <1>1, <1>2, FS_Subset
<1>4. IsFiniteSet(Low(i)) /\ Cardinality(Low(i)) <= Cardinality(Low(j))
      /\ Cardinality(Low(j)) # Cardinality(Low(i))
  BY <1>2, <1>3, FS_Subset
<1>5. Cardinality(Low(i)) \in Nat /\ Cardinality(Low(j)) \in Nat
  BY <1>3, <1>4, FS_CardinalityType
<1>6. Cardinality(Low(i)) < Cardinality(Low(j))
  BY <1>4, <1>5
<1> QED
  BY <1>6 DEF Rank, Low

\* A projection holds every row it is of, and is empty only if there is none.
LEMMA ItemsHoldRows ==
    ASSUME IsLog, NEW R, R \subseteq 1..Len(log)
    PROVE  /\ Len(Items(R)) = Cardinality(R) /\ (R = {} => Items(R) = <<>>)
           /\ \A j \in R : Rank(j, R) \in 1..Len(Items(R))
                          /\ Items(R)[Rank(j, R)] = log[j].item
<1> PICK n : n = Len(log)
  OBVIOUS
<1>1. n \in Nat /\ R \subseteq 1..n
  BY Lengths
<1>2. IsFiniteSet(R) /\ Cardinality(R) \in Nat /\ (R = {} => Cardinality(R) = 0)
  <2>1. IsFiniteSet(1..n) /\ R \in SUBSET (1..n)
    BY <1>1, FS_Interval
  <2>2. IsFiniteSet(R)
    BY <2>1, FS_Subset
  <2>3. Cardinality(R) \in Nat
    BY <2>2, FS_CardinalityType
  <2>4. R = {} => Cardinality(R) = 0
    BY FS_EmptySet
  <2> QED
    BY <2>2, <2>3, <2>4
<1> PICK c \in Nat : c = Cardinality(R)
  BY <1>2
<1> DEFINE Item(k) == log[CHOOSE i \in R : Rank(i, R) = k].item
           S == {Item(k) : k \in 1..c}
<1>3. Items(R) = [k \in 1..c |-> Item(k)]
  BY DEF Items
<1>4. Items(R) \in [1..c -> S]
  <2> HIDE DEF Item
  <2>1. \A k \in 1..c : Item(k) \in S
    OBVIOUS
  <2> HIDE DEF S
  <2> QED
    BY <1>3, <2>1
<1>5. Items(R) \in Seq(S) /\ Len(Items(R)) = c
  <2> HIDE DEF S
  <2>1. Items(R) \in Seq(S) /\ DOMAIN Items(R) = 1..c
    BY <1>4, SeqDef
  <2> QED
    BY <2>1, LenProperties
<1>6. R = {} => Items(R) = <<>>
  <2> HIDE DEF S
  <2> QED
    BY <1>2, <1>5, EmptySeq
<1>7. ASSUME NEW j \in R
      PROVE  Rank(j, R) \in 1..c /\ Items(R)[Rank(j, R)] = log[j].item
  <2>1. {m \in R : m <= j} \in SUBSET R /\ j \in {m \in R : m <= j}
    BY <1>1
  <2>2. Rank(j, R) \in Nat /\ Rank(j, R) <= c /\ Rank(j, R) # 0
    <3> PICK L : L = {m \in R : m <= j}
      OBVIOUS
    <3>1. IsFiniteSet(L) /\ Cardinality(L) <= c /\ Cardinality(L) \in Nat
      BY <1>2, <2>1, FS_Subset, FS_CardinalityType
    <3>2. Cardinality(L) # 0
      BY <2>1, <3>1, FS_EmptySet
    <3> QED
      BY <3>1, <3>2 DEF Rank
  <2>3. ASSUME NEW i \in R, Rank(i, R) = Rank(j, R) PROVE i = j
    <3>1. i \in Int /\ j \in Int /\ (i = j \/ i < j \/ j < i)
      BY <1>1
    <3>2. i < j => Rank(i, R) < Rank(j, R)
      BY <1>1, RanksDiffer
    <3>3. j < i => Rank(j, R) < Rank(i, R)
      BY <1>1, RanksDiffer
    <3> QED
      BY <2>2, <2>3, <3>1, <3>2, <3>3
  <2>4. (CHOOSE i \in R : Rank(i, R) = Rank(j, R)) = j
    BY <2>3
  <2> QED
    BY <1>3, <2>2, <2>4
<1> QED
  BY <1>5, <1>6, <1>7

\* While no row waits, every observation has been finalized, and those that were in
\* time are those that are not expired (_read_observations).
LEMMA OutcomesOfObservations ==
    ASSUME LedgerInv, ObservationsInv, ~Pending, NEW j \in Targets("observation")
    PROVE  /\ j \in 1..Len(log) /\ j < Len(log) /\ j + 1 \in 1..Len(log)
           /\ Outcome(j) \in {"accepted", "expired"}
           /\ Outcome(j) # "expired" <=> log[j + 1].at < log[j].item.expires
<1>1. j \in 1..Len(log) /\ IsTarget(j) /\ Len(log) \in Nat
  BY Lengths DEF LedgerInv, Targets, IsTarget
<1>2. j < Len(log) /\ Outcome(j) \in {"accepted", "expired"}
  BY <1>1, Follows
<1>3. j + 1 \in 1..Len(log) /\ (j + 1) - 1 = j
  BY <1>1, <1>2
<1>4. PICK k \in Nat : j = 2 * k + 1
  BY <1>1, PlaceOf
<1>5. ~IsTarget(j + 1)
  BY <1>3, <1>4, Places
<1>6. log[j + 1].item = Verdict(log[j + 1].at, log[j])
  BY <1>3, <1>5 DEF LedgerInv, RowsFollow
<1>7. Outcome(j) = log[j + 1].item /\ log[j].notAfter = log[j].item.expires
  BY <1>2 DEF Outcome, ObservationsInv
<1>8. Verdict(log[j + 1].at, log[j]) # "expired" <=> log[j + 1].at < log[j].notAfter
  BY DEF Verdict
<1> QED
  BY <1>1, <1>2, <1>3, <1>6, <1>7, <1>8

\* What a report that recommends scale review has seen (_evaluate_traction,
\* _latest_settlements).
Unexpired == {j \in Targets("observation") : Outcome(j) # "expired"}
Seen(j, k, t) ==
    /\ k \in SettlementsOf(log[j].item) /\ t < log[k].item.expires /\ Outcome(k) = "accepted"
    /\ log[k].item \in LatestSettlements
    /\ \A m \in SettlementsOf(log[j].item) : m <= k
LEMMA ReadyMeans ==
    ASSUME LedgerInv, NEW t,
           Evaluable(ActiveObservations, LatestSettlements, t),
           Decision(ActiveObservations, LatestSettlements, TRUE) = "ready_for_scale_review"
    PROVE  Unexpired # {}
           /\ \A j \in Unexpired : log[j].item.verified /\ \E k : Seen(j, k, t)
<1> PICK items : items = ActiveObservations
  OBVIOUS
<1> PICK evidence : evidence = LatestSettlements
  OBVIOUS
<1>1. items = Items(Unexpired) /\ Unexpired \subseteq 1..Len(log) /\ IsLog
  BY DEF ActiveObservations, Unexpired, Targets, LedgerInv
<1>2. Decision(items, evidence, TRUE) = "ready_for_scale_review"
  OBVIOUS
<1>3. Genuine(items) /\ SettlementComplete(items, evidence)
  <2>1. Genuine(items) /\ \A c \in DOMAIN Checks(items, evidence) : Checks(items, evidence)[c]
    BY <1>2 DEF Decision
  <2>2. "settlement" \in DOMAIN Checks(items, evidence)
        /\ Checks(items, evidence).settlement = SettlementComplete(items, evidence)
    BY DEF Checks
  <2> QED
    BY <2>1, <2>2
<1>4. Unexpired # {}
  BY <1>1, <1>3, ItemsHoldRows DEF Genuine
<1>5. ASSUME NEW j \in Unexpired
      PROVE  log[j].item.verified /\ EvidenceFor(log[j].item, evidence) # {}
  <2>1. PICK i \in 1..Len(items) : items[i] = log[j].item
    BY <1>1, <1>5, ItemsHoldRows
  <2> QED
    BY <1>3, <2>1 DEF Genuine, SettlementComplete
<1>6. ASSUME NEW j \in Unexpired PROVE \E k : Seen(j, k, t)
  <2>1. PICK e \in evidence : e.observation = log[j].item.digest
    BY <1>5, <1>6 DEF EvidenceFor
  <2>2. t < e.expires
    BY <2>1 DEF Evaluable, SettlementHolds
  <2>3. PICK i, k : /\ i \in Targets("observation") /\ k \in NewestSnapshot(log[i].item)
                    /\ Outcome(k) = "accepted" /\ e = log[k].item
    BY <2>1 DEF LatestSettlements
  <2>4. k \in SettlementsOf(log[i].item) /\ \A m \in SettlementsOf(log[i].item) : m <= k
    BY <2>3 DEF NewestSnapshot
  <2>5. log[i].item.digest = log[j].item.digest
    BY <2>1, <2>3, <2>4 DEF SettlementsOf
  <2>6. SettlementsOf(log[i].item) = SettlementsOf(log[j].item)
    BY <2>5 DEF SettlementsOf
  <2> QED
    BY <2>1, <2>2, <2>3, <2>4, <2>6 DEF Seen
<1> QED
  BY <1>4, <1>5, <1>6

\* A new row changes nothing that a report before it rests on.
LEMMA EarnedStays ==
    ASSUME LedgerInv, NEW e, log' = Append(log, e), NEW i \in 1..Len(log), Earned(i)
    PROVE  Earned(i)'
<1> PICK n : n = Len(log)
  OBVIOUS
<1>0. /\ n \in Nat /\ Len(log') = n + 1 /\ \A k \in 1..n : log'[k] = log[k]
      /\ \A k \in 1..n : k < n => Outcome(k)' = Outcome(k)
  BY RowsKeep
<1>1. Observed(i)' = Observed(i) /\ \A j \in Observed(i) : j \in 1..n /\ j + 1 \in 1..n
  BY <1>0 DEF Observed, Targets
<1>2. \A j \in Observed(i) : log'[j] = log[j] /\ log'[j + 1] = log[j + 1]
  BY <1>0, <1>1
<1>3. InTime(i)' = InTime(i) /\ InTime(i) \subseteq Observed(i)
  BY <1>1, <1>2 DEF InTime
<1>4. ASSUME NEW o, NEW k, Settles(k, o, i) PROVE Settles(k, o, i)'
  <2>1. k \in 1..n /\ k < n
    BY <1>0, <1>4 DEF Settles, SettlementsOf, Targets
  <2>2. log'[k] = log[k] /\ log'[i] = log[i] /\ Outcome(k)' = Outcome(k)
    BY <1>0, <2>1
  <2>3. k \in SettlementsOf(o)'
    BY <1>0, <1>4, <2>1, <2>2 DEF Settles, SettlementsOf, Targets
  <2>4. ASSUME NEW m \in SettlementsOf(o)', m > k PROVE m > i
    <3>1. m \in 1..(n + 1) /\ (m \in 1..n => m \in SettlementsOf(o))
      BY <1>0, <2>4 DEF SettlementsOf, Targets
    <3>2. CASE m \in 1..n
      BY <1>4, <2>4, <3>1, <3>2 DEF Settles
    <3>3. CASE m = n + 1
      BY <1>0, <3>3
    <3> QED
      BY <1>0, <3>1, <3>2, <3>3
  <2> QED
    BY <1>4, <2>2, <2>3, <2>4 DEF Settles
<1>5. ASSUME NEW j \in InTime(i)
      PROVE  log'[j].item.verified /\ \E k : Settles(k, log[j].item, i)'
  <2>1. log'[j] = log[j]
    BY <1>2, <1>3, <1>5
  <2> PICK o : o = log[j].item
    OBVIOUS
  <2>2. o.verified /\ \E k : Settles(k, o, i)
    BY <1>5 DEF Earned
  <2>3. \E k : Settles(k, o, i)'
    BY <1>4, <2>2
  <2>4. log'[j].item = o
    BY <2>1
  <2> QED
    BY <2>2, <2>3, <2>4 DEF Settles
<1>6. InTime(i)' # {} /\ \A j \in Observed(i)' \ InTime(i)', m \in Observed(i)' : m <= j
  BY <1>1, <1>3 DEF Earned
<1> QED
  BY <1>3, <1>5, <1>6 DEF Earned

\* A report that recommends scale review is earned by the rows it read (evaluate).
LEMMA NewReport ==
    ASSUME LedgerInv, ObservationsInv, ~Pending, NEW t, NEW until, NEW report,
           report = Report(ActiveObservations, LatestSettlements),
           Evaluable(ActiveObservations, LatestSettlements, t),
           report.decision = "ready_for_scale_review",
           NEW e, e = Event("evaluation", report, t, until), log' = Append(log, e),
           NEW n, n = Len(log) + 1
    PROVE  Earned(n)'
<1>0. /\ Len(log) \in Nat /\ Len(log') = n /\ log'[n] = e
      /\ \A k \in 1..Len(log) : log'[k] = log[k] /\ k < n
      /\ \A k \in 1..Len(log) : k < Len(log) => Outcome(k)' = Outcome(k)
  BY RowsKeep
<1>1. /\ e.kind = "evaluation" /\ e.at = t
      /\ e.item.evidence = LatestSettlements
  BY DEF Event, Report
<1>2. Unexpired # {} /\ \A j \in Unexpired : log[j].item.verified /\ \E k : Seen(j, k, t)
  BY ReadyMeans DEF Report
<1>3. Observed(n)' = Targets("observation")
  BY <1>0, <1>1 DEF Observed, Targets
<1>4. ASSUME NEW j \in Targets("observation")
      PROVE  /\ log'[j] = log[j] /\ log'[j + 1] = log[j + 1]
             /\ Outcome(j) # "expired" <=> log[j + 1].at < log[j].item.expires
  BY <1>0, <1>4, OutcomesOfObservations
<1>5. InTime(n)' = Unexpired
  BY <1>3, <1>4 DEF InTime, Unexpired
<1>6. ASSUME NEW j, NEW k, Seen(j, k, t), NEW o, o = log[j].item PROVE Settles(k, o, n)'
  <2>1. k \in Targets("settlement") /\ k \in 1..Len(log) /\ IsTarget(k)
    BY <1>6 DEF Seen, SettlementsOf, Targets, IsTarget
  <2>2. k < Len(log)
    BY <2>1, Follows
  <2>3. log'[k] = log[k] /\ Outcome(k)' = Outcome(k) /\ k < n
    BY <1>0, <2>1, <2>2
  <2>4. k \in SettlementsOf(o)'
    BY <1>0, <1>6, <2>1, <2>3 DEF Seen, SettlementsOf, Targets
  <2>5. ASSUME NEW m \in SettlementsOf(o)', m > k PROVE FALSE
    <3>1. m \in 1..n /\ m # n
      BY <1>0, <1>1, <2>5 DEF SettlementsOf, Targets
    <3>2. m \in 1..Len(log) /\ log'[m] = log[m]
      BY <1>0, <3>1
    <3>3. m \in SettlementsOf(o)
      BY <2>5, <3>2 DEF SettlementsOf, Targets
    <3> QED
      BY <1>6, <2>1, <2>5, <3>2, <3>3 DEF Seen
  <2>6. log'[n].at < log'[k].item.expires /\ log'[k].item \in log'[n].item.evidence
        /\ Outcome(k)' = "accepted"
    BY <1>0, <1>1, <1>6, <2>3 DEF Seen
  <2> QED
    BY <2>3, <2>4, <2>5, <2>6 DEF Settles
<1>7. ASSUME NEW j \in Unexpired
      PROVE  log'[j].item.verified /\ \E k : Settles(k, log[j].item, n)'
  <2>1. j \in Targets("observation")
    BY <1>7 DEF Unexpired
  <2>2. log'[j] = log[j]
    BY <1>4, <2>1
  <2> PICK o : o = log[j].item
    OBVIOUS
  <2>3. o.verified /\ \E k : Seen(j, k, t)
    BY <1>2, <1>7
  <2>4. \E k : Settles(k, o, n)'
    BY <1>6, <2>3
  <2>5. log'[j].item = o
    BY <2>2
  <2> QED
    BY <2>3, <2>4, <2>5 DEF Settles
<1>8. \A j \in Targets("observation") \ Unexpired, m \in Targets("observation") : m <= j
  BY DEF Unexpired, ObservationsInv
<1> QED
  BY <1>2, <1>3, <1>5, <1>7, <1>8 DEF Earned

\* A new target follows only observations that were in time, if it is one (append).
LEMMA ObservationsGrow ==
    ASSUME LedgerInv, ObservationsInv, ~Pending, NEW e, log' = Append(log, e),
           e.kind = "observation" => e.notAfter = e.item.expires /\ ~HasExpiredObservation
    PROVE  ObservationsInv'
<1> PICK n : n = Len(log) + 1
  OBVIOUS
<1>0. /\ Len(log) \in Nat /\ Len(log') = n /\ log'[n] = e /\ n \notin 1..Len(log)
      /\ \A k \in 1..Len(log) : log'[k] = log[k] /\ k < n
      /\ \A k \in 1..Len(log) : k < Len(log) => Outcome(k)' = Outcome(k)
  BY RowsKeep
<1>1. Targets("observation")' =
          Targets("observation") \cup (IF e.kind = "observation" THEN {n} ELSE {})
  BY <1>0 DEF Targets
<1>2. ASSUME NEW j \in Targets("observation")
      PROVE  log'[j] = log[j] /\ Outcome(j)' = Outcome(j) /\ j < n
  <2>1. j \in 1..Len(log) /\ j < Len(log)
    BY <1>2, OutcomesOfObservations
  <2> QED
    BY <1>0, <2>1
<1>3. Outcome(n)' = "pending"
  BY <1>0 DEF Outcome
<1>4. \A j \in Targets("observation")' : log'[j].notAfter = log'[j].item.expires
  BY <1>0, <1>1, <1>2 DEF ObservationsInv
<1>5. ASSUME NEW j \in Targets("observation")', NEW m \in Targets("observation")',
             Outcome(j)' = "expired"
      PROVE  m <= j
  <2>1. j \in Targets("observation") /\ Outcome(j) = "expired"
    BY <1>1, <1>2, <1>3, <1>5
  <2>2. e.kind # "observation"
    BY <2>1 DEF HasExpiredObservation
  <2>3. m \in Targets("observation")
    BY <1>1, <2>2
  <2> QED
    BY <2>1, <2>3 DEF ObservationsInv
<1> QED
  BY <1>4, <1>5 DEF ObservationsInv

\* A finalization decides about the last row only (_finalize_event).
LEMMA ObservationsSettle ==
    ASSUME LedgerInv, ObservationsInv, NEW e, log' = Append(log, e), e.kind = "finalization"
    PROVE  ObservationsInv'
<1>0. /\ Len(log) \in Nat /\ Len(log') = Len(log) + 1 /\ log'[Len(log) + 1] = e
      /\ \A k \in 1..Len(log) : log'[k] = log[k]
      /\ \A k \in 1..Len(log) : k < Len(log) => Outcome(k)' = Outcome(k)
  BY RowsKeep
<1>1. Targets("observation")' = Targets("observation")
  BY <1>0 DEF Targets
<1>2. \A j \in Targets("observation") : j \in 1..Len(log) /\ log'[j] = log[j]
  BY <1>0 DEF Targets
<1>3. ASSUME NEW j \in Targets("observation"), NEW m \in Targets("observation"),
             Outcome(j)' = "expired"
      PROVE  m <= j
  <2>1. CASE j = Len(log)
    BY <1>0, <1>2, <2>1
  <2>2. CASE j # Len(log)
    <3>1. Outcome(j) = "expired"
      BY <1>0, <1>2, <1>3, <2>2
    <3> QED
      BY <3>1 DEF ObservationsInv
  <2> QED
    BY <2>1, <2>2
<1> QED
  BY <1>1, <1>2, <1>3 DEF ObservationsInv

\* What is said of the reports depends on the rows alone.
LEMMA ReportsStay ==
    ASSUME LedgerInv, EarnedInv, UNCHANGED log
    PROVE  EarnedInv'
<1>1. ASSUME NEW kind PROVE Targets(kind)' = Targets(kind)
  BY DEF Targets
<1>2. ASSUME NEW i PROVE Outcome(i)' = Outcome(i) /\ log'[i] = log[i]
  BY DEF Outcome
<1>3. ObservationsInv'
  <2>1. Targets("observation")' = Targets("observation")
    BY <1>1
  <2> QED
    BY <1>2, <2>1 DEF EarnedInv, ObservationsInv
<1>4. ASSUME NEW i PROVE Observed(i)' = Observed(i) /\ InTime(i)' = InTime(i)
  <2>1. Targets("observation")' = Targets("observation")
    BY <1>1
  <2>2. Observed(i)' = Observed(i)
    BY <2>1 DEF Observed
  <2> QED
    BY <2>2 DEF InTime
<1>5. ASSUME NEW i, NEW k, NEW o, Settles(k, o, i) PROVE Settles(k, o, i)'
  <2>1. Targets("settlement")' = Targets("settlement") /\ Outcome(k)' = Outcome(k)
    BY <1>1, <1>2
  <2>2. SettlementsOf(o)' = SettlementsOf(o)
    BY <2>1 DEF SettlementsOf
  <2> QED
    BY <1>5, <2>1, <2>2 DEF Settles
<1>6. ASSUME NEW i \in Targets("evaluation")', IsReady(i)' PROVE Earned(i)'
  <2>1. Targets("evaluation")' = Targets("evaluation")
    BY <1>1
  <2>2. Earned(i)
    BY <1>6, <2>1 DEF EarnedInv, IsReady
  <2>3. ASSUME NEW j \in InTime(i)
        PROVE  log'[j].item.verified /\ \E k : Settles(k, log[j].item, i)'
    <3> PICK o : o = log[j].item
      OBVIOUS
    <3>1. o.verified /\ \E k : Settles(k, o, i)
      BY <2>2 DEF Earned
    <3>2. \E k : Settles(k, o, i)'
      BY <1>5, <3>1
    <3>3. log'[j].item = o
      OBVIOUS
    <3> QED
      BY <3>1, <3>2, <3>3 DEF Settles
  <2> QED
    BY <1>4, <2>2, <2>3 DEF Earned
<1> QED
  BY <1>3, <1>6 DEF EarnedInv

\* A new row keeps the reports there were.
LEMMA ReportsKeep ==
    ASSUME LedgerInv, EarnedInv, ObservationsInv', NEW e, log' = Append(log, e),
           NEW n, n = Len(log) + 1,
           e.kind = "evaluation" /\ e.item.decision = "ready_for_scale_review" => Earned(n)'
    PROVE  EarnedInv'
<1>0. /\ Len(log) \in Nat /\ Len(log') = n /\ log'[n] = e
      /\ \A k \in 1..Len(log) : log'[k] = log[k]
  BY RowsKeep
<1>1. ASSUME NEW i \in Targets("evaluation")', IsReady(i)' PROVE Earned(i)'
  <2>1. CASE i = n
    BY <1>0, <1>1, <2>1 DEF Targets, IsReady
  <2>2. CASE i # n
    <3>1. i \in 1..Len(log) /\ log'[i] = log[i]
      BY <1>0, <1>1, <2>2 DEF Targets
    <3>2. i \in Targets("evaluation") /\ IsReady(i)
      BY <1>1, <3>1 DEF Targets, IsReady
    <3>3. Earned(i)
      BY <3>2 DEF EarnedInv
    <3> QED
      BY <3>1, <3>3, EarnedStays
  <2> QED
    BY <2>1, <2>2
<1> QED
  BY <1>1 DEF EarnedInv

\* Every step keeps reports earned.
LEMMA EarnedStep ==
    ASSUME LedgerInv, EarnedInv, [Next]_vars
    PROVE  EarnedInv'
<1>1. ASSUME NEW p \in Procs, NEW t \in Time, NEW o \in Observations, AppendObservation(p, o, t)
      PROVE  EarnedInv'
  <2> PICK e : e = Event("observation", o, t, o.expires)
    OBVIOUS
  <2>1. /\ log' = Append(log, e) /\ ~Pending /\ ~HasExpiredObservation
        /\ e.kind = "observation" /\ e.notAfter = e.item.expires
    BY <1>1 DEF AppendObservation, Records, Commits, Begins, Event, LedgerInv, CallsHold, CallHolds
  <2>2. ObservationsInv'
    BY <2>1, ObservationsGrow DEF EarnedInv
  <2> QED
    BY <2>1, <2>2, ReportsKeep
<1>2. ASSUME NEW p \in Procs, NEW t \in Time, NEW s \in Settlements, AppendSettlement(p, s, t)
      PROVE  EarnedInv'
  <2> PICK e : e = Event("settlement", s, t, SettlementNotAfter({s}))
    OBVIOUS
  <2>1. log' = Append(log, e) /\ e.kind = "settlement" /\ ~Pending
    BY <1>2 DEF AppendSettlement, Records, Commits, Begins, Event, LedgerInv, CallsHold, CallHolds
  <2>2. ObservationsInv'
    BY <2>1, ObservationsGrow DEF EarnedInv
  <2> QED
    BY <2>1, <2>2, ReportsKeep
<1>3. ASSUME NEW p \in Procs, NEW t \in Time, Evaluate(p, t)
      PROVE  EarnedInv'
  <2> PICK report : report = Report(ActiveObservations, LatestSettlements)
    OBVIOUS
  <2> PICK until : until = SettlementNotAfter(LatestSettlements)
    OBVIOUS
  <2> PICK e : e = Event("evaluation", report, t, until)
    OBVIOUS
  <2>1. Records(p, "evaluation", report, t, until)
        /\ Evaluable(ActiveObservations, LatestSettlements, t)
    BY <1>3 DEF Evaluate
  <2>2. /\ log' = Append(log, e) /\ ~Pending
        /\ e.kind = "evaluation" /\ e.item = report
    BY <2>1 DEF Records, Commits, Begins, Event, LedgerInv, CallsHold, CallHolds
  <2>3. ObservationsInv'
    BY <2>2, ObservationsGrow DEF EarnedInv
  <2> PICK n : n = Len(log) + 1
    OBVIOUS
  <2>4. report.decision = "ready_for_scale_review" => Earned(n)'
    BY <2>1, <2>2, NewReport DEF EarnedInv
  <2> QED
    BY <2>2, <2>3, <2>4, ReportsKeep
<1>4. ASSUME NEW p \in Procs, NEW t \in Time, Stamp(p, t)
      PROVE  EarnedInv'
  <2> PICK e : e = Event("finalization", Verdict(t, log[Len(log)]), t, 0)
    OBVIOUS
  <2>1. log' = Append(log, e) /\ e.kind = "finalization"
    BY <1>4 DEF Stamp, Commits, Event
  <2>2. ObservationsInv'
    BY <2>1, ObservationsSettle DEF EarnedInv
  <2> QED
    BY <2>1, <2>2, ReportsKeep
<1>5. ASSUME NEW p \in Procs,
             \/ Enter(p) \/ Verify(p) \/ Publish(p) \/ Read(p)
             \/ \E o \in Observations : ReplayObservation(p, o)
             \/ \E e \in Settlements : ReplaySettlement(p, e)
             \/ Fail(p) \/ AnchorHangs(p) \/ ClockHangs(p) \/ Crash(p)
      PROVE  EarnedInv'
  BY <1>5, CallStep, ReportsStay
<1>6. CASE AnchorReturns \/ ClockReturns \/ Tick \/ UNCHANGED vars
  BY <1>6, ReportsStay DEF AnchorReturns, ClockReturns, Tick, vars
<1> QED
  BY <1>1, <1>2, <1>3, <1>4, <1>5, <1>6 DEF Next

\* A report recommends scale review only over windows that were all finalized in time,
\* but for a last one that the active projection leaves out, each settled by the newest
\* snapshot offered for it, which was accepted and current (evaluate,
\* _read_observations, _latest_settlements), whatever is recorded afterwards.
THEOREM ReadyWasEarned == Spec => []ReadyIsEarned
<1>1. Init => EarnedInv
  <2> SUFFICES ASSUME Init PROVE EarnedInv
    OBVIOUS
  <2>1. \A kind : Targets(kind) = {}
    BY EmptySeq DEF Init, Targets
  <2> QED
    BY <2>1 DEF EarnedInv, ObservationsInv
<1>2. LedgerInv /\ EarnedInv /\ [Next]_vars => EarnedInv'
  BY EarnedStep
<1>3. LedgerInv /\ EarnedInv => ReadyIsEarned
  <2> SUFFICES ASSUME LedgerInv, EarnedInv, NEW i \in Targets("evaluation"), IsReady(i)
               PROVE  LET observed == {j \in Targets("observation") : j < i}
                          active == {j \in observed : log[j + 1].at < log[j].item.expires}
                      IN /\ active # {}
                         /\ \A j \in observed \ active, m \in observed : m <= j
                         /\ \A j \in active :
                            /\ log[j].item.verified
                            /\ \E k \in SettlementsOf(log[j].item) :
                                /\ k < i /\ log[i].at < log[k].item.expires
                                /\ Outcome(k) = "accepted"
                                /\ log[k].item \in log[i].item.evidence
                                /\ \A m \in SettlementsOf(log[j].item) : m > k => m > i
    BY DEF ReadyIsEarned, IsReady
  <2>1. Earned(i)
    BY DEF EarnedInv
  <2> QED
    BY <2>1 DEF Earned, Observed, InTime, Settles
<1> QED
  BY <1>1, <1>2, <1>3, LedgerIsSound, PTL DEF Spec

-----------------------------------------------------------------------------
(***************************************************************************)
(* Whatever failed, the rows are rows that opening accepts, as long as no  *)
(* two windows share an identity. append compares a window with the last   *)
(* one only, which leaves all the rest of the chain that _assert_integrity *)
(* demands intact: the order, the predecessors and the times.              *)
(***************************************************************************)

\* Every rank of a set of rows is the rank of one of them.
LEMMA EveryRank ==
    ASSUME NEW n \in Nat, NEW R, R \subseteq 1..n
    PROVE  IsFiniteSet(R) /\ \A k \in 1..Cardinality(R) : \E j \in R : Rank(j, R) = k
<1>1. IsFiniteSet(1..n) /\ R \in SUBSET (1..n)
  BY FS_Interval
<1>2. IsFiniteSet(R)
  BY <1>1, FS_Subset
<1>3. Cardinality(R) \in Nat
  BY <1>2, FS_CardinalityType
<1> PICK c \in Nat : c = Cardinality(R)
  BY <1>3
<1>4. ASSUME NEW j \in R PROVE Rank(j, R) \in 1..c
  <2> PICK L : L = {m \in R : m <= j}
    OBVIOUS
  <2>1. L \in SUBSET R /\ j \in L
    BY <1>1
  <2>2. IsFiniteSet(L) /\ Cardinality(L) <= c
    BY <1>2, <2>1, FS_Subset
  <2>3. Cardinality(L) \in Nat
    BY <2>2, FS_CardinalityType
  <2>4. Cardinality(L) # 0
    BY <2>1, <2>2, FS_EmptySet
  <2> QED
    BY <2>2, <2>3, <2>4 DEF Rank
<1>5. ASSUME NEW i \in R, NEW j \in R, Rank(i, R) = Rank(j, R) PROVE i = j
  <2>1. i \in Int /\ j \in Int /\ (i = j \/ i < j \/ j < i)
    BY <1>1
  <2>2. i < j => Rank(i, R) < Rank(j, R)
    BY RanksDiffer
  <2>3. j < i => Rank(j, R) < Rank(i, R)
    BY RanksDiffer
  <2>4. Rank(i, R) \in Int /\ Rank(j, R) \in Int
    BY <1>4
  <2> QED
    BY <1>5, <2>1, <2>2, <2>3, <2>4
<1> PICK f : f = [j \in R |-> Rank(j, R)]
  OBVIOUS
<1>6. f \in [R -> 1..c] /\ \A i, j \in R : f[i] = f[j] => i = j
  BY <1>4, <1>5
<1>7. f \in Injection(R, 1..c)
  BY <1>6 DEF Injection, IsInjective
<1>8. IsFiniteSet(1..c) /\ Cardinality(1..c) = c
  BY FS_Interval
<1>9. f \in Surjection(R, 1..c)
  BY <1>7, <1>8, FS_Injection
<1>10. \A k \in 1..c : \E j \in R : f[j] = k
  BY <1>9 DEF Surjection
<1> QED
  BY <1>2, <1>10

\* A projection holds nothing but the rows it is of, and is the same while they are.
LEMMA ItemsAreRows ==
    ASSUME IsLog, NEW R, R \subseteq 1..Len(log)
    PROVE  /\ Cardinality(R) \in Nat
           /\ \A k \in 1..Cardinality(R) : \E j \in R : Items(R)[k] = log[j].item
           /\ (\A j \in R : log'[j] = log[j]) => Items(R)' = Items(R)
<1>1. Len(log) \in Nat
  BY Lengths
<1>2. IsFiniteSet(R) /\ \A k \in 1..Cardinality(R) : \E j \in R : Rank(j, R) = k
  BY <1>1, EveryRank
<1>3. Cardinality(R) \in Nat
  BY <1>2, FS_CardinalityType
<1> PICK c \in Nat : c = Cardinality(R)
  BY <1>3
<1> DEFINE Row(k) == CHOOSE i \in R : Rank(i, R) = k
<1>4. ASSUME NEW k \in 1..c PROVE Row(k) \in R
  BY <1>2
<1>5. Items(R) = [k \in 1..c |-> log[Row(k)].item]
  BY DEF Items
<1>6. Items(R)' = [k \in 1..c |-> log'[Row(k)].item]
  BY DEF Items
<1> HIDE DEF Row
<1>7. \A k \in 1..c : \E j \in R : Items(R)[k] = log[j].item
  BY <1>4, <1>5
<1>8. ASSUME \A j \in R : log'[j] = log[j] PROVE Items(R)' = Items(R)
  <2>1. \A k \in 1..c : log'[Row(k)] = log[Row(k)]
    BY <1>4, <1>8
  <2> QED
    BY <1>5, <1>6, <2>1
<1> QED
  BY <1>3, <1>7, <1>8

Kinds == {"observation", "settlement", "evaluation", "finalization"}
RowTypes == \A i \in 1..Len(log) :
    /\ log[i].kind \in Kinds /\ log[i].at \in Time
    /\ IsTarget(i) => log[i].notAfter \in Nat
    /\ log[i].kind = "settlement" => log[i].item \in Settlements
OtherTypes ==
    /\ now \in Time /\ mishaps \in Nat
    /\ holder \in Procs \cup {None} /\ clock \in Procs \cup {None}
    /\ worker.owner \in Procs \cup {None} /\ worker.revision \in Nat

\* A predecessor and an ordinal that name the end of the chain so far (append).
EndsChain(o, items) ==
    /\ o.ordinal = Len(items) + 1
    /\ o.predecessor = IF Len(items) = 0 THEN "none" ELSE items[Len(items)].digest

RowsInv ==
    /\ RowTypes /\ OtherTypes
    /\ \A i \in Targets("observation") :
        /\ VerifiesObservation(log[i].item, log[i].at, TRUE)
        /\ EndsChain(log[i].item, Items(Observed(i)))
    /\ \A i \in Targets("settlement") :
        \E j \in Targets("observation") : log[j].item.digest = log[i].item.observation

\* The rows and the invariant keep the rest of the types (_validate_event_schema).
LEMMA TypesHold ==
    ASSUME LedgerInv, RowsInv
    PROVE  TypeOK
BY DEF LedgerInv, AnchorIsNear, CallsHold, RowsInv, RowTypes, OtherTypes, Kinds, TypeOK

\* A new row keeps the rows there were, and is itself a row that opening accepts.
LEMMA RowsInvGrow ==
    ASSUME LedgerInv, RowsInv, NEW e, log' = Append(log, e), OtherTypes',
           e.kind \in Kinds, e.at \in Time,
           e.kind # "finalization" => e.notAfter \in Nat,
           e.kind = "settlement" => e.item \in Settlements,
           e.kind = "observation" => /\ VerifiesObservation(e.item, e.at, TRUE)
                                     /\ EndsChain(e.item, AllObservations),
           e.kind = "settlement" =>
               \E j \in Targets("observation") : log[j].item.digest = e.item.observation
    PROVE  RowsInv'
<1> PICK n : n = Len(log) + 1
  OBVIOUS
<1>0. /\ Len(log) \in Nat /\ Len(log') = n /\ log'[n] = e /\ n \notin 1..Len(log) /\ IsLog
      /\ \A k \in 1..Len(log) : log'[k] = log[k] /\ k < n
  BY RowsKeep DEF LedgerInv
<1>1. ASSUME NEW kind
      PROVE  Targets(kind)' = Targets(kind) \cup (IF e.kind = kind THEN {n} ELSE {})
  BY <1>0 DEF Targets
<1>2. RowTypes'
  <2> SUFFICES ASSUME NEW i \in 1..Len(log')
               PROVE  /\ log'[i].kind \in Kinds /\ log'[i].at \in Time
                      /\ log'[i].kind # "finalization" => log'[i].notAfter \in Nat
                      /\ log'[i].kind = "settlement" => log'[i].item \in Settlements
    BY DEF RowTypes, IsTarget
  <2>1. CASE i = n
    BY <1>0, <2>1
  <2>2. CASE i # n
    <3>1. i \in 1..Len(log) /\ log'[i] = log[i]
      BY <1>0, <2>2
    <3> QED
      BY <3>1 DEF RowsInv, RowTypes, IsTarget
  <2> QED
    BY <2>1, <2>2
<1>3. ASSUME NEW R, R \subseteq 1..Len(log)
      PROVE  Items(R)' = Items(R)
  BY <1>0, <1>3, ItemsAreRows
<1>4. ASSUME NEW i \in Targets("observation")'
      PROVE  /\ VerifiesObservation(log'[i].item, log'[i].at, TRUE)
             /\ EndsChain(log'[i].item, Items(Observed(i))')
  <2>1. Targets("observation") \subseteq 1..Len(log)
    BY DEF Targets
  <2> PICK R : R = Observed(i)'
    OBVIOUS
  <2>2. R \subseteq 1..Len(log)
    BY <1>0, <1>1, <2>1 DEF Observed
  <2>3. Items(R)' = Items(R)
    BY <1>3, <2>2
  <2>4. CASE i \in Targets("observation")
    <3>1. log'[i] = log[i] /\ i \in 1..Len(log) /\ i < n
      BY <1>0, <2>1, <2>4
    <3>2. R = Observed(i)
      BY <1>1, <3>1 DEF Observed
    <3>3. /\ VerifiesObservation(log[i].item, log[i].at, TRUE)
          /\ EndsChain(log[i].item, Items(R))
      BY <2>4, <3>2 DEF RowsInv
    <3> QED
      BY <2>3, <3>1, <3>3
  <2>5. CASE i = n /\ e.kind = "observation"
    <3>1. R = Targets("observation")
      BY <1>0, <1>1, <2>1, <2>5 DEF Observed
    <3>2. EndsChain(e.item, Items(R))
      BY <2>5, <3>1 DEF AllObservations
    <3> QED
      BY <1>0, <2>3, <2>5, <3>2
  <2> QED
    BY <1>1, <2>4, <2>5
<1>5. ASSUME NEW i \in Targets("settlement")'
      PROVE  \E j \in Targets("observation")' : log'[j].item.digest = log'[i].item.observation
  <2>1. ASSUME NEW j \in Targets("observation")
        PROVE  j \in Targets("observation")' /\ log'[j] = log[j]
    BY <1>0, <1>1 DEF Targets
  <2>2. \E j \in Targets("observation") : log[j].item.digest = log'[i].item.observation
    <3>1. CASE i \in Targets("settlement")
      <4>1. log'[i] = log[i]
        BY <1>0, <3>1 DEF Targets
      <4> QED
        BY <3>1, <4>1 DEF RowsInv
    <3>2. CASE i = n /\ e.kind = "settlement"
      BY <1>0, <3>2
    <3> QED
      BY <1>1, <3>1, <3>2
  <2> QED
    BY <2>1, <2>2
<1> QED
  BY <1>2, <1>4, <1>5 DEF RowsInv

\* What is said of the rows depends on the rows alone.
LEMMA RowsInvStays ==
    ASSUME RowsInv, OtherTypes', UNCHANGED log
    PROVE  RowsInv'
<1>1. ASSUME NEW kind PROVE Targets(kind)' = Targets(kind)
  BY DEF Targets
<1>2. RowTypes'
  BY DEF RowsInv, RowTypes, IsTarget
<1>3. ASSUME NEW i PROVE Items(Observed(i))' = Items(Observed(i))
  <2>1. Targets("observation")' = Targets("observation")
    BY <1>1
  <2>2. Observed(i)' = Observed(i)
    BY <2>1 DEF Observed
  <2> QED
    BY <2>2 DEF Items, Rank
<1>4. ASSUME NEW i \in Targets("observation")'
      PROVE  /\ VerifiesObservation(log'[i].item, log'[i].at, TRUE)
             /\ EndsChain(log'[i].item, Items(Observed(i))')
  BY <1>1, <1>3 DEF RowsInv
<1>5. ASSUME NEW i \in Targets("settlement")'
      PROVE  \E j \in Targets("observation")' : log'[j].item.digest = log'[i].item.observation
  <2>1. Targets("observation")' = Targets("observation")
        /\ Targets("settlement")' = Targets("settlement")
    BY <1>1
  <2> QED
    BY <2>1 DEF RowsInv
<1> QED
  BY <1>2, <1>4, <1>5 DEF RowsInv

\* A snapshot that can be evaluated binds an observation of the ledger
\* (append_settlement, verify_settlement_evidence).
LEMMA SnapshotBindsRow ==
    ASSUME LedgerInv, NEW s, NEW t, Evaluable(ActiveObservations, {s}, t)
    PROVE  \E j \in Targets("observation") : log[j].item.digest = s.observation
<1> PICK items : items = ActiveObservations
  OBVIOUS
<1>1. items = Items(Unexpired) /\ Unexpired \subseteq 1..Len(log) /\ IsLog
  BY DEF ActiveObservations, Unexpired, Targets, LedgerInv
<1>2. PICK i \in 1..Len(items) : items[i].digest = s.observation
  BY DEF Evaluable, SettlementHolds
<1>3. Len(items) = Cardinality(Unexpired)
  BY <1>1, ItemsHoldRows
<1>4. PICK j \in Unexpired : Items(Unexpired)[i] = log[j].item
  <2>1. i \in 1..Cardinality(Unexpired)
    BY <1>2, <1>3
  <2>2. \A k \in 1..Cardinality(Unexpired) :
            \E j \in Unexpired : Items(Unexpired)[k] = log[j].item
    BY <1>1, ItemsAreRows
  <2> QED
    BY <2>1, <2>2
<1>5. items[i] = log[j].item /\ j \in Targets("observation")
  BY <1>1, <1>4 DEF Unexpired
<1> QED
  BY <1>2, <1>5

\* The types that no row depends on.
LEMMA OtherStep ==
    ASSUME LedgerInv, OtherTypes, [Next]_vars
    PROVE  OtherTypes'
<1>1. ASSUME NEW p \in Procs, NEW e, Commits(p, e), UNCHANGED now PROVE OtherTypes'
  BY <1>1 DEF Commits, OtherTypes
<1>2. Len(log) \in Nat
  BY Lengths DEF LedgerInv
<1>3. ASSUME NEW p \in Procs, Ends(p) PROVE holder' \in Procs \cup {None}
  BY <1>3 DEF Ends, OtherTypes
<1>4. CASE \E p \in Procs, t \in Time :
             \/ Stamp(p, t) \/ Evaluate(p, t)
             \/ \E o \in Observations : AppendObservation(p, o, t)
             \/ \E e \in Settlements : AppendSettlement(p, e, t)
  <2>1. UNCHANGED <<now, holder, worker, clock, mishaps>>
    BY <1>4 DEF Stamp, Evaluate, AppendObservation, AppendSettlement, Records, Commits
  <2> QED
    BY <2>1 DEF OtherTypes
<1>5. CASE \E p \in Procs : Enter(p) \/ Verify(p) \/ Publish(p)
  BY <1>3, <1>5 DEF Enter, Verify, Publish, OtherTypes
<1>6. CASE \E p \in Procs :
             \/ Read(p) \/ Fail(p)
             \/ \E o \in Observations : ReplayObservation(p, o)
             \/ \E e \in Settlements : ReplaySettlement(p, e)
  <2>1. PICK p \in Procs : Ends(p) /\ UNCHANGED <<now, worker, clock, mishaps>>
    BY <1>6 DEF Read, Fail, ReplayObservation, ReplaySettlement, Replays
  <2> QED
    BY <1>3, <2>1 DEF OtherTypes
<1>7. CASE \E p \in Procs : AnchorHangs(p)
  BY <1>2, <1>3, <1>7 DEF AnchorHangs, Mishap, OtherTypes
<1>8. CASE \E p \in Procs : ClockHangs(p)
  BY <1>3, <1>8 DEF ClockHangs, Mishap, OtherTypes
<1>9. CASE \E p \in Procs : Crash(p)
  BY <1>3, <1>9 DEF Crash, Mishap, NoWorker, OtherTypes
<1>10. CASE AnchorReturns \/ ClockReturns
  BY <1>10 DEF AnchorReturns, ClockReturns, NoWorker, OtherTypes
<1>11. CASE Tick
  BY <1>11, LedgerBounds DEF Tick, Time, OtherTypes
<1>12. CASE UNCHANGED vars
  BY <1>12 DEF vars, OtherTypes
<1> QED
  BY <1>4, <1>5, <1>6, <1>7, <1>8, <1>9, <1>10, <1>11, <1>12 DEF Next

\* Among natural numbers there is a least one.
LEMMA LeastOne ==
    ASSUME NEW S, S \subseteq Nat, S # {}
    PROVE  Min(S) \in Nat
<1>1. PICK x \in S : \A y \in S : ~ (<<y, x>> \in OpToRel(<, Nat))
  BY NatLessThanWellFounded, WFMin
<1>2. ASSUME NEW y \in S PROVE x =< y
  <2>1. <<y, x>> \in Nat \X Nat /\ ~ (<<y, x>>[1] < <<y, x>>[2])
    BY <1>1 DEF OpToRel
  <2> QED
    BY <2>1
<1>3. Min(S) \in S
  BY <1>2 DEF Min
<1> QED
  BY <1>3

\* An event that rests on settlement snapshots has a deadline (_finalize_event).
LEMMA EvidenceEnds ==
    ASSUME NEW evidence, evidence \subseteq Settlements
    PROVE  SettlementNotAfter(evidence) \in Nat
<1> PICK S : S = {PlanUntil} \cup {e.expires : e \in evidence}
  OBVIOUS
<1>1. S \subseteq Nat /\ S # {}
  BY PolicyAssumption, LedgerBounds
<1>2. Min(S) \in Nat
  BY <1>1, LeastOne
<1> QED
  BY <1>2 DEF SettlementNotAfter

\* Every step keeps the rows.
LEMMA RowsInvStep ==
    ASSUME LedgerInv, RowsInv, [Next]_vars
    PROVE  RowsInv'
<1>0. OtherTypes'
  BY OtherStep DEF RowsInv
<1>1. ASSUME NEW p \in Procs, NEW t \in Time, NEW o \in Observations, AppendObservation(p, o, t)
      PROVE  RowsInv'
  <2> PICK e : e = Event("observation", o, t, o.expires)
    OBVIOUS
  <2>1. log' = Append(log, e) /\ VerifiesObservation(o, t, TRUE) /\ IsTail(o)
    BY <1>1 DEF AppendObservation, Records, Commits
  <2>2. e.kind = "observation" /\ e.item = o /\ e.at = t /\ e.notAfter \in Nat
    BY LedgerBounds DEF Event
  <2>3. EndsChain(o, AllObservations)
    BY <2>1 DEF IsTail, EndsChain
  <2> QED
    BY <1>0, <2>1, <2>2, <2>3, RowsInvGrow DEF Kinds
<1>2. ASSUME NEW p \in Procs, NEW t \in Time, NEW s \in Settlements, AppendSettlement(p, s, t)
      PROVE  RowsInv'
  <2> PICK until : until = SettlementNotAfter({s})
    OBVIOUS
  <2> PICK e : e = Event("settlement", s, t, until)
    OBVIOUS
  <2>1. log' = Append(log, e) /\ Evaluable(ActiveObservations, {s}, t)
    BY <1>2 DEF AppendSettlement, Records, Commits
  <2>2. e.kind = "settlement" /\ e.item = s /\ e.at = t /\ e.notAfter \in Nat
    <3>1. {s} \subseteq Settlements
      OBVIOUS
    <3>2. until \in Nat
      BY <3>1, EvidenceEnds
    <3> QED
      BY <3>2 DEF Event
  <2>3. \E j \in Targets("observation") : log[j].item.digest = e.item.observation
    BY <2>1, <2>2, SnapshotBindsRow
  <2> QED
    BY <1>0, <2>1, <2>2, <2>3, RowsInvGrow DEF Kinds
<1>3. ASSUME NEW p \in Procs, NEW t \in Time, Evaluate(p, t)
      PROVE  RowsInv'
  <2> PICK report : report = Report(ActiveObservations, LatestSettlements)
    OBVIOUS
  <2> PICK until : until = SettlementNotAfter(LatestSettlements)
    OBVIOUS
  <2> PICK e : e = Event("evaluation", report, t, until)
    OBVIOUS
  <2>1. Records(p, "evaluation", report, t, until)
    BY <1>3 DEF Evaluate
  <2>2. log' = Append(log, e) /\ e.kind = "evaluation" /\ e.at = t /\ e.notAfter = until
    BY <2>1 DEF Records, Commits, Event
  <2>3. LatestSettlements \subseteq Settlements
    <3>1. ASSUME NEW i, i \in Targets("settlement") PROVE log[i].item \in Settlements
      BY <3>1 DEF RowsInv, RowTypes, Targets
    <3> QED
      BY <3>1 DEF LatestSettlements, NewestSnapshot, SettlementsOf
  <2>4. until \in Nat
    BY <2>3, EvidenceEnds
  <2> QED
    BY <1>0, <2>2, <2>4, RowsInvGrow DEF Kinds
<1>4. ASSUME NEW p \in Procs, NEW t \in Time, Stamp(p, t)
      PROVE  RowsInv'
  <2> PICK e : e = Event("finalization", Verdict(t, log[Len(log)]), t, 0)
    OBVIOUS
  <2>1. log' = Append(log, e) /\ e.kind = "finalization" /\ e.at = t
    BY <1>4 DEF Stamp, Commits, Event
  <2> QED
    BY <1>0, <2>1, RowsInvGrow DEF Kinds
<1>5. ASSUME NEW p \in Procs,
             \/ Enter(p) \/ Verify(p) \/ Publish(p) \/ Read(p)
             \/ \E o \in Observations : ReplayObservation(p, o)
             \/ \E e \in Settlements : ReplaySettlement(p, e)
             \/ Fail(p) \/ AnchorHangs(p) \/ ClockHangs(p) \/ Crash(p)
      PROVE  RowsInv'
  BY <1>0, <1>5, CallStep, RowsInvStays
<1>6. CASE AnchorReturns \/ ClockReturns \/ Tick \/ UNCHANGED vars
  BY <1>0, <1>6, RowsInvStays DEF AnchorReturns, ClockReturns, Tick, vars
<1> QED
  BY <1>1, <1>2, <1>3, <1>4, <1>5, <1>6 DEF Next

\* Every row is one that opening accepts, unless two windows share an identity
\* (_assert_integrity).
LEMMA RowsAreAccepted ==
    ASSUME LedgerInv, RowsInv, IdentitiesAreUnique
    PROVE  RowsHold
<1> SUFFICES ASSUME NEW i \in 1..Len(log)
             PROVE  RowHolds(i) /\ (IsTarget(i) /\ i < Len(log) => ~IsTarget(i + 1))
  BY DEF RowsHold
<1>0. Len(log) \in Nat /\ IsLog
  BY Lengths DEF LedgerInv
<1>1. i > 1 => log[i - 1].at <= log[i].at
  BY DEF LedgerInv, RowsFollow
<1>2. ASSUME log[i].kind = "observation"
      PROVE  /\ VerifiesObservation(log[i].item, log[i].at, TRUE)
             /\ ExtendsChain(log[i].item, Items({j \in Targets("observation") : j < i}))
  <2> PICK R : R = Observed(i)
    OBVIOUS
  <2>1. i \in Targets("observation")
    BY <1>2 DEF Targets
  <2>2. /\ VerifiesObservation(log[i].item, log[i].at, TRUE)
        /\ EndsChain(log[i].item, Items(R))
    BY <2>1 DEF RowsInv
  <2>3. R \subseteq 1..Len(log) /\ \A j \in R : j \in Targets("observation") /\ j # i
    BY <1>0 DEF Observed, Targets
  <2>4. ASSUME NEW k \in 1..Len(Items(R))
        PROVE  log[i].item.tokens \cap Items(R)[k].tokens = {}
    <3>1. k \in 1..Cardinality(R)
      BY <1>0, <2>3, ItemsHoldRows
    <3>2. \A l \in 1..Cardinality(R) : \E j \in R : Items(R)[l] = log[j].item
      BY <1>0, <2>3, ItemsAreRows
    <3>3. PICK j \in R : Items(R)[k] = log[j].item
      BY <3>1, <3>2
    <3>4. log[i].item.tokens \cap log[j].item.tokens = {}
      BY <2>1, <2>3 DEF IdentitiesAreUnique
    <3> QED
      BY <3>3, <3>4
  <2>5. ExtendsChain(log[i].item, Items(R))
    BY <2>2, <2>4 DEF EndsChain, ExtendsChain
  <2>6. R = {j \in Targets("observation") : j < i}
    BY DEF Observed
  <2> QED
    BY <2>2, <2>5, <2>6
<1>3. log[i].kind = "settlement" =>
          \E j \in Targets("observation") : log[j].item.digest = log[i].item.observation
  BY DEF RowsInv, Targets
<1>4. ASSUME log[i].kind = "finalization"
      PROVE  /\ i > 1 /\ IsTarget(i - 1)
             /\ log[i].item = "accepted" => log[i].at < log[i - 1].notAfter
             /\ log[i].item = "expired" => log[i].at >= log[i - 1].notAfter
  <2>1. ~IsTarget(i)
    BY <1>4 DEF IsTarget
  <2>2. i - 1 \in 1..Len(log) /\ IsTarget(i - 1)
    BY <2>1, Finalized
  <2>3. log[i].item = Verdict(log[i].at, log[i - 1]) /\ log[i].at \in Nat
    BY <2>1 DEF LedgerInv, RowsFollow
  <2>4. log[i - 1].notAfter \in Nat
    BY <2>2 DEF RowsInv, RowTypes
  <2>5. i > 1
    BY <2>2
  <2> QED
    BY <2>2, <2>3, <2>4, <2>5 DEF Verdict
<1>5. ASSUME IsTarget(i), i < Len(log) PROVE ~IsTarget(i + 1)
  <2>1. PICK k \in Nat : i = 2 * k + 1
    BY <1>5, PlaceOf
  <2>2. i + 1 = 2 * k + 2 /\ 2 * k + 2 <= Len(log)
    BY <1>0, <1>5, <2>1
  <2> QED
    BY <2>2, Places
<1> QED
  BY <1>1, <1>2, <1>3, <1>4, <1>5 DEF RowHolds

\* Whatever failed, crashed or hung, the ledger stays one that opening accepts, unless
\* two windows that are not neighbours share an identity: append compares a window with
\* the last one only, so that much is all that can be wrong (_assert_integrity).
THEOREM LedgerReopens == Spec => [](IdentitiesAreUnique => LedgerInvariant)
<1>1. Init => RowsInv
  <2> SUFFICES ASSUME Init PROVE RowsInv
    OBVIOUS
  <2>1. log = <<>> /\ Len(log) = 0
    BY EmptySeq DEF Init
  <2>2. \A kind : Targets(kind) = {}
    BY <2>1 DEF Targets
  <2>3. RowTypes
    BY <2>1 DEF RowTypes
  <2>4. OtherTypes
    BY LedgerBounds DEF Init, OtherTypes, NoWorker, Time
  <2> QED
    BY <2>2, <2>3, <2>4 DEF RowsInv
<1>2. LedgerInv /\ RowsInv /\ [Next]_vars => RowsInv'
  BY RowsInvStep
<1>3. LedgerInv /\ RowsInv => (IdentitiesAreUnique => LedgerInvariant)
  <2> SUFFICES ASSUME LedgerInv, RowsInv, IdentitiesAreUnique PROVE LedgerInvariant
    OBVIOUS
  <2>1. TypeOK /\ RowsHold
    BY TypesHold, RowsAreAccepted
  <2>2. \A p \in Procs : pc[p] \in Holding <=> holder = p
    BY DEF LedgerInv, CallsHold, CallHolds
  <2>3. anchor \in {Len(log), prior} /\ Len(log) \in {prior, prior + 1}
    BY DEF LedgerInv, AnchorIsNear
  <2> QED
    BY <2>1, <2>2, <2>3 DEF LedgerInvariant
<1> QED
  BY <1>1, <1>2, <1>3, LedgerIsSound, PTL DEF Spec
=============================================================================
