---------------------------- MODULE RepositoryProofs ----------------------------
(***************************************************************************)
(* What saas_preflight's P18 promises about a repository that others edit, *)
(* for any number of processes, files, edits and checks: InventoryIsATree  *)
(* and DiagnosticIsHonest of a local run (V).                              *)
(*                                                                         *)
(* Versions of a file only grow. What a run has read is therefore no newer *)
(* than the tree that is there, the tree between its two readings, or      *)
(* while its checks run, lies between what they read, and where they read  *)
(* the same there was nothing else to see.                                 *)
(***************************************************************************)
EXTENDS EvidenceStores, TLAPS

-----------------------------------------------------------------------------
(* What a check says *)

CountRecords == [assertions : Int, failures : Int, skipped : Int, exit : Int]

\* The least of two numbers (_parse_pytest_junit and its like).
LEMMA LeastOfTwo ==
    ASSUME NEW a \in Int, NEW b \in Int
    PROVE  Min({a, b}) = IF a <= b THEN a ELSE b
BY DEF Min

LEMMA GreaterOfTwo ==
    ASSUME NEW a \in Int, NEW b \in Int
    PROVE  Max({a, b}) = IF a <= b THEN b ELSE a
BY DEF Max

\* No fact says that a check succeeded unless its child printed enough passed
\* assertions and nothing else, and ended well itself
\* (_parse_repository_verification_check_result and the floor of the registry).
LEMMA SuccessIsSaid ==
    ASSUME NEW check \in DOMAIN Least, NEW code \in Int,
           NEW printed, printed \in CountRecords \/ printed = NoReading,
           Succeeded(Fact(check, Parsed(printed, code)))
    PROVE  WentWell(check, printed, code)
<1> DEFINE p == Parsed(printed, code)
           r == Floored(check, p)
           f == AtMost(r.failures, r.assertions)
           fact == Fact(check, p)
<1>1. p \in CountRecords
  BY DEF Parsed, CountRecords, Counts
<1>2. p.assertions >= 1 /\ p.failures + p.skipped <= p.assertions
  BY DEF Parsed, Agrees, Counts
<1>3. r \in CountRecords /\ r.assertions = p.assertions /\ r.skipped = p.skipped
      /\ r.exit = p.exit
      /\ r.failures = IF p.assertions < Least[check] THEN Max({p.failures, 1}) ELSE p.failures
  <2>1. Max({p.failures, 1}) \in Int
    BY <1>1, GreaterOfTwo DEF CountRecords
  <2> QED
    BY <1>1, <2>1 DEF Floored, CountRecords
<1>4. f \in Int /\ f = IF r.failures <= r.assertions THEN r.failures ELSE r.assertions
  BY <1>3, LeastOfTwo DEF AtMost, CountRecords
<1>5. fact.failures = f /\ fact.exit = r.exit /\ fact.skipped = AtMost(r.skipped, r.assertions - f)
  BY <1>3 DEF Fact, CountRecords
<1>6. f = 0 /\ r.exit = 0 /\ AtMost(r.skipped, r.assertions - f) = 0
  BY <1>5 DEF Succeeded
<1>7. r.failures = 0
  BY <1>2, <1>3, <1>4, <1>6 DEF CountRecords
<1>8. r.skipped = 0
  <2>1. r.skipped \in Int /\ r.assertions \in Int
    BY <1>3 DEF CountRecords
  <2>2. r.assertions - f = r.assertions
    BY <1>6, <2>1
  <2>3. AtMost(r.skipped, r.assertions)
            = IF r.skipped <= r.assertions THEN r.skipped ELSE r.assertions
    BY <2>1, LeastOfTwo DEF AtMost
  <2> QED
    BY <1>2, <1>3, <1>6, <2>1, <2>2, <2>3
<1>9. p.failures = 0 /\ p.assertions >= Least[check]
  <2>1. Max({p.failures, 1}) >= 1
    BY <1>1, GreaterOfTwo DEF CountRecords
  <2> QED
    BY <1>1, <1>3, <1>7, <2>1, FloorsArePositive DEF CountRecords
<1>10. printed # NoReading /\ printed = p /\ printed.exit = code
  BY <1>9 DEF Parsed, Agrees, Counts
<1> QED
  BY <1>3, <1>6, <1>8, <1>9, <1>10 DEF WentWell

\* Whatever a check may give, it is honest (run_repository_verification_check).
LEMMA OutcomesAreHonest ==
    ASSUME NEW check \in DOMAIN Outcomes, NEW outcome \in Outcomes[check]
    PROVE  outcome[1] \in BOOLEAN /\ (outcome[1] => outcome[2])
<1>1. check \in DOMAIN Least
  BY DEF Outcomes
<1>2. PICK printed \in Results(check) \cup {NoReading}, code \in {0, 1, 3, 124} :
        outcome = <<Succeeded(Fact(check, Parsed(printed, code))), WentWell(check, printed, code)>>
  BY <1>1 DEF Outcomes
<1>3. printed \in CountRecords \/ printed = NoReading
  BY <1>1, CountsAreNumbers DEF CountRecords
<1>4. Succeeded(Fact(check, Parsed(printed, code))) => WentWell(check, printed, code)
  BY <1>1, <1>3, SuccessIsSaid
<1>5. outcome[1] = Succeeded(Fact(check, Parsed(printed, code)))
      /\ outcome[2] = WentWell(check, printed, code)
  BY <1>2
<1>6. Succeeded(Fact(check, Parsed(printed, code))) \in BOOLEAN
  BY DEF Succeeded
<1> QED
  BY <1>4, <1>5, <1>6

-----------------------------------------------------------------------------
(* The invariant of a local run, for one call r, the trees s that it has seen *)
(* and the tree t that is there now                                           *)

Contents == [0..FileCount -> Nat]
Calls ==
    [pc : {"idle", "scan", "lock", "check", "compare", "done"},
     mode : {"none", "inventory", "initial", "final"},
     first : Seq(Nat), second : Seq(Nat), initial : Seq(Nat), closure : Nat,
     checked : Nat, passed : BOOLEAN, honest : BOOLEAN]

\* From the first check to the comparison.
Verifies(r) == r.pc \in {"check", "compare"} \/ (r.pc = "scan" /\ r.mode = "final")
Inventories(r) == r.pc = "scan" /\ r.mode = "inventory"
Reads(r) == r.pc = "scan" \/ r.pc = "lock"

\* How far a call has read when it is where it is.
Shape(r) ==
    /\ Len(r.first) <= FileCount /\ Len(r.second) <= FileCount
    /\ r.second # <<>> => Len(r.first) = FileCount
    /\ r.pc = "scan" => r.mode # "none"
    /\ r.pc \in {"lock", "compare"} => Len(r.second) = FileCount
    /\ r.pc = "compare" => r.mode = "final"
    /\ r.pc = "lock" => r.mode = "initial"
    /\ r.pc = "done" => r.mode \in {"inventory", "final"}
    /\ Verifies(r) => Len(r.initial) = FileCount
    /\ Verifies(r) /\ r.pc # "check" => r.checked = Len(CheckList)
    /\ r.checked <= Len(CheckList)
    /\ r.honest = TRUE

\* What was read is no newer than what is there.
IsOld(reading, t) == \A f \in 1..Len(reading) : reading[f] <= t[f]

\* A tree that was there between the two readings.
Middle(r, m, t) ==
    /\ \A f \in V!Files : r.first[f] <= m[f] /\ m[f] <= t[f]
    /\ \A f \in 1..Len(r.second) : m[f] <= r.second[f]

\* A tree that was there while the checks ran.
Between(r, m, t) ==
    /\ r.closure <= m[0] /\ m[0] <= t[0]
    /\ \A f \in V!Files : r.initial[f] <= m[f] /\ m[f] <= t[f]
    /\ r.pc # "check" => \A f \in 1..Len(r.second) : m[f] <= r.second[f]

Sound(r, s, t) ==
    /\ Shape(r)
    /\ Reads(r) => IsOld(r.first, t) /\ IsOld(r.second, t)
    /\ Inventories(r) =>
        t \in s /\ (Len(r.first) = FileCount => \E m \in s : Middle(r, m, t))
    /\ Verifies(r) => \A m \in s : Between(r, m, t)
    /\ r.pc = "check" => t \in s
    /\ r.pc = "done" /\ r.mode = "inventory" =>
        \E m \in s : \A f \in V!Files : r.second[f] = m[f]
    /\ r.pc = "done" /\ r.mode = "final" =>
        /\ r.checked = Len(CheckList)
        /\ \A m \in s : m[0] = r.closure /\ \A f \in V!Files : m[f] = r.second[f]

RunTypes ==
    /\ tree \in Contents /\ edits \in Nat /\ \A f \in 0..FileCount : tree[f] <= edits
    /\ run \in [Runners -> Calls] /\ seen \in [Runners -> SUBSET Contents]

LockIsHeld == \A p \in Runners : Verifies(run[p]) => locked = p

RunInv ==
    /\ RunTypes /\ LockIsHeld
    /\ \A p \in Runners : Sound(run[p], seen[p], tree)

-----------------------------------------------------------------------------
(* Steps of one call *)

\* A call moves; the others stay as they are (run_repository_verification).
LEMMA OneMoves ==
    ASSUME RunInv, NEW p \in Runners, NEW r \in Calls, V!Moves(p, r),
           NEW s \in SUBSET Contents, seen' = [seen EXCEPT ![p] = s],
           UNCHANGED <<tree, edits>>, Sound(r, s, tree),
           Verifies(r) => locked' = p,
           \A q \in Runners \ {p} : locked = q => locked' = q
    PROVE  RunInv'
<1>1. /\ run' \in [Runners -> Calls] /\ run'[p] = r
      /\ \A q \in Runners \ {p} : run'[q] = run[q]
      /\ seen' \in [Runners -> SUBSET Contents] /\ seen'[p] = s
      /\ \A q \in Runners \ {p} : seen'[q] = seen[q]
  BY DEF RunInv, RunTypes, V!Moves
<1>2. RunTypes'
  BY <1>1 DEF RunInv, RunTypes, Contents
<1>3. ASSUME NEW q \in Runners PROVE (Verifies(run[q]) => locked = q)'
  BY <1>1 DEF RunInv, LockIsHeld, Verifies
<1>4. ASSUME NEW q \in Runners PROVE Sound(run[q], seen[q], tree)'
  <2>1. CASE q = p
    BY <1>1, <2>1 DEF Sound, Shape, Reads, Inventories, Verifies, IsOld, Middle, Between
  <2>2. CASE q # p
    <3>1. Sound(run[q], seen[q], tree) /\ run'[q] = run[q] /\ seen'[q] = seen[q] /\ tree' = tree
      BY <1>1, <2>2 DEF RunInv
    <3> QED
      BY <3>1 DEF Sound, Shape, Reads, Inventories, Verifies, IsOld, Middle, Between
  <2> QED
    BY <2>1, <2>2
<1> QED
  BY <1>2, <1>3, <1>4 DEF RunInv, LockIsHeld

\* A call that has read nothing owes nothing.
LEMMA IdleIsSound ==
    ASSUME NEW s, NEW t
    PROVE  V!Idle \in Calls /\ Sound(V!Idle, s, t) /\ ~Verifies(V!Idle)
<1>1. Len(<<>>) = 0 /\ <<>> \in Seq(Nat) /\ FileCount \in Nat /\ CheckList \in Seq(DOMAIN Outcomes)
  BY PartBounds DEF V!RepositoryBounds
<1>2. V!Idle \in Calls
  BY <1>1 DEF V!Idle, Calls
<1>3. Len(CheckList) \in Nat
  BY <1>1
<1> QED
  BY <1>1, <1>2, <1>3
  DEF V!Idle, Sound, Shape, Verifies, Reads, Inventories

\* A call that fails gives up what it read and its lock (Changed, Refused, Die).
LEMMA FailStep ==
    ASSUME RunInv, NEW p \in Runners, V!Fails(p), UNCHANGED <<tree, edits, seen>>
    PROVE  RunInv'
<1>1. seen[p] \in SUBSET Contents /\ seen' = [seen EXCEPT ![p] = seen[p]]
  BY DEF RunInv, RunTypes
<1>2. \A q \in Runners \ {p} : locked = q => locked' = q
  BY DEF V!Fails
<1>3. Sound(V!Idle, seen[p], tree) /\ V!Idle \in Calls /\ ~Verifies(V!Idle)
  BY IdleIsSound
<1> QED
  BY <1>1, <1>2, <1>3, OneMoves DEF V!Fails

\* A call that starts to read has read nothing yet (_collect_repository_inventory).
LEMMA ScanIsACall ==
    ASSUME NEW r \in Calls, NEW mode \in {"inventory", "initial", "final"},
           NEW n, n = V!Scan(r, mode)
    PROVE  /\ n \in Calls /\ n.pc = "scan" /\ n.mode = mode
           /\ n.first = <<>> /\ n.second = <<>> /\ Len(n.first) = 0 /\ Len(n.second) = 0
           /\ n.initial = r.initial /\ n.closure = r.closure
           /\ n.checked = r.checked /\ n.honest = r.honest
<1>1. <<>> \in Seq(Nat) /\ Len(<<>>) = 0
  OBVIOUS
<1>2. n = [[[[r EXCEPT !.pc = "scan"] EXCEPT !.mode = mode] EXCEPT !.first = <<>>]
              EXCEPT !.second = <<>>]
  BY DEF V!Scan, Calls
<1>3. PICK a : a = [r EXCEPT !.pc = "scan"]
  OBVIOUS
<1>4. a \in Calls /\ a.pc = "scan" /\ a.initial = r.initial /\ a.closure = r.closure
      /\ a.checked = r.checked /\ a.honest = r.honest
  BY <1>3 DEF Calls
<1>5. PICK b : b = [a EXCEPT !.mode = mode]
  OBVIOUS
<1>6. b \in Calls /\ b.pc = "scan" /\ b.mode = mode /\ b.initial = r.initial
      /\ b.closure = r.closure /\ b.checked = r.checked /\ b.honest = r.honest
  BY <1>4, <1>5 DEF Calls
<1>7. PICK c : c = [b EXCEPT !.first = <<>>]
  OBVIOUS
<1>8. c \in Calls /\ c.pc = "scan" /\ c.mode = mode /\ c.first = <<>> /\ c.initial = r.initial
      /\ c.closure = r.closure /\ c.checked = r.checked /\ c.honest = r.honest
  BY <1>1, <1>6, <1>7 DEF Calls
<1>9. n = [c EXCEPT !.second = <<>>]
  BY <1>2, <1>3, <1>5, <1>7
<1> QED
  BY <1>1, <1>8, <1>9 DEF Calls

\* The start of an inventory, or of a run (build_repository_inventory).
LEMMA BeginStep ==
    ASSUME RunInv, NEW p \in Runners, NEW mode \in {"inventory", "initial"}, V!Begin(p, mode)
    PROVE  RunInv'
<1>1. FileCount \in Nat \ {0} /\ Len(CheckList) \in Nat
  BY PartBounds DEF V!RepositoryBounds
<1>2. PICK r : r = V!Scan(V!Idle, mode)
  OBVIOUS
<1>3. V!Idle \in Calls
  BY IdleIsSound
<1>4. /\ r \in Calls /\ r.pc = "scan" /\ r.mode = mode /\ r.first = <<>> /\ r.second = <<>>
      /\ Len(r.first) = 0 /\ Len(r.second) = 0 /\ r.checked = 0 /\ r.honest = TRUE
  <2>1. V!Idle.checked = 0 /\ V!Idle.honest = TRUE
    BY DEF V!Idle
  <2> QED
    BY <1>2, <1>3, <2>1, ScanIsACall
<1>5. Sound(r, {tree}, tree) /\ ~Verifies(r)
  BY <1>1, <1>4 DEF Sound, Shape, Verifies, Reads, Inventories, IsOld
<1>6. {tree} \in SUBSET Contents
  BY DEF RunInv, RunTypes
<1>7. V!Moves(p, r) /\ seen' = [seen EXCEPT ![p] = {tree}] /\ UNCHANGED <<tree, edits, locked>>
  BY <1>2 DEF V!Begin
<1> QED
  BY <1>4, <1>5, <1>6, <1>7, OneMoves

\* One file of the first reading (_collect_repository_inventory).
LEMMA FirstReading ==
    ASSUME NEW t \in Contents, NEW s, NEW r \in Calls, Sound(r, s, t),
           r.pc = "scan", Len(r.first) < FileCount,
           NEW n, n = [r EXCEPT !.first = Append(r.first, t[Len(r.first) + 1])]
    PROVE  n \in Calls /\ Sound(n, s, t) /\ (Verifies(n) <=> Verifies(r))
<1> DEFINE k == Len(r.first) + 1
<1>1. r.first \in Seq(Nat) /\ k \in Nat /\ FileCount \in Nat /\ k \in V!Files /\ t[k] \in Nat
  BY PartBounds DEF V!RepositoryBounds, Calls, Contents, V!Files
<1>2. /\ n.first = Append(r.first, t[k]) /\ n.pc = r.pc /\ n.mode = r.mode
      /\ n.second = r.second /\ n.initial = r.initial /\ n.closure = r.closure
      /\ n.checked = r.checked /\ n.honest = r.honest
  BY DEF Calls
<1>3. n \in Calls
  <2>1. Append(r.first, t[k]) \in Seq(Nat)
    BY <1>1
  <2> QED
    BY <2>1 DEF Calls
<1>4. /\ n.first \in Seq(Nat) /\ Len(n.first) = k /\ n.first[k] = t[k]
      /\ \A f \in 1..Len(r.first) : n.first[f] = r.first[f]
  BY <1>1, <1>2
<1>5. r.second = <<>> /\ Len(r.second) = 0
  BY <1>1 DEF Sound, Shape
<1>6. IsOld(n.first, t) /\ IsOld(n.second, t)
  BY <1>1, <1>2, <1>4, <1>5 DEF Sound, Reads, IsOld, Contents, V!Files
<1>7. ASSUME Inventories(n), Len(n.first) = FileCount PROVE t \in s /\ Middle(n, t, t)
  <2>1. t \in s
    BY <1>2, <1>7 DEF Sound, Inventories
  <2>2. \A f \in V!Files : n.first[f] <= t[f] /\ t[f] <= t[f]
    BY <1>6, <1>7 DEF IsOld, V!Files, Contents
  <2>3. \A f \in 1..Len(n.second) : t[f] <= n.second[f]
    BY <1>2, <1>5
  <2> QED
    BY <2>1, <2>2, <2>3 DEF Middle
<1>8. Inventories(n) => t \in s
  BY <1>2 DEF Sound, Inventories
<1>9. Verifies(n) => \A m \in s : Between(n, m, t)
  BY <1>2, <1>5 DEF Sound, Verifies, Between
<1>10. Shape(n)
  BY <1>1, <1>2, <1>4, <1>5 DEF Sound, Shape, Verifies
<1> QED
  BY <1>2, <1>3, <1>6, <1>7, <1>8, <1>9, <1>10 DEF Sound, Verifies

\* One file of the second reading.
LEMMA SecondReading ==
    ASSUME NEW t \in Contents, NEW s, NEW r \in Calls, Sound(r, s, t),
           r.pc = "scan", ~(Len(r.first) < FileCount), Len(r.second) < FileCount,
           NEW n, n = [r EXCEPT !.second = Append(r.second, t[Len(r.second) + 1])]
    PROVE  n \in Calls /\ Sound(n, s, t) /\ (Verifies(n) <=> Verifies(r))
<1> DEFINE k == Len(r.second) + 1
<1>1. r.second \in Seq(Nat) /\ k \in Nat /\ FileCount \in Nat /\ k \in V!Files /\ t[k] \in Nat
  <2>1. r.second \in Seq(Nat) /\ k \in Nat /\ FileCount \in Nat
    BY PartBounds DEF V!RepositoryBounds, Calls
  <2>2. k \in V!Files /\ k \in 0..FileCount
    BY <2>1 DEF V!Files
  <2>3. t[k] \in Nat
    BY <2>2 DEF Contents
  <2> QED
    BY <2>1, <2>2, <2>3
<1>2. /\ n.second = Append(r.second, t[k]) /\ n.pc = r.pc /\ n.mode = r.mode
      /\ n.first = r.first /\ n.initial = r.initial /\ n.closure = r.closure
      /\ n.checked = r.checked /\ n.honest = r.honest
  BY DEF Calls
<1>3. n \in Calls
  <2>1. Append(r.second, t[k]) \in Seq(Nat)
    BY <1>1
  <2> QED
    BY <2>1 DEF Calls
<1>4. /\ n.second \in Seq(Nat) /\ Len(n.second) = k /\ n.second[k] = t[k]
      /\ \A f \in 1..Len(r.second) : n.second[f] = r.second[f]
      /\ Len(r.second) \in Nat
  BY <1>1, <1>2
<1>5. Len(r.first) \in Nat /\ Len(r.first) = FileCount
  BY <1>1 DEF Sound, Shape, Calls
<1>6. IsOld(n.first, t) /\ IsOld(n.second, t)
  BY <1>1, <1>2, <1>4 DEF Sound, Reads, IsOld, Contents, V!Files
<1>7. ASSUME Inventories(n) PROVE t \in s /\ \E m \in s : Middle(n, m, t)
  <2>1. t \in s /\ \E m \in s : Middle(r, m, t)
    BY <1>2, <1>5, <1>7 DEF Sound, Inventories
  <2>2. ASSUME NEW m \in s, Middle(r, m, t) PROVE Middle(n, m, t)
    BY <1>1, <1>2, <1>4, <2>2 DEF Middle
  <2> QED
    BY <2>1, <2>2
<1>8. ASSUME Verifies(n), NEW m \in s PROVE Between(n, m, t)
  BY <1>1, <1>2, <1>4, <1>8 DEF Sound, Verifies, Between
<1>9. Shape(n)
  BY <1>1, <1>2, <1>4, <1>5 DEF Sound, Shape, Verifies
<1> QED
  BY <1>2, <1>3, <1>6, <1>7, <1>8, <1>9 DEF Sound, Verifies

\* One more file (_collect_repository_inventory).
LEMMA ReadFileStep ==
    ASSUME RunInv, NEW p \in Runners, V!ReadFile(p)
    PROVE  RunInv'
<1>1. PICK r : r = run[p]
  OBVIOUS
<1>2. PICK t : t = tree
  OBVIOUS
<1>0. PICK s : s = seen[p]
  OBVIOUS
<1>3. r \in Calls /\ t \in Contents /\ Sound(r, s, t) /\ s \in SUBSET Contents
  BY <1>1, <1>2, <1>0 DEF RunInv, RunTypes
<1>4. seen' = [seen EXCEPT ![p] = s] /\ UNCHANGED <<tree, edits, locked>>
  BY <1>0 DEF V!ReadFile, RunInv, RunTypes
<1>5. r.pc = "scan" /\ Len(r.second) < FileCount
  BY <1>1 DEF V!ReadFile
<1>6. PICK n : V!Moves(p, n) /\ n =
        IF Len(r.first) < FileCount
        THEN [r EXCEPT !.first = Append(r.first, t[Len(r.first) + 1])]
        ELSE [r EXCEPT !.second = Append(r.second, t[Len(r.second) + 1])]
  BY <1>1, <1>2, <1>3 DEF V!ReadFile, Calls
<1>7. n \in Calls /\ Sound(n, s, t) /\ (Verifies(n) <=> Verifies(r))
  <2>1. CASE Len(r.first) < FileCount
    <3>1. n = [r EXCEPT !.first = Append(r.first, t[Len(r.first) + 1])]
      BY <1>6, <2>1
    <3> QED
      BY <1>3, <1>5, <2>1, <3>1, FirstReading
  <2>2. CASE ~(Len(r.first) < FileCount)
    <3>1. n = [r EXCEPT !.second = Append(r.second, t[Len(r.second) + 1])]
      BY <1>6, <2>2
    <3> QED
      BY <1>3, <1>5, <2>2, <3>1, SecondReading
  <2> QED
    BY <2>1, <2>2
<1>8. Verifies(n) => locked' = p
  BY <1>1, <1>4, <1>7 DEF RunInv, LockIsHeld
<1> QED
  BY <1>2, <1>3, <1>4, <1>6, <1>7, <1>8, OneMoves

\* Where two readings agree there is one tree that both have seen
\* (build_repository_inventory).
LEMMA AgreedReading ==
    ASSUME NEW r \in Calls, NEW m \in Contents, NEW t \in Contents, Middle(r, m, t),
           r.first = r.second, Len(r.second) = FileCount
    PROVE  \A f \in V!Files : r.second[f] = m[f]
<1>1. FileCount \in Nat /\ r.first \in Seq(Nat)
  BY PartBounds DEF V!RepositoryBounds, Calls
<1>2. ASSUME NEW f \in V!Files PROVE r.second[f] = m[f]
  <2>1. f \in 0..FileCount /\ f \in 1..Len(r.second)
    BY <1>1 DEF V!Files
  <2>2. m[f] \in Nat
    BY <1>1, <2>1 DEF Contents
  <2>3. r.first[f] \in Nat
    BY <1>1, <2>1
  <2>4. r.first[f] <= m[f] /\ m[f] <= r.second[f]
    BY <2>1 DEF Middle
  <2> QED
    BY <2>2, <2>3, <2>4
<1> QED
  BY <1>2

\* An inventory is returned (build_repository_inventory).
LEMMA TakesInventoryStep ==
    ASSUME RunInv, NEW p \in Runners, V!TakesInventory(p)
    PROVE  RunInv'
<1>1. PICK r : r = run[p]
  OBVIOUS
<1>2. PICK t : t = tree
  OBVIOUS
<1>3. PICK s : s = seen[p]
  OBVIOUS
<1>4. r \in Calls /\ t \in Contents /\ s \in SUBSET Contents /\ Sound(r, s, t)
  BY <1>1, <1>2, <1>3 DEF RunInv, RunTypes
<1>5. seen' = [seen EXCEPT ![p] = s] /\ UNCHANGED <<tree, edits, locked>>
  BY <1>3 DEF V!TakesInventory, RunInv, RunTypes
<1>6. r.pc = "scan" /\ Len(r.second) = FileCount /\ r.first = r.second
  BY <1>1 DEF V!TakesInventory, V!ReadTwice
<1>7. PICK to : to = CASE r.mode = "inventory" -> "done"
                       [] r.mode = "initial" -> "lock"
                       [] OTHER -> "compare"
  OBVIOUS
<1>8. PICK n : V!Moves(p, n) /\ n = [r EXCEPT !.pc = to]
  BY <1>1, <1>4, <1>7 DEF V!TakesInventory, Calls
<1>9. to \in {"done", "lock", "compare"}
  BY <1>7
<1>10. /\ n \in Calls /\ n.pc = to /\ n.mode = r.mode /\ n.first = r.first
       /\ n.second = r.second /\ n.initial = r.initial /\ n.closure = r.closure
       /\ n.checked = r.checked /\ n.honest = r.honest
  BY <1>4, <1>8, <1>9 DEF Calls
<1>11. r.mode \in {"inventory", "initial", "final"} /\ Shape(r)
  BY <1>4, <1>6 DEF Sound, Shape, Calls
<1>12. CASE r.mode = "inventory"
  <2>1. to = "done"
    BY <1>7, <1>12
  <2>2. \E m \in s : Middle(r, m, t)
    BY <1>4, <1>6, <1>12 DEF Sound, Inventories
  <2>3. \E m \in s : \A f \in V!Files : n.second[f] = m[f]
    BY <1>4, <1>6, <1>10, <2>2, AgreedReading
  <2>4. Shape(n) /\ ~Verifies(n)
    BY <1>6, <1>10, <1>11, <1>12, <2>1 DEF Shape, Verifies
  <2>5. Sound(n, s, t)
    BY <1>10, <1>12, <2>1, <2>3, <2>4 DEF Sound, Reads, Inventories
  <2> QED
    BY <1>2, <1>4, <1>5, <1>8, <1>10, <2>4, <2>5, OneMoves
<1>13. CASE r.mode = "initial"
  <2>1. to = "lock"
    BY <1>7, <1>13
  <2>2. Shape(n) /\ ~Verifies(n)
    BY <1>6, <1>10, <1>11, <1>13, <2>1 DEF Shape, Verifies
  <2>3. IsOld(n.first, t) /\ IsOld(n.second, t)
    BY <1>4, <1>6, <1>10 DEF Sound, Reads
  <2>4. Sound(n, s, t)
    BY <1>10, <1>13, <2>1, <2>2, <2>3 DEF Sound, Reads, Inventories
  <2> QED
    BY <1>2, <1>4, <1>5, <1>8, <1>10, <2>2, <2>4, OneMoves
<1>14. CASE r.mode = "final"
  <2>1. to = "compare"
    BY <1>7, <1>14
  <2>2. Verifies(r) /\ Verifies(n)
    BY <1>6, <1>10, <1>14, <2>1 DEF Verifies
  <2>3. Shape(n)
    BY <1>6, <1>10, <1>11, <1>14, <2>1, <2>2 DEF Shape
  <2>4. \A m \in s : Between(r, m, t)
    BY <1>4, <2>2 DEF Sound
  <2>5. \A m \in s : Between(n, m, t)
    BY <1>6, <1>10, <2>1, <2>4 DEF Between
  <2>6. Sound(n, s, t)
    BY <1>10, <1>14, <2>1, <2>3, <2>5 DEF Sound, Reads, Inventories
  <2>7. locked' = p
    BY <1>1, <1>5, <2>2 DEF RunInv, LockIsHeld
  <2> QED
    BY <1>2, <1>4, <1>5, <1>8, <1>10, <2>6, <2>7, OneMoves
<1> QED
  BY <1>11, <1>12, <1>13, <1>14

\* The runner lock is taken, and the closure hashed (run_repository_verification).
LEMMA LockStep ==
    ASSUME RunInv, NEW p \in Runners, V!Lock(p)
    PROVE  RunInv'
<1>1. PICK r : r = run[p]
  OBVIOUS
<1>2. PICK t : t = tree
  OBVIOUS
<1>3. r \in Calls /\ t \in Contents /\ Sound(r, seen[p], t)
  BY <1>1, <1>2 DEF RunInv, RunTypes
<1>4. r.pc = "lock" /\ locked = V!Free /\ locked' = p
  BY <1>1 DEF V!Lock
<1>5. PICK n : V!Moves(p, n)
          /\ n = [r EXCEPT !.pc = "check", !.initial = r.second, !.closure = t[0]]
  BY <1>1, <1>2, <1>3 DEF V!Lock
<1>6. FileCount \in Nat /\ t[0] \in Nat
  BY <1>3, PartBounds DEF V!RepositoryBounds, Contents
<1>7. /\ n \in Calls /\ n.pc = "check" /\ n.mode = r.mode /\ n.first = r.first
      /\ n.second = r.second /\ n.initial = r.second /\ n.closure = t[0]
      /\ n.checked = r.checked /\ n.honest = r.honest
  BY <1>3, <1>5, <1>6 DEF Calls
<1>8. Len(r.second) = FileCount /\ IsOld(r.second, t)
  BY <1>3, <1>4 DEF Sound, Shape, Reads
<1>9. Shape(n)
  BY <1>3, <1>4, <1>7, <1>8 DEF Sound, Shape, Verifies
<1>10. Between(n, t, t)
  BY <1>3, <1>6, <1>7, <1>8 DEF Between, IsOld, V!Files, Contents
<1>11. Sound(n, {t}, t)
  BY <1>7, <1>9, <1>10 DEF Sound, Reads, Inventories, Verifies
<1>12. {t} \in SUBSET Contents /\ seen' = [seen EXCEPT ![p] = {t}] /\ UNCHANGED <<tree, edits>>
  BY <1>2, <1>3 DEF V!Lock
<1>13. \A q \in Runners \ {p} : locked = q => locked' = q
  BY <1>4, PartBounds DEF V!RepositoryBounds
<1> QED
  BY <1>2, <1>4, <1>5, <1>7, <1>11, <1>12, <1>13, OneMoves

\* One check (run_repository_verification_check).
LEMMA RunCheckStep ==
    ASSUME RunInv, NEW p \in Runners, V!RunCheck(p)
    PROVE  RunInv'
<1>1. PICK r : r = run[p]
  OBVIOUS
<1>2. PICK t : t = tree
  OBVIOUS
<1>3. PICK s : s = seen[p]
  OBVIOUS
<1>4. r \in Calls /\ t \in Contents /\ s \in SUBSET Contents /\ Sound(r, s, t)
  BY <1>1, <1>2, <1>3 DEF RunInv, RunTypes
<1>5. seen' = [seen EXCEPT ![p] = s] /\ UNCHANGED <<tree, edits, locked>>
  BY <1>3 DEF V!RunCheck, RunInv, RunTypes
<1>6. r.pc = "check" /\ r.checked < Len(CheckList) /\ r.honest = TRUE
  BY <1>1, <1>4 DEF V!RunCheck, Sound, Shape
<1>7. PICK outcome \in Outcomes[CheckList[r.checked + 1]] :
        V!Moves(p, [r EXCEPT !.checked = r.checked + 1, !.passed = r.passed /\ outcome[1],
                             !.honest = r.honest /\ (outcome[1] => outcome[2])])
  BY <1>1, <1>4 DEF V!RunCheck, Calls
<1>8. CheckList[r.checked + 1] \in DOMAIN Outcomes /\ Len(CheckList) \in Nat
  BY <1>4, <1>6, PartBounds DEF V!RepositoryBounds, Calls
<1>9. outcome[1] \in BOOLEAN /\ (outcome[1] => outcome[2])
  BY <1>8, OutcomesAreHonest
<1>10. PICK passed \in BOOLEAN : passed = (r.passed /\ outcome[1])
  OBVIOUS
<1>11. PICK n : V!Moves(p, n)
          /\ n = [r EXCEPT !.checked = r.checked + 1, !.passed = passed, !.honest = TRUE]
  <2>1. (r.honest /\ (outcome[1] => outcome[2])) = TRUE
    BY <1>6, <1>9
  <2> QED
    BY <1>7, <1>10, <2>1
<1>12. /\ n \in Calls /\ n.pc = "check" /\ n.mode = r.mode /\ n.first = r.first
       /\ n.second = r.second /\ n.initial = r.initial /\ n.closure = r.closure
       /\ n.checked = r.checked + 1 /\ n.honest = TRUE
  <2>1. r.checked + 1 \in Nat
    BY <1>4 DEF Calls
  <2> QED
    BY <1>4, <1>6, <1>11, <2>1 DEF Calls
<1>13. Verifies(r) /\ Verifies(n)
  BY <1>6, <1>12 DEF Verifies
<1>14. Shape(n)
  BY <1>4, <1>6, <1>8, <1>12, <1>13 DEF Sound, Shape, Calls
<1>15. \A m \in s : Between(n, m, t)
  BY <1>4, <1>12, <1>13 DEF Sound, Between
<1>16. Sound(n, s, t)
  BY <1>4, <1>6, <1>12, <1>14, <1>15 DEF Sound, Reads, Inventories
<1>17. locked' = p
  BY <1>1, <1>5, <1>13 DEF RunInv, LockIsHeld
<1> QED
  BY <1>2, <1>4, <1>5, <1>11, <1>12, <1>16, <1>17, OneMoves

\* The second inventory of a run begins (run_repository_verification).
LEMMA ScanAgainStep ==
    ASSUME RunInv, NEW p \in Runners, V!ScanAgain(p)
    PROVE  RunInv'
<1>1. PICK r : r = run[p]
  OBVIOUS
<1>2. PICK t : t = tree
  OBVIOUS
<1>3. PICK s : s = seen[p]
  OBVIOUS
<1>4. r \in Calls /\ t \in Contents /\ s \in SUBSET Contents /\ Sound(r, s, t)
  BY <1>1, <1>2, <1>3 DEF RunInv, RunTypes
<1>5. seen' = [seen EXCEPT ![p] = s] /\ UNCHANGED <<tree, edits, locked>>
  BY <1>3 DEF V!ScanAgain, RunInv, RunTypes
<1>6. r.pc = "check" /\ r.checked = Len(CheckList)
  BY <1>1 DEF V!ScanAgain
<1>7. PICK n : V!Moves(p, n) /\ n = V!Scan(r, "final")
  BY <1>1 DEF V!ScanAgain
<1>8. /\ n \in Calls /\ n.pc = "scan" /\ n.mode = "final"
      /\ n.first = <<>> /\ n.second = <<>> /\ Len(n.first) = 0 /\ Len(n.second) = 0
      /\ n.initial = r.initial /\ n.closure = r.closure
      /\ n.checked = r.checked /\ n.honest = r.honest
  BY <1>4, <1>7, ScanIsACall
<1>9. FileCount \in Nat /\ Len(CheckList) \in Nat
  BY PartBounds DEF V!RepositoryBounds
<1>10. Verifies(r) /\ Verifies(n)
  BY <1>6, <1>8 DEF Verifies
<1>11. Shape(n)
  BY <1>4, <1>6, <1>8, <1>9, <1>10 DEF Sound, Shape
<1>12. \A m \in s : Between(n, m, t)
  BY <1>4, <1>8, <1>10 DEF Sound, Between
<1>13. IsOld(n.first, t) /\ IsOld(n.second, t)
  BY <1>8 DEF IsOld
<1>14. Sound(n, s, t)
  BY <1>8, <1>11, <1>12, <1>13 DEF Sound, Reads, Inventories
<1>15. locked' = p
  BY <1>1, <1>5, <1>10 DEF RunInv, LockIsHeld
<1> QED
  BY <1>2, <1>4, <1>5, <1>7, <1>8, <1>14, <1>15, OneMoves

\* The bundle is made if nothing has changed (run_repository_verification).
LEMMA CompareStep ==
    ASSUME RunInv, NEW p \in Runners, V!Compare(p)
    PROVE  RunInv'
<1>1. PICK r : r = run[p]
  OBVIOUS
<1>2. PICK t : t = tree
  OBVIOUS
<1>3. PICK s : s = seen[p]
  OBVIOUS
<1>4. r \in Calls /\ t \in Contents /\ s \in SUBSET Contents /\ Sound(r, s, t)
  BY <1>1, <1>2, <1>3 DEF RunInv, RunTypes
<1>5. seen' = [seen EXCEPT ![p] = s] /\ UNCHANGED <<tree, edits>>
  BY <1>3 DEF V!Compare, RunInv, RunTypes
<1>6. r.pc = "compare" /\ Verifies(r) /\ locked = p
  BY <1>1 DEF V!Compare, Verifies, RunInv, LockIsHeld
<1>7. \A q \in Runners \ {p} : locked = q => locked' = q
  BY <1>6
<1>8. CASE V!Unchanged(r)
  <2>1. r.second = r.initial /\ t[0] = r.closure
    BY <1>2, <1>8 DEF V!Unchanged, V!SameFiles, V!SameClosure
  <2>2. PICK n : V!Moves(p, n) /\ n = [r EXCEPT !.pc = "done"]
    BY <1>1, <1>8 DEF V!Compare
  <2>3. /\ n \in Calls /\ n.pc = "done" /\ n.mode = r.mode /\ n.first = r.first
        /\ n.second = r.second /\ n.initial = r.initial /\ n.closure = r.closure
        /\ n.checked = r.checked /\ n.honest = r.honest
    BY <1>4, <2>2 DEF Calls
  <2>4. ~Verifies(n)
    BY <2>3 DEF Verifies
  <2>5. Shape(r) /\ r.mode = "final" /\ r.checked = Len(CheckList)
        /\ Len(r.second) = FileCount
    BY <1>4, <1>6 DEF Sound, Shape
  <2>6. Shape(n)
    BY <2>3, <2>4, <2>5 DEF Shape
  <2>7. ASSUME NEW m \in s PROVE m[0] = r.closure /\ \A f \in V!Files : m[f] = r.second[f]
    <3>1. Between(r, m, t) /\ m \in Contents /\ FileCount \in Nat
      BY <1>4, <1>6, PartBounds DEF Sound, V!RepositoryBounds
    <3>2. m[0] \in Nat /\ t[0] \in Nat
      BY <1>4, <3>1 DEF Contents
    <3>3. m[0] = r.closure
      BY <2>1, <3>1, <3>2 DEF Between
    <3>4. ASSUME NEW f \in V!Files PROVE m[f] = r.second[f]
      <4>1. m[f] \in Nat /\ r.second[f] \in Nat /\ f \in 1..Len(r.second)
        <5>1. f \in 0..FileCount /\ f \in 1..Len(r.second)
          BY <2>5, <3>1 DEF V!Files
        <5>2. r.second \in Seq(Nat)
          BY <1>4 DEF Calls
        <5> QED
          BY <3>1, <5>1, <5>2 DEF Contents
      <4>2. r.initial[f] <= m[f] /\ m[f] <= r.second[f]
        BY <1>6, <3>1, <4>1 DEF Between
      <4> QED
        BY <2>1, <4>1, <4>2
    <3> QED
      BY <3>3, <3>4
  <2>8. Sound(n, s, t)
    BY <2>3, <2>4, <2>5, <2>6, <2>7 DEF Sound, Reads, Inventories
  <2> QED
    BY <1>2, <1>4, <1>5, <1>7, <2>2, <2>3, <2>4, <2>8, OneMoves
<1>9. CASE ~V!Unchanged(r)
  <2>1. V!Moves(p, V!Idle)
    BY <1>1, <1>9 DEF V!Compare
  <2>2. V!Idle \in Calls /\ Sound(V!Idle, s, tree) /\ ~Verifies(V!Idle)
    BY IdleIsSound
  <2> QED
    BY <1>4, <1>5, <1>7, <2>1, <2>2, OneMoves
<1> QED
  BY <1>8, <1>9

-----------------------------------------------------------------------------
(* Edits *)

\* What a call has read stays older than the tree while files get newer versions.
LEMMA EditKeepsSound ==
    ASSUME NEW r \in Calls, NEW s \in SUBSET Contents, NEW t \in Contents, NEW u \in Contents,
           Sound(r, s, t), \A f \in 0..FileCount : t[f] <= u[f],
           NEW w, w = IF r.pc = "check" \/ (r.pc = "scan" /\ r.mode = "inventory")
                      THEN s \cup {u} ELSE s
    PROVE  Sound(r, w, u)
<1>1. FileCount \in Nat /\ r.first \in Seq(Nat) /\ r.second \in Seq(Nat)
      /\ r.initial \in Seq(Nat) /\ r.closure \in Nat
  BY PartBounds DEF V!RepositoryBounds, Calls
<1>2. ASSUME NEW f \in 0..FileCount PROVE t[f] \in Nat /\ u[f] \in Nat /\ t[f] <= u[f]
  BY <1>1 DEF Contents
<1>3. ASSUME NEW q \in Seq(Nat), Len(q) <= FileCount, IsOld(q, t) PROVE IsOld(q, u)
  <2> SUFFICES ASSUME NEW f \in 1..Len(q) PROVE q[f] <= u[f]
    BY DEF IsOld
  <2>1. f \in 0..FileCount /\ q[f] \in Nat
    BY <1>1, <1>3
  <2>2. q[f] <= t[f] /\ t[f] <= u[f] /\ t[f] \in Nat /\ u[f] \in Nat
    BY <1>2, <1>3, <2>1 DEF IsOld
  <2> QED
    BY <2>1, <2>2
<1>4. Reads(r) => IsOld(r.first, u) /\ IsOld(r.second, u)
  BY <1>1, <1>3 DEF Sound, Shape
<1>5. ASSUME Inventories(r)
      PROVE  u \in w /\ (Len(r.first) = FileCount => \E m \in w : Middle(r, m, u))
  <2>1. w = s \cup {u}
    BY <1>5 DEF Inventories
  <2>2. ASSUME NEW m \in s, Middle(r, m, t) PROVE Middle(r, m, u)
    <3>1. ASSUME NEW f \in V!Files PROVE r.first[f] <= m[f] /\ m[f] <= u[f]
      <4>1. f \in 0..FileCount /\ m[f] \in Nat
        BY <1>1, <2>2 DEF V!Files, Contents
      <4> QED
        BY <1>2, <2>2, <4>1 DEF Middle
    <3> QED
      BY <2>2, <3>1 DEF Middle
  <2> QED
    BY <1>5, <2>1, <2>2 DEF Sound
<1>6. ASSUME Verifies(r), NEW m \in s PROVE Between(r, m, u)
  <2>1. Between(r, m, t) /\ m \in Contents
    BY <1>6 DEF Sound
  <2>2. ASSUME NEW f \in 0..FileCount, m[f] <= t[f] PROVE m[f] <= u[f]
    <3>1. m[f] \in Nat
      BY <2>1 DEF Contents
    <3> QED
      BY <1>2, <2>2, <3>1
  <2>3. m[0] <= u[0] /\ \A f \in V!Files : m[f] <= u[f]
    BY <1>1, <2>1, <2>2 DEF Between, V!Files
  <2> QED
    BY <2>1, <2>3 DEF Between
<1>7. ASSUME Verifies(r), r.pc = "check" PROVE Between(r, u, u)
  <2>1. Between(r, t, t)
    BY <1>7 DEF Sound
  <2>2. ASSUME NEW f \in V!Files PROVE r.initial[f] <= u[f] /\ u[f] <= u[f]
    <3>1. f \in 0..FileCount /\ f \in 1..Len(r.initial)
      BY <1>1, <1>7 DEF V!Files, Sound, Shape
    <3>2. r.initial[f] \in Nat /\ r.initial[f] <= t[f]
      BY <1>1, <2>1, <3>1 DEF Between
    <3> QED
      BY <1>2, <3>1, <3>2
  <2> QED
    BY <1>1, <1>2, <1>7, <2>1, <2>2 DEF Between
<1>8. ASSUME Verifies(r), NEW m \in w PROVE Between(r, m, u)
  BY <1>6, <1>7, <1>8 DEF Verifies
<1> QED
  BY <1>4, <1>5, <1>8 DEF Sound, Inventories, Verifies

\* Somebody edits a file (the tree is shared with editors).
LEMMA EditStep ==
    ASSUME RunInv, NEW f \in 0..FileCount, V!Edit(f)
    PROVE  RunInv'
<1>1. PICK t : t = tree
  OBVIOUS
<1>2. PICK u : u = [tree EXCEPT ![f] = edits + 1]
  OBVIOUS
<1>3. edits \in Nat /\ t \in Contents /\ \A g \in 0..FileCount : t[g] <= edits
  BY <1>1 DEF RunInv, RunTypes
<1>4. tree' = u /\ edits' = edits + 1 /\ UNCHANGED <<locked, run>>
  BY <1>2 DEF V!Edit
<1>5. \A p \in Runners : seen'[p] = IF V!Watches(p) THEN seen[p] \cup {u} ELSE seen[p]
  BY <1>4 DEF V!Edit
<1>6. u \in Contents /\ \A g \in 0..FileCount : t[g] <= u[g] /\ u[g] <= edits + 1
  BY <1>1, <1>2, <1>3 DEF Contents
<1>7. seen' \in [Runners -> SUBSET Contents]
  <2>1. seen' = [p \in Runners |-> IF V!Watches(p) THEN seen[p] \cup {u} ELSE seen[p]]
    BY <1>4 DEF V!Edit
  <2> QED
    BY <1>6, <2>1 DEF RunInv, RunTypes
<1>8. RunTypes'
  BY <1>3, <1>4, <1>6, <1>7 DEF RunInv, RunTypes, Contents
<1>9. LockIsHeld'
  BY <1>4 DEF RunInv, LockIsHeld, Verifies
<1>10. ASSUME NEW p \in Runners PROVE Sound(run[p], seen[p], tree)'
  <2>1. PICK r : r = run[p]
    OBVIOUS
  <2>2. PICK s : s = seen[p]
    OBVIOUS
  <2>3. PICK w : w = IF r.pc = "check" \/ (r.pc = "scan" /\ r.mode = "inventory")
                     THEN s \cup {u} ELSE s
    OBVIOUS
  <2>4. r \in Calls /\ s \in SUBSET Contents /\ Sound(r, s, t)
    BY <1>1, <2>1, <2>2 DEF RunInv, RunTypes
  <2>5. Sound(r, w, u)
    BY <1>3, <1>6, <2>3, <2>4, EditKeepsSound
  <2>6. run'[p] = r /\ seen'[p] = w /\ tree' = u
    BY <1>4, <1>5, <2>1, <2>2, <2>3 DEF V!Watches
  <2> QED
    BY <2>5, <2>6
    DEF Sound, Shape, Reads, Inventories, Verifies, IsOld, Middle, Between
<1> QED
  BY <1>8, <1>9, <1>10 DEF RunInv

-----------------------------------------------------------------------------
(* Every behaviour of a local run *)

\* Nobody has read anything at first.
LEMMA RunStarts ==
    ASSUME V!Init
    PROVE  RunInv
<1>1. FileCount \in Nat
  BY PartBounds DEF V!RepositoryBounds
<1>2. V!Idle \in Calls /\ ~Verifies(V!Idle) /\ Sound(V!Idle, {}, tree)
  BY IdleIsSound
<1>3. RunTypes
  BY <1>1, <1>2 DEF V!Init, RunTypes, Contents
<1>4. \A p \in Runners : run[p] = V!Idle /\ seen[p] = {}
  BY DEF V!Init
<1> QED
  BY <1>2, <1>3, <1>4 DEF RunInv, LockIsHeld

\* Every step keeps the invariant (run_repository_verification,
\* build_repository_inventory).
LEMMA RunSteps ==
    ASSUME RunInv, V!Next
    PROVE  RunInv'
<1>1. ASSUME NEW p \in Runners, NEW mode \in {"inventory", "initial"}, V!Begin(p, mode)
      PROVE  RunInv'
  BY <1>1, BeginStep
<1>2. ASSUME NEW p \in Runners, V!ReadFile(p) PROVE RunInv'
  BY <1>2, ReadFileStep
<1>3. ASSUME NEW p \in Runners, V!TakesInventory(p) PROVE RunInv'
  BY <1>3, TakesInventoryStep
<1>4. ASSUME NEW p \in Runners, V!Changed(p) \/ V!Refused(p) \/ V!Die(p) PROVE RunInv'
  BY <1>4, FailStep DEF V!Changed, V!Refused, V!Die
<1>5. ASSUME NEW p \in Runners, V!Lock(p) PROVE RunInv'
  BY <1>5, LockStep
<1>6. ASSUME NEW p \in Runners, V!RunCheck(p) PROVE RunInv'
  BY <1>6, RunCheckStep
<1>7. ASSUME NEW p \in Runners, V!ScanAgain(p) PROVE RunInv'
  BY <1>7, ScanAgainStep
<1>8. ASSUME NEW p \in Runners, V!Compare(p) PROVE RunInv'
  BY <1>8, CompareStep
<1>9. ASSUME NEW f \in 0..FileCount, V!Edit(f) PROVE RunInv'
  BY <1>9, EditStep
<1> QED
  BY <1>1, <1>2, <1>3, <1>4, <1>5, <1>6, <1>7, <1>8, <1>9 DEF V!Next

\* Nor does a step of something else.
LEMMA RunStutters ==
    ASSUME RunInv, UNCHANGED V!vars
    PROVE  RunInv'
BY DEF V!vars, RunInv, RunTypes, LockIsHeld, Sound, Shape, Reads, Inventories, Verifies,
    IsOld, Middle, Between

\* In any local run, whatever is edited meanwhile, what was read is no newer than the
\* tree, one process at a time verifies, and the trees of a verification lie between
\* its two inventories (run_repository_verification).
THEOREM RunCorrect == V!Spec => []RunInv
<1>1. V!Init => RunInv
  BY RunStarts
<1>2. RunInv /\ [V!Next]_(V!vars) => RunInv'
  BY RunSteps, RunStutters
<1> QED
  BY <1>1, <1>2, PTL DEF V!Spec

\* The invariant says that a returned inventory is of a tree.
LEMMA InventoriesAreTrees ==
    ASSUME RunInv
    PROVE  V!InventoryIsATree
BY DEF RunInv, Sound, V!InventoryIsATree, V!Done

\* The invariant says that a verification is of one tree.
LEMMA VerificationsAreHonest ==
    ASSUME RunInv
    PROVE  V!DiagnosticIsHonest
<1>1. ASSUME NEW p \in Runners, V!Done(p, "final")
      PROVE  /\ \A t \in seen[p] : t[0] = run[p].closure
                                /\ \A f \in V!Files : t[f] = run[p].second[f]
             /\ run[p].checked = Len(CheckList) /\ run[p].honest
  BY <1>1 DEF RunInv, Sound, Shape, V!Done
<1>2. \A p \in Runners : run[p].pc = "check" => locked = p
  BY DEF RunInv, LockIsHeld, Verifies
<1> QED
  BY <1>1, <1>2 DEF V!DiagnosticIsHonest

-----------------------------------------------------------------------------
(* A local run among the other parts *)

OfRun == part = "verification"

\* The part does not change.
LEMMA RunPart == PartSpec => V!Spec \/ []~OfRun
<1>1. PartInit => (V!Init \/ ~OfRun)
  BY DEF PartInit, OfRun
<1>2. ~OfRun /\ [PartNext]_partVars => (~OfRun)'
  BY DEF PartNext, partVars, OfRun
<1>3. OfRun /\ [PartNext]_partVars => OfRun' /\ [V!Next]_(V!vars)
  BY DEF PartNext, partVars, OfRun, verificationVars, V!vars
<1>4. PartInit => (OfRun \/ ~OfRun)
  OBVIOUS
<1> QED
  BY <1>1, <1>2, <1>3, <1>4, PTL DEF PartSpec, V!Spec

\* An inventory that build_repository_inventory returns is of a tree that was really
\* there while it was taken, however its files were edited one by one meanwhile.
THEOREM InventoryCorrect == PartSpec => []InventoryIsATree
<1>1. RunInv \/ ~OfRun => InventoryIsATree
  BY InventoriesAreTrees DEF InventoryIsATree, OfRun
<1> QED
  BY <1>1, RunPart, RunCorrect, PTL

\* A verification bundle is of one tree and one closure, unchanged while its checks
\* ran, under one lock, and a check that did not go well does not count as succeeded
\* (run_repository_verification, run_repository_verification_check).
THEOREM DiagnosticCorrect == PartSpec => []DiagnosticIsHonest
<1>1. RunInv \/ ~OfRun => DiagnosticIsHonest
  BY VerificationsAreHonest DEF DiagnosticIsHonest, OfRun
<1> QED
  BY <1>1, RunPart, RunCorrect, PTL
=============================================================================
