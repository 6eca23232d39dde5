------------------------ MODULE RepositoryVerification ------------------------
(***************************************************************************)
(* The inventory of the repository that saas_preflight's P18 takes, and    *)
(* its local verification run: an inventory, the fixed checks in order, a  *)
(* second inventory, and a diagnostic bundle only if nothing has changed.  *)
(*                                                                         *)
(* The tree is shared with editors that know nothing of the run. An edit   *)
(* leaves content that was not there before, and entries are neither       *)
(* created nor removed: a swap that is restored goes unnoticed, as the     *)
(* repository's P18 document says.                                         *)
(***************************************************************************)
EXTENDS Integers, Sequences, FiniteSets

CONSTANTS
    Runners,    \* processes that verify or take an inventory
    FileCount,  \* files in the scope; they are read in the order of their paths
    CheckList,  \* the required checks in their order
    Outcomes,   \* Outcomes[c]: the facts that check c may give (RepositoryChecks)
    MaxEdits    \* bound: edits of the tree and of the runtime closure

Free == "nobody"

\* What the constants have to be.
RepositoryBounds ==
    /\ FileCount \in Nat \ {0} /\ MaxEdits \in Nat
    /\ Free \notin Runners /\ CheckList \in Seq(DOMAIN Outcomes)

VARIABLES
    tree,     \* tree[f]: the version of file f on disk; file 0 stands for the
              \* interpreter, the packages and the tools of the runtime closure
    edits,    \* versions handed out so far
    locked,   \* who holds runner.lock
    run,      \* run[p]: the call of p, what it has read, and whether every check
              \* has succeeded so far, and only if it went well
    seen      \* seen[p]: the trees that existed while p took an inventory or ran
              \* its checks

vars == <<tree, edits, locked, run, seen>>

Files == 1..FileCount

Idle == [pc |-> "idle", mode |-> "none", first |-> <<>>, second |-> <<>>,
         initial |-> <<>>, closure |-> 0, checked |-> 0, passed |-> TRUE,
         honest |-> TRUE]

-----------------------------------------------------------------------------
(* Inventories *)

Moves(p, r) == run' = [run EXCEPT ![p] = r]
Fails(p) == Moves(p, Idle) /\ locked' = IF locked = p THEN Free ELSE locked

Scan(r, mode) == [r EXCEPT !.pc = "scan", !.mode = mode, !.first = <<>>, !.second = <<>>]

\* build_repository_inventory on its own, or as the start of a verification run.
Begin(p, mode) ==
    /\ run[p].pc \in {"idle", "done"}
    /\ Moves(p, Scan(Idle, mode))
    /\ seen' = [seen EXCEPT ![p] = {tree}]
    /\ UNCHANGED <<tree, edits, locked>>

\* _collect_repository_inventory, twice, one file after the other.
ReadFile(p) == LET r == run[p] IN
    /\ r.pc = "scan" /\ Len(r.second) < FileCount
    /\ Moves(p, IF Len(r.first) < FileCount
                THEN [r EXCEPT !.first = Append(@, tree[Len(@) + 1])]
                ELSE [r EXCEPT !.second = Append(@, tree[Len(@) + 1])])
    /\ UNCHANGED <<tree, edits, locked, seen>>

ReadOnce(r) == Len(r.second) = FileCount
ReadTwice(r) == Len(r.second) = FileCount /\ r.first = r.second

\* The two readings agree, and the inventory is returned to its caller.
TakesInventory(p) == LET r == run[p] IN
    /\ r.pc = "scan" /\ ReadTwice(r)
    /\ Moves(p, [r EXCEPT !.pc = CASE r.mode = "inventory" -> "done"
                                    [] r.mode = "initial" -> "lock"
                                    [] OTHER -> "compare"])
    /\ UNCHANGED <<tree, edits, locked, seen>>

Changed(p) == LET r == run[p] IN
    /\ r.pc = "scan" /\ Len(r.second) = FileCount /\ r.first # r.second
    /\ Fails(p)
    /\ UNCHANGED <<tree, edits, seen>>

-----------------------------------------------------------------------------
(* run_repository_verification *)

\* runner.lock is not waited for. The runtime closure is hashed under it.
Lock(p) == LET r == run[p] IN
    /\ r.pc = "lock" /\ locked = Free
    /\ locked' = p
    /\ Moves(p, [r EXCEPT !.pc = "check", !.initial = r.second, !.closure = tree[0]])
    /\ seen' = [seen EXCEPT ![p] = {tree}]
    /\ UNCHANGED <<tree, edits>>

Refused(p) ==
    /\ run[p].pc = "lock" /\ locked # Free
    /\ Fails(p)
    /\ UNCHANGED <<tree, edits, seen>>

\* A failed check is a fact like any other; the next check follows.
RunCheck(p) == LET r == run[p] IN
    /\ r.pc = "check" /\ r.checked < Len(CheckList)
    /\ \E outcome \in Outcomes[CheckList[r.checked + 1]] :
        Moves(p, [r EXCEPT !.checked = @ + 1, !.passed = @ /\ outcome[1],
                           !.honest = @ /\ (outcome[1] => outcome[2])])
    /\ UNCHANGED <<tree, edits, locked, seen>>

ScanAgain(p) == LET r == run[p] IN
    /\ r.pc = "check" /\ r.checked = Len(CheckList)
    /\ Moves(p, Scan(r, "final"))
    /\ UNCHANGED <<tree, edits, locked, seen>>

SameFiles(r) == r.second = r.initial
SameClosure(r) == tree[0] = r.closure
Unchanged(r) == SameFiles(r) /\ SameClosure(r)

\* The final inventory and closure are the initial ones, or there is no bundle.
Compare(p) == LET r == run[p] IN
    /\ r.pc = "compare"
    /\ locked' = Free
    /\ Moves(p, IF Unchanged(r) THEN [r EXCEPT !.pc = "done"] ELSE Idle)
    /\ UNCHANGED <<tree, edits, seen>>

\* The process dies, and the kernel releases its lock.
Die(p) ==
    /\ run[p].pc \notin {"idle", "done"}
    /\ Fails(p)
    /\ UNCHANGED <<tree, edits, seen>>

\* Somebody edits a file, or updates what the checks run on.
Watches(p) ==
    \/ run[p].pc = "check"
    \/ run[p].pc = "scan" /\ run[p].mode = "inventory"
Edit(f) ==
    /\ edits < MaxEdits /\ edits' = edits + 1
    /\ tree' = [tree EXCEPT ![f] = edits']
    /\ seen' = [p \in Runners |-> IF Watches(p) THEN seen[p] \cup {tree'} ELSE seen[p]]
    /\ UNCHANGED <<locked, run>>

Init ==
    /\ tree = [f \in 0..FileCount |-> 0] /\ edits = 0 /\ locked = Free
    /\ run = [p \in Runners |-> Idle] /\ seen = [p \in Runners |-> {}]

Next ==
    \/ \E p \in Runners :
        \/ \E mode \in {"inventory", "initial"} : Begin(p, mode)
        \/ ReadFile(p) \/ TakesInventory(p) \/ Changed(p) \/ Lock(p) \/ Refused(p)
        \/ RunCheck(p) \/ ScanAgain(p) \/ Compare(p) \/ Die(p)
    \/ \E f \in 0..FileCount : Edit(f)

Spec == Init /\ [][Next]_vars

-----------------------------------------------------------------------------
(* Properties *)

Done(p, mode) == run[p].pc = "done" /\ run[p].mode = mode

\* An inventory that is returned is one that the tree really had at some moment of
\* the call, however it was edited file by file meanwhile
\* (build_repository_inventory).
InventoryIsATree == \A p \in Runners : Done(p, "inventory") =>
    \E t \in seen[p] : \A f \in Files : run[p].second[f] = t[f]

\* A diagnostic bundle was made on one tree and one runtime closure, which did not
\* change while any of its checks ran, one run at a time; and no check whose child
\* failed, was cut off, said nothing or tested too little counts as succeeded
\* (run_repository_verification).
DiagnosticIsHonest ==
    /\ \A p \in Runners : Done(p, "final") =>
        /\ \A t \in seen[p] : t[0] = run[p].closure /\ \A f \in Files : t[f] = run[p].second[f]
        /\ run[p].checked = Len(CheckList) /\ run[p].honest
    /\ \A p \in Runners : run[p].pc = "check" => locked = p
=============================================================================
