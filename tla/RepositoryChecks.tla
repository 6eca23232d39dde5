--------------------------- MODULE RepositoryChecks ---------------------------
(***************************************************************************)
(* What the fixed checks of saas_preflight's P18 repository verification   *)
(* make of their commands: counts and an exit code from each child, and    *)
(* from them the fact that goes into the verification bundle.              *)
(***************************************************************************)
EXTENDS Integers, Sequences, FiniteSets, FiniteSetsExt

CONSTANT Least  \* Least[c]: the registry's floor of assertions of check c

ASSUME FloorsArePositive == \A c \in DOMAIN Least : Least[c] \in Nat \ {0}

NoReading == <<>>

\* What a child's command can do: end with a code and counts, print no result,
\* run out of time, print too much, or not start at all.
Children == {[how |-> "ended", code |-> c, tests |-> t, bad |-> b, left |-> s] :
                c \in {0, 1}, t \in {0, 2}, b \in {0, 1}, s \in {0, 1}}
            \cup {[how |-> h, code |-> 0, tests |-> 0, bad |-> 0, left |-> 0] :
                h \in {"silent", "timeout", "flood", "nolaunch"}}

\* _execute_repository_verification_command: the group is killed on a limit.
ExitCode(child) ==
    CASE child.how = "timeout" -> 124
      [] child.how = "flood" -> 125
      [] child.how = "nolaunch" -> 126
      [] OTHER -> child.code

Counts(tests, bad, left, code) ==
    [assertions |-> tests, failures |-> bad, skipped |-> left, exit |-> code]

AtMost(n, limit) == Min({n, limit})

\* _parse_pytest_junit and _parse_node_test_counts: no tests counts as one, and a
\* failed command as at least one failure.
Tallied(child, code) ==
    LET tests == Max({child.tests, 1})
        bad == IF code # 0 /\ child.bad = 0 THEN 1 ELSE child.bad
        failures == AtMost(bad, tests)
    IN Counts(tests, failures, AtMost(child.left, tests - failures), code)

\* A pytest run without its report.
PytestResult(child) ==
    IF child.how # "ended" THEN Counts(1, 1, 0, ExitCode(child))
    ELSE Tallied(child, ExitCode(child))

\* _run_repository_web_tests_check: builds and tests until one of them fails.
FirstFailed(children) ==
    {i \in DOMAIN children : ExitCode(children[i]) # 0 /\
        \A j \in 1..(i - 1) : ExitCode(children[j]) = 0}
WebTestsResult(children) ==
    LET last == IF FirstFailed(children) = {} THEN Len(children) ELSE Min(FirstFailed(children))
        ran == {i \in 1..last : children[i].how = "ended"}
        total(Field(_)) == FoldSet(LAMBDA i, n : n + Field(children[i]), 0, ran)
        Tests(c) == c.tests
        Bad(c) == c.bad
        Left(c) == c.left
    IN Tallied([tests |-> total(Tests), bad |-> total(Bad), left |-> total(Left)],
               ExitCode(children[last]))

\* _run_repository_web_lint_check and _repository_simple_check_command
CommandResult(child, assertions) ==
    Counts(Max({assertions, 1}), IF ExitCode(child) = 0 THEN 0 ELSE 1, 0, ExitCode(child))

\* The offline advisory cache is never acceptance evidence.
AuditResult(child) == Counts(1, 1, 0, 3)

\* _compare_generated_trees: the names that are not the same in all three trees.
Differences(expected, first, second) ==
    {n \in DOMAIN expected \cup DOMAIN first \cup DOMAIN second :
        ~(/\ n \in DOMAIN expected /\ n \in DOMAIN first /\ n \in DOMAIN second
          /\ expected[n] = first[n] /\ first[n] = second[n])}
Names(expected, first, second) == DOMAIN expected \cup DOMAIN first \cup DOMAIN second

\* _run_repository_schema_check and _run_repository_fixture_check: two rounds of
\* each generator, compared with the tree that is checked in.
GeneratedResult(codes, trees) ==
    LET names == FoldSet(LAMBDA t, n : n + Max({1, Cardinality(Names(t[1], t[2], t[3]))}), 0, trees)
        differ == FoldSet(LAMBDA t, n : n + (IF Names(t[1], t[2], t[3]) = {} THEN 1
            ELSE Cardinality(Differences(t[1], t[2], t[3]))), 0, trees)
        broken == {c \in codes : c # 0}
        failures == AtMost(differ + (IF broken = {} THEN 0 ELSE 1), names)
    IN Counts(names, failures, 0,
              IF failures = 0 THEN 0 ELSE IF broken = {} THEN 1 ELSE Min(broken))

\* run_repository_verification_check: the results a check can have.
Rounds == [{"file"} -> {"same", "other"}] \cup {[n \in {} |-> "same"]}
Results(check) ==
    CASE check = "pytest" -> {PytestResult(c) : c \in Children}
      [] check = "web" -> {WebTestsResult(<<a, b>>) : a \in Children, b \in Children}
      [] check = "generated" ->
            {GeneratedResult({a, b}, {<<s, t, u>>}) :
                a \in {0, 1, 124}, b \in {0, 1}, s \in Rounds, t \in Rounds, u \in Rounds}
      [] check = "audit" -> {AuditResult(c) : c \in Children}
      [] OTHER -> {CommandResult(c, 2) : c \in Children}

\* _parse_repository_verification_check_result: what the parent makes of what the
\* sandboxed child printed and of the code it ended with.
Agrees(printed, code) ==
    /\ printed.assertions >= 1
    /\ printed.failures + printed.skipped <= printed.assertions
    /\ printed.exit = code
Parsed(printed, code) ==
    IF printed # NoReading /\ Agrees(printed, code) THEN printed ELSE Counts(1, 1, 0, code)

\* The fact of one check: too few assertions are a failure.
Floored(check, result) == IF result.assertions < Least[check]
    THEN [result EXCEPT !.failures = Max({@, 1})] ELSE result
Fact(check, result) ==
    LET r == Floored(check, result)
        failures == AtMost(r.failures, r.assertions)
    IN [r EXCEPT !.failures = failures, !.skipped = AtMost(@, r.assertions - failures)]

Succeeded(fact) == fact.exit = 0 /\ fact.failures = 0 /\ fact.skipped = 0

\* A check went well if its child printed that every assertion passed, printed
\* enough of them, and ended well itself.
WentWell(check, printed, code) ==
    /\ printed # NoReading /\ code = 0 /\ printed.exit = 0
    /\ printed.failures = 0 /\ printed.skipped = 0
    /\ printed.assertions >= Least[check]

\* The facts a check may give, as: it succeeded, and it went well.
Outcomes == [check \in DOMAIN Least |-> {
    <<Succeeded(Fact(check, Parsed(printed, code))), WentWell(check, printed, code)>> :
    printed \in Results(check) \cup {NoReading}, code \in {0, 1, 3, 124}}]
=============================================================================
