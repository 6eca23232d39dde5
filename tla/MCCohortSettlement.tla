-------------------------- MODULE MCCohortSettlement --------------------------
(* CohortSettlement on a small instance: two partners, three sales of a window *)
(* of one day, and the producers' flaws.                                       *)
EXTENDS CohortSettlement

Sale(partner, class, amount, first) ==
    [partner |-> partner, class |-> class, amount |-> amount, first |-> first]
MCSaleOf == <<Sale("a", "new", 2, "pending"), Sale("b", "new", 3, "paid"), Sale("a", "existing", 4, "paid")>>

MCSales == DOMAIN MCSaleOf

MCPlan == [name |-> "plan", run |-> "run", issued |-> -1, started |-> 0, ended |-> 1,
    expires |-> 9, decision |-> "go", property |-> "site", rules |-> "rules",
    partners |-> {"a", "b"}, jobs |-> {"j1", "j2"}, target |-> "worker", month |-> "m",
    signer |-> "run_human"]
MCFaults == {"rollback"}
MCFrozen == [property |-> "site", rules |-> "rules", window |-> 1, planTtl |-> 10,
    producerTtl |-> 10, indexTtl |-> 10, reportTtl |-> 10]
MCExpected == [run |-> "run", index |-> "index"]
MCSettlement == [amendmentTtl |-> 2, completenessTtl |-> 2]
MCTraction == [property |-> "site", partners |-> {"a", "b"}, target |-> "worker",
    started |-> 0, expires |-> 9, observationTtl |-> 9]
MCDemand == [name |-> "demand", source |-> "search", rules |-> "rules", month |-> "m",
    clusters |-> <<"c">>, captured |-> 1, expires |-> 9]

\* One of two jobs succeeded; the day may be miscounted, the fault unrestored.
Operations(name, jobs, after) ==
    [name |-> name, source |-> "jobs", rules |-> "rules", property |-> "site",
     started |-> 0, captured |-> 1, expires |-> 9,
     jobs |-> [i \in 1..2 |-> [key |-> IF i = 1 THEN "j1" ELSE "j2", day |-> 0, scheduled |-> 0,
                              completed |-> 1, succeeded |-> i = 1, attempts |-> {i}]],
     days |-> <<[day |-> 0, jobs |-> jobs, succeeded |-> 1, rollbacks |-> 1, restored |-> 1]>>,
     faults |-> <<[id |-> "rollback", run |-> "f", receipt |-> "f", stop |-> "f", injected |-> 0, detected |-> 0,
                   restoring |-> 1, restored |-> 1, before |-> "up", during |-> "down",
                   after |-> after, passed |-> after = "up", target |-> "worker"]>>]
MCOperations == {Operations("good", 2, "up"), Operations("miscounted", 1, "up"),
    Operations("damaged", 2, "down")}
MCActivities == {[source |-> "good", days |-> Range(Operations("good", n, "up").days)] : n \in {1, 2}}
===============================================================================
