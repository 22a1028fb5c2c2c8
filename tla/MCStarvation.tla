---------------------------- MODULE MCStarvation -----------------------------
(***************************************************************************)
(* Instance of Sioworkersd with two equal any-cpu workers of two slots,    *)
(* virtual-cpu tasks of a quarter and three quarters of a worker's RAM,    *)
(* and one real-cpu task.                                                  *)
(***************************************************************************)
EXTENDS Sioworkersd

MCWorkers == {1, 2}
MCConcurrency == [w \in MCWorkers |-> 2]
MCTotalRam == [w \in MCWorkers |-> 4]
MCCpuEnabled == [w \in MCWorkers |-> TRUE]

MCTasks == {"a", "b", "c", "d", "r"}
MCRealCpu == [t \in MCTasks |-> t = "r"]
MCRam == [t \in MCTasks |-> IF t \in {"c", "d"} THEN 3 ELSE 1]
MCPriority == [t \in MCTasks |-> 0]
MCContestOf == [t \in MCTasks |-> "A"]

MCMembers == [g \in MCTasks |-> {g}]
MCContestOfGroup == [g \in MCTasks |-> "A"]

\* The behaviours of FairSpec in which no call times out, no worker is lost
\* and groups come once all workers are there.
Undisturbed ==
    /\ closing' = {} /\ registered \subseteq registered'
    /\ handler' = "adding" => registered = Workers

StableSpec == Init /\ [][Next /\ Undisturbed]_vars /\ Fairness
=============================================================================
