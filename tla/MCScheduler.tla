----------------------------- MODULE MCScheduler -----------------------------
(***************************************************************************)
(* Instance of PrioritizingScheduler for TLC: a vcpu-only worker and two   *)
(* any-cpu workers of different RAM, two virtual-cpu and two real-cpu      *)
(* tasks; the larger real-cpu task fits only one of the workers.           *)
(***************************************************************************)
EXTENDS PrioritizingScheduler

MCWorkers == {1, 2, 3}
MCConcurrency == [w \in MCWorkers |-> 2]
MCTotalRam == [w \in MCWorkers |-> IF w = 3 THEN 3 ELSE 2]
MCCpuEnabled == [w \in MCWorkers |-> w \in {2, 3}]

MCTasks == {"v1", "v2", "r1", "r2"}
MCRealCpu == [t \in MCTasks |-> t \in {"r1", "r2"}]
MCRam == [t \in MCTasks |-> CASE t = "v2" -> 2 [] t = "r2" -> 3 [] OTHER -> 1]
MCPriority == [t \in MCTasks |-> IF t = "v2" THEN 1 ELSE 0]
MCContestOf == [t \in MCTasks |-> IF t \in {"v1"} THEN "A" ELSE "B"]
=============================================================================
