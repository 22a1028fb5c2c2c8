---------------------------- MODULE MCSioworkersd ----------------------------
(***************************************************************************)
(* Instance of Sioworkersd for safety: a vcpu-only worker and two any-cpu  *)
(* workers of different RAM, and two groups of a virtual-cpu and a         *)
(* real-cpu task, the second with the larger tasks.                        *)
(***************************************************************************)
EXTENDS Sioworkersd

MCWorkers == {1, 2, 3}
MCConcurrency == [w \in MCWorkers |-> 2]
MCTotalRam == [w \in MCWorkers |-> IF w = 3 THEN 3 ELSE 2]
MCCpuEnabled == [w \in MCWorkers |-> w \in {2, 3}]

MCTasks == {"v1", "v2", "r1", "r2"}
MCRealCpu == [t \in MCTasks |-> t \in {"r1", "r2"}]
MCRam == [t \in MCTasks |-> IF t \in {"v2", "r2"} THEN 2 ELSE 1]
MCPriority == [t \in MCTasks |-> 0]
MCContestOf == [t \in MCTasks |-> IF t \in {"v2", "r2"} THEN "B" ELSE "A"]

MCGroups == {"g1", "g2"}
MCMembers == [g \in MCGroups |-> IF g = "g1" THEN {"v1", "r1"} ELSE {"v2", "r2"}]
MCContestOfGroup == [g \in MCGroups |-> IF g = "g1" THEN "A" ELSE "B"]
=============================================================================
