----------------------------- MODULE MCLiveness ------------------------------
(***************************************************************************)
(* Instance of Sioworkersd for liveness: one any-cpu worker, one vcpu-only *)
(* worker that two of the three virtual-cpu tasks do not fit, one contest, *)
(* and a real-cpu task that needs all the RAM of the any-cpu worker.       *)
(***************************************************************************)
EXTENDS Sioworkersd

MCWorkers == {1, 2}
MCConcurrency == [w \in MCWorkers |-> 2]
MCTotalRam == [w \in MCWorkers |-> IF w = 1 THEN 1 ELSE 4]
MCCpuEnabled == [w \in MCWorkers |-> w = 2]

MCTasks == {"v1", "v2", "v3", "r1"}
MCRealCpu == [t \in MCTasks |-> t = "r1"]
MCRam == [t \in MCTasks |-> CASE t = "v1" -> 1 [] t = "r1" -> 4 [] OTHER -> 2]
MCPriority == [t \in MCTasks |-> 0]
MCContestOf == [t \in MCTasks |-> "A"]

MCGroups == {"g1", "g2", "g3"}
MCMembers == [g \in MCGroups |->
    CASE g = "g1" -> {"v1", "r1"} [] g = "g2" -> {"v2"} [] OTHER -> {"v3"}]
MCContestOfGroup == [g \in MCGroups |-> "A"]
=============================================================================
