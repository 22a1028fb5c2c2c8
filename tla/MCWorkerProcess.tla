--------------------------- MODULE MCWorkerProcess ---------------------------
(***************************************************************************)
(* Instance of WorkerProcess: one worker with two connections, of which    *)
(* the daemon can have both at once; two slots, a job of each type and one *)
(* more.  The connections are alike, and so are the jobs v1 and v2.        *)
(***************************************************************************)
EXTENDS WorkerProcess, TLC

CONSTANTS cpu, interactive, v1, v2

MCNameOf == [c \in Connections |-> "a"]
MCJobType == [t \in Tasks |-> CASE t = cpu -> "cpu-exec"
                                [] t = interactive -> "cpu-interactive-exec"
                                [] OTHER -> "other"]
MCSymmetry == Permutations(Connections) \cup Permutations({v1, v2})
=============================================================================
