-------------------------- MODULE MCBlockedWorkers ---------------------------
(***************************************************************************)
(* The number of blocked workers against the definition its docstring      *)
(* gives, for every list of reserved tasks and of any-cpu workers up to    *)
(* the bounds, built one task or worker at a time.                         *)
(***************************************************************************)
EXTENDS BlockedWorkers

CONSTANTS
    Sizes,          \* amounts of RAM
    MaxTasks,       \* bound on the reserved tasks
    MaxWorkers,     \* bound on the any-cpu workers
    NoRam           \* the cached minimum when there is no any-cpu worker

ASSUME SizesAssumption == Sizes \subseteq Nat /\ NoRam \notin Nat

VARIABLES taskRams, workerRams      \* sequences of sizes

listVars == <<taskRams, workerRams>>

\* What the code computes; the cached minimum is up to date.
Blocked ==
    NumberOfBlocked(IF workerRams = <<>> THEN NoRam
                    ELSE Least({workerRams[k] : k \in DOMAIN workerRams}),
                    NoRam, DOMAIN taskRams, taskRams, DOMAIN workerRams, workerRams)

ListInit == taskRams = <<>> /\ workerRams = <<>>

ReserveTask(r) ==
    /\ Len(taskRams) < MaxTasks
    /\ taskRams' = Append(taskRams, r)
    /\ UNCHANGED workerRams

ConnectWorker(r) ==
    /\ Len(workerRams) < MaxWorkers
    /\ workerRams' = Append(workerRams, r)
    /\ UNCHANGED taskRams

ListNext == \E r \in Sizes : ReserveTask(r) \/ ConnectWorker(r)

ListSpec == ListInit /\ [][ListNext]_listVars

\* The numbers N such that any N workers can process all reserved tasks.
Sufficient ==
    {n \in 0..Len(workerRams) :
        \A S \in SUBSET DOMAIN workerRams : Cardinality(S) = n =>
            AtOnce(DOMAIN taskRams, taskRams, S, workerRams)}

\* The docstring of _getNumberOfBlockedAnyCpuWorkers: the result is the minimum
\* N such that any N workers can process all reserved tasks, and blocks every
\* worker when there is no such N.  With no worker at all there is none to block.
BlockedIsMinimal ==
    IF Sufficient = {} THEN Blocked >= Len(workerRams)
    ELSE Blocked = Least(Sufficient)
=============================================================================
