--------------------------- MODULE BlockedWorkers ----------------------------
(***************************************************************************)
(* PrioritizingScheduler._getNumberOfBlockedAnyCpuWorkers                  *)
(* (sio/sioworkersd/scheduler/prioritizing.py): how many any-cpu workers   *)
(* the reserved real-cpu tasks keep virtual-cpu tasks away from.           *)
(***************************************************************************)
EXTENDS Integers, FiniteSets, Sequences

Least(S) == CHOOSE m \in S : \A n \in S : m <= n

\* The values size[x], x in S, in ascending order (SortedList, list.sort): the
\* i-th is the least one that at least i elements do not exceed.
SortedSizes(S, size) ==
    [i \in 1..Cardinality(S) |->
        Least({size[x] : x \in
            {y \in S : Cardinality({z \in S : size[z] <= size[y]}) >= i}})]

\* A faulty variant of GreedyIndex, for the sensitivity checks: tasks share a
\* worker.
WrongGreedyIndexShares(taskRams, workerRams) ==
    LET fits(i, from) == {k \in from..Len(workerRams) : workerRams[k] >= taskRams[i]}
        index[i \in 0..Len(taskRams)] ==
            IF i = 0 THEN 1
            ELSE IF fits(i, index[i - 1]) = {} THEN Len(workerRams)
            ELSE Least(fits(i, index[i - 1]))
    IN  index[Len(taskRams)]

(***************************************************************************)
(* The two-pointer loop: index[i] is next_worker_index after the i smallest*)
(* tasks, each of which took the first remaining worker that is large      *)
(* enough.  When there is none the function returns the number of workers, *)
(* which is where the index stays.                                         *)
(***************************************************************************)
GreedyIndex(taskRams, workerRams) ==
    LET fits(i, from) == {k \in (from + 1)..Len(workerRams) :
                             workerRams[k] >= taskRams[i]}
        index[i \in 0..Len(taskRams)] ==
            IF i = 0 THEN 0
            ELSE IF fits(i, index[i - 1]) = {} THEN Len(workerRams)
            ELSE Least(fits(i, index[i - 1]))
    IN  index[Len(taskRams)]

\* minRam is the manager's cached minimum over the any-cpu workers, none its
\* value when there is no such worker.
NumberOfBlocked(minRam, none, tasks, taskRam, workers, workerRam) ==
    IF minRam = none \/ tasks = {} THEN 0
    ELSE IF \A t \in tasks : taskRam[t] <= minRam THEN Cardinality(tasks)
    ELSE GreedyIndex(SortedSizes(tasks, taskRam), SortedSizes(workers, workerRam))

\* What the number is for: the workers of S can process the reserved tasks at
\* the same time, each task alone on a worker that has the RAM for it.
AtOnce(reserved, taskRam, S, workerRam) ==
    \E f \in [reserved -> S] :
        /\ \A t, u \in reserved : f[t] = f[u] => t = u
        /\ \A t \in reserved : workerRam[f[t]] >= taskRam[t]
=============================================================================
