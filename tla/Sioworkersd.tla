----------------------------- MODULE Sioworkersd -----------------------------
(***************************************************************************)
(* The core of the daemon: the task manager (taskmanager.py) and the       *)
(* worker manager (workermanager.py) around the scheduler.                 *)
(*                                                                         *)
(* Everything runs in one reactor thread.  A handler (a submitted group, a *)
(* reply, a timeout, a worker that connects or disappears) runs to its end *)
(* before the next one, but it calls the scheduler several times: one call *)
(* is one step here, `handler' says where in the handler the thread is,    *)
(* and only the step that continues the handler is enabled until the       *)
(* thread is "idle" again.  So each step of the daemon is a step of        *)
(* PrioritizingScheduler or leaves the scheduler alone.                    *)
(*                                                                         *)
(* A worker name stands for its one connection; competing connections of   *)
(* the same name are the subject of WorkerRegistration.                    *)
(***************************************************************************)
EXTENDS PrioritizingScheduler

CONSTANTS
    Groups,             \* group ids, reused like the task ids
    Members,            \* [Groups -> sets of tasks]: workers_jobs
    ContestOfGroup,     \* [Groups -> Contests]
    MaxTaskRam          \* max_task_ram_mb

ASSUME GroupsAssumption ==
    /\ Members \in [Groups -> SUBSET Tasks]
    /\ \A g, h \in Groups : g # h => Members[g] \cap Members[h] = {}
    /\ ContestOfGroup \in [Groups -> Contests]
    /\ \A g \in Groups : \A t \in Members[g] : ContestOf[t] = ContestOfGroup[g]
    /\ MaxTaskRam \in Nat
    /\ None \notin Groups /\ None \notin Tasks /\ None \notin {"ok", "error"}

VARIABLES
    wdTasks,       \* [Workers -> sets of tasks]: Worker.tasks
    cpuExec,       \* [Workers -> BOOLEAN]: Worker.is_running_cpu_exec
    deferreds,     \* keys of WorkerManager.deferreds
    closing,       \* workers whose transport got loseConnection()
    errors,        \* labels of the worker manager's errors that were raised
    inProgress,    \* single tasks in TaskManager.inProgress
    groups,        \* groups in TaskManager.inProgress
    outcome,       \* [Tasks -> "ok", "error" or None]: how the task's
                   \* Deferred fired, until its group collects it
    handler,       \* where the reactor thread is
    todo,          \* tasks the handler still has to go through
    forGroup,      \* the group the handler is about, or None
    forWorker      \* the worker the handler is about, or None

workerManagerVars == <<wdTasks, cpuExec, deferreds, closing, errors>>
taskManagerVars == <<inProgress, groups, outcome>>
controlVars == <<handler, todo, forGroup, forWorker>>
vars == <<schedVars, workerManagerVars, taskManagerVars, controlVars>>

Outcomes == {"ok", "error"}

GroupOf(t) == CHOOSE g \in Groups : t \in Members[g]

-----------------------------------------------------------------------------
(***************************************************************************)
(* TaskManager.addTaskGroup / _addGroup.  The group has passed             *)
(* _isTaskValid; a rejected one is answered without touching this state.   *)
(***************************************************************************)
RunGroup(g, p) ==
    /\ handler = "idle"
    /\ g \notin groups /\ Members[g] \cap inProgress = {}
    /\ \A t \in Members[g] : Ram[t] <= MaxTaskRam
    /\ UpdateContest(ContestOfGroup[g], p)
    /\ handler' = "adding" /\ todo' = Members[g] /\ forGroup' = g
    /\ UNCHANGED <<managerVars, workerManagerVars, taskManagerVars, forWorker>>

\* scheduler.addTask, then _deferTask.
AddGroupTask(t) ==
    /\ handler = "adding" /\ t \in todo
    /\ AddTask(t)
    /\ inProgress' = inProgress \cup {t}
    /\ todo' = todo \ {t}
    /\ UNCHANGED <<managerVars, workerManagerVars, groups, outcome, handler, forGroup, forWorker>>

\* The group itself becomes an inProgress entry; then _tryExecute.
AddGroupDone ==
    /\ handler = "adding" /\ todo = {}
    /\ groups' = groups \cup {forGroup}
    /\ handler' = "schedule"
    /\ ScheduleCall
    /\ UNCHANGED <<managerVars, workerManagerVars, inProgress, outcome, todo, forGroup, forWorker>>

-----------------------------------------------------------------------------
(***************************************************************************)
(* TaskManager._tryExecute and WorkerManager.runOnWorker.                  *)
(***************************************************************************)
TryExecute ==
    /\ handler = "call"
    /\ handler' = "schedule"
    /\ ScheduleCall
    /\ UNCHANGED <<managerVars, workerManagerVars, taskManagerVars, todo, forGroup, forWorker>>

TryExecuteLoop ==
    /\ handler = "schedule"
    /\ ScheduleOnce
    /\ UNCHANGED <<managerVars, workerManagerVars, taskManagerVars, controlVars>>

Given(w) == {t \in Tasks : <<t, w>> \in jobs}

\* None of the KeyErrors and RuntimeErrors of runOnWorker is raised when the
\* tasks of Given(w) are sent to w one after the other.
RunOnWorkerAllowed(w) ==
    /\ w \in registered
    /\ Given(w) \subseteq inProgress
    /\ ~cpuExec[w]
    /\ Cardinality(wdTasks[w]) + Cardinality(Given(w)) <= Concurrency[w]
    /\ (\E t \in Given(w) : RealCpu[t]) =>
          /\ wdTasks[w] = {} /\ Cardinality(Given(w)) = 1
          /\ CpuEnabled[w]

\* The DeferredList of a group never fires.
WrongGroupFired(g) == FALSE

\* It fires with the first member.
WrongGroupFiredEarly(g) == g \in Groups /\ \E t \in Members[g] : outcome[t] # None

\* All members of the group have fired: its DeferredList fires.
GroupFired(g) == g \in Groups /\ \A t \in Members[g] : outcome[t] # None

\* schedule() returns and every pair goes to runOnWorker.  When _tryExecute
\* was called by the _taskDone of a group's last task, the group is next.
RunJobs ==
    /\ handler = "schedule"
    /\ ScheduleReturn
    /\ errors' = errors \cup Asserted("runOnWorker",
           \A w \in Workers : Given(w) # {} => RunOnWorkerAllowed(w))
    /\ wdTasks' = [w \in Workers |-> wdTasks[w] \cup Given(w)]
    /\ cpuExec' = [w \in Workers |-> cpuExec[w] \/ \E t \in Given(w) : RealCpu[t]]
    /\ deferreds' = deferreds \cup UNION {Given(w) : w \in Workers}
    /\ handler' = IF GroupFired(forGroup) THEN "collect" ELSE "idle"
    /\ forGroup' = IF GroupFired(forGroup) THEN forGroup ELSE None
    /\ UNCHANGED <<managerVars, closing, taskManagerVars, todo, forWorker>>

-----------------------------------------------------------------------------
(***************************************************************************)
(* A call to a worker ends: a result, a RemoteError or a TimeoutError.     *)
(***************************************************************************)
\* Leaves the exclusive mark on the worker.
WrongFree(t, w) ==
    /\ wdTasks' = [wdTasks EXCEPT ![w] = @ \ {t}]
    /\ deferreds' = deferreds \ {t}
    /\ UNCHANGED <<cpuExec, errors>>

\* Keeps the task in the worker's set.
WrongFreeKeepsTask(t, w) ==
    /\ deferreds' = deferreds \ {t}
    /\ cpuExec' = [cpuExec EXCEPT ![w] = FALSE]
    /\ UNCHANGED <<wdTasks, errors>>

\* runOnWorker._free.  "FATAL: impossible happened" when the worker ran a
\* cpu-exec job and still has tasks left.
Free(t, w) ==
    /\ wdTasks' = [wdTasks EXCEPT ![w] = @ \ {t}]
    /\ deferreds' = deferreds \ {t}
    /\ cpuExec' = [cpuExec EXCEPT ![w] = FALSE]
    /\ errors' = errors \cup Asserted("free",
           t \in deferreds /\ (cpuExec[w] => wdTasks[w] = {t}))

\* _free, then _taskDone of the single task: scheduler.delTask, and
\* _tryExecute next.
TaskDone(t, w, o) ==
    /\ handler = "idle" /\ t \in wdTasks[w]
    /\ Free(t, w)
    /\ DelTask(t)
    /\ inProgress' = inProgress \ {t}
    /\ outcome' = [outcome EXCEPT ![t] = o]
    /\ handler' = "call" /\ forGroup' = GroupOf(t)
    /\ UNCHANGED <<managerVars, groups, todo, forWorker>>

\* A result or an error arrives; a closing transport is no longer read.
Reply(t, w, o) ==
    /\ w \in registered \ closing
    /\ TaskDone(t, w, o)
    /\ UNCHANGED closing

\* TASK_TIMEOUT: _trap_timeout closes the connection, the task fails.
Timeout(t, w) ==
    /\ w \in registered
    /\ TaskDone(t, w, "error")
    /\ closing' = closing \cup {w}

\* DeferredList, _collect, _taskDone of the group, _tryExecute next.
Collect ==
    /\ handler = "collect"
    /\ groups' = groups \ {forGroup}
    /\ outcome' = [t \in Tasks |-> IF t \in Members[forGroup] THEN None ELSE outcome[t]]
    /\ handler' = "call" /\ forGroup' = None
    /\ UNCHANGED <<schedVars, workerManagerVars, inProgress, todo, forWorker>>

-----------------------------------------------------------------------------
(***************************************************************************)
(* Workers come and go.                                                    *)
(***************************************************************************)
\* newWorker after get_running answered []: the entry and the statistics ...
NewWorker(w) ==
    /\ handler = "idle" /\ w \notin registered
    /\ registered' = registered \cup {w}
    /\ minAnyCpuWorkerRam' = MinAnyCpuRam(registered')
    /\ wdTasks' = [wdTasks EXCEPT ![w] = {}]
    /\ cpuExec' = [cpuExec EXCEPT ![w] = FALSE]
    /\ handler' = "newWorker" /\ forWorker' = w
    /\ UNCHANGED <<workerVars, workerQueues, taskQueues, waitVars, taskVars,
                   loopVars, contestPriority, failures, deferreds, closing,
                   errors, taskManagerVars, todo, forGroup>>

\* Adds the worker and does not try to give it tasks.
WrongNewWorkerCallback ==
    /\ handler = "newWorker"
    /\ AddWorker(forWorker)
    /\ handler' = "idle" /\ forWorker' = None
    /\ UNCHANGED <<managerVars, workerManagerVars, taskManagerVars, todo, forGroup>>

\* ... then TaskManager._newWorker.
NewWorkerCallback ==
    /\ handler = "newWorker"
    /\ AddWorker(forWorker)
    /\ handler' = "call" /\ forWorker' = None
    /\ UNCHANGED <<managerVars, workerManagerVars, taskManagerVars, todo, forGroup>>

\* Does not errback the calls to the worker.
WrongWorkerLost(w) ==
    /\ handler = "idle" /\ w \in registered
    /\ registered' = registered \ {w}
    /\ closing' = closing \ {w}
    /\ handler' = "lost" /\ todo' = {} /\ forWorker' = w
    /\ UNCHANGED <<workerVars, workerQueues, taskQueues, waitVars, taskVars,
                   loopVars, contestPriority, failures, minAnyCpuWorkerRam,
                   wdTasks, cpuExec, deferreds, errors, taskManagerVars, forGroup>>

\* connectionLost of a registered worker: workerLost drops the entry first.
WorkerLost(w) ==
    /\ handler = "idle" /\ w \in registered
    /\ registered' = registered \ {w}
    /\ closing' = closing \ {w}
    /\ handler' = "lost" /\ todo' = wdTasks[w] /\ forWorker' = w
    /\ UNCHANGED <<workerVars, workerQueues, taskQueues, waitVars, taskVars,
                   loopVars, contestPriority, failures, minAnyCpuWorkerRam,
                   wdTasks, cpuExec, deferreds, errors, taskManagerVars, forGroup>>

\* errback(WorkerGone): _free, then _retry_on_disconnect takes the task out
\* of the scheduler ...
LostTask(t) ==
    /\ handler = "lost" /\ t \in todo
    /\ Free(t, forWorker)
    /\ DelTask(t)
    /\ handler' = "retry" /\ todo' = todo \ {t}
    /\ UNCHANGED <<managerVars, closing, taskManagerVars, forWorker, forGroup>>

\* The task whose Deferred _retry_on_disconnect is handling.
Retried == {t \in inProgress : t \notin tasks}

\* ... and adds it again, behind every task that arrived meanwhile.
RetryTask(t) ==
    /\ handler = "retry" /\ t \in Retried
    /\ AddTask(t)
    /\ handler' = "lost"
    /\ UNCHANGED <<managerVars, workerManagerVars, taskManagerVars, todo, forGroup, forWorker>>

\* Does not recompute them.
WrongLostStats ==
    /\ handler = "lost" /\ todo = {}
    /\ handler' = "lostWorker"
    /\ UNCHANGED <<schedVars, workerManagerVars, taskManagerVars, todo, forGroup, forWorker>>

\* All tasks went back: the statistics ...
LostStats ==
    /\ handler = "lost" /\ todo = {}
    /\ minAnyCpuWorkerRam' = MinAnyCpuRam(registered)
    /\ handler' = "lostWorker"
    /\ UNCHANGED <<registered, workerVars, workerQueues, taskQueues, waitVars,
                   taskVars, loopVars, contestPriority, failures,
                   workerManagerVars, taskManagerVars, todo, forGroup, forWorker>>

\* ... then TaskManager._lostWorker.
LostWorkerCallback ==
    /\ handler = "lostWorker"
    /\ DelWorker(forWorker)
    /\ handler' = "call" /\ forWorker' = None
    /\ UNCHANGED <<managerVars, workerManagerVars, taskManagerVars, todo, forGroup>>

-----------------------------------------------------------------------------
Init ==
    /\ SchedInit
    /\ wdTasks = [w \in Workers |-> {}]
    /\ cpuExec = [w \in Workers |-> FALSE]
    /\ deferreds = {} /\ closing = {} /\ errors = {}
    /\ inProgress = {} /\ groups = {}
    /\ outcome = [t \in Tasks |-> None]
    /\ handler = "idle" /\ todo = {} /\ forGroup = None /\ forWorker = None

\* What continues the handler the thread is in.
HandlerStep ==
    \/ \E t \in Tasks : AddGroupTask(t)
    \/ AddGroupDone
    \/ TryExecute
    \/ TryExecuteLoop
    \/ RunJobs
    \/ Collect
    \/ NewWorkerCallback
    \/ \E t \in Tasks : LostTask(t)
    \/ \E t \in Tasks : RetryTask(t)
    \/ LostStats
    \/ LostWorkerCallback

\* Nothing runs after an error that the code calls impossible.
Healthy == failures = {} /\ errors = {}

Next ==
    /\ Healthy
    /\ \/ HandlerStep
       \/ \E g \in Groups, p \in ContestPriorities : RunGroup(g, p)
       \/ \E t \in Tasks, w \in Workers, o \in Outcomes : Reply(t, w, o)
       \/ \E t \in Tasks, w \in Workers : Timeout(t, w)
       \/ \E w \in Workers : NewWorker(w)
       \/ \E w \in Workers : WorkerLost(w)

Spec == Init /\ [][Next]_vars

(***************************************************************************)
(* Fairness.  The reactor thread continues the handler it is in.  It gets  *)
(* round to every event that stays pending, however many others it serves  *)
(* in between, hence the strong fairness: a call to a worker ends, by a    *)
(* reply or by TASK_TIMEOUT; a transport that got loseConnection() is      *)
(* closed; a worker that is not connected keeps reconnecting               *)
(* (ReconnectingClientFactory) and is accepted.  Nothing forces a client   *)
(* to submit groups or a worker to disappear.                              *)
(***************************************************************************)
CallEnds(t) == \E w \in Workers :
                  (\E o \in Outcomes : Reply(t, w, o)) \/ Timeout(t, w)

Fairness ==
    /\ WF_vars(Healthy /\ HandlerStep)
    /\ \A t \in Tasks : SF_vars(Healthy /\ CallEnds(t))
    /\ \A w \in Workers : SF_vars(Healthy /\ w \in closing /\ WorkerLost(w))
    /\ \A w \in Workers : SF_vars(Healthy /\ NewWorker(w))

FairSpec == Spec /\ Fairness

-----------------------------------------------------------------------------
(***************************************************************************)
(* Correctness.                                                            *)
(***************************************************************************)
\* Neither the scheduler's assertions nor the worker manager's RuntimeErrors,
\* KeyErrors and "FATAL: impossible happened" are ever raised, whatever the
\* order of submissions, replies, timeouts and disconnections.
NothingRaised == Healthy

\* Between two handlers the scheduler and the worker manager agree: on the
\* workers, on what each of them runs, on the exclusive ones, and each
\* running task has the Deferred that will end it.
ManagersAgree ==
    handler = "idle" =>
        /\ registered = workers
        /\ \A w \in Workers : wdTasks[w] = Attached(w) /\ cpuExec[w] = runningRealCpu[w]
        /\ deferreds = UNION {wdTasks[w] : w \in Workers}
        /\ inProgress = tasks

\* The cached minimum the scheduler reads is up to date whenever it reads it,
\* and so is the set of workers.
StatisticsFresh ==
    scheduling => /\ minAnyCpuWorkerRam = MinAnyCpuRam(registered)
                  /\ registered = workers

\* No wake-up is missed: whenever the thread is idle, another schedule()
\* could return nothing, so no handler ends without the _tryExecute its
\* changes call for.
NoMissedWakeup == handler = "idle" => NoMatch

\* "make sure that we block enough workers for them to handle all tasks"
\* (_scheduleOnce): a task without a reservation goes to an any-cpu worker only if
\* the other workers of the any-cpu queue could process all reserved tasks at the
\* same time.  The scheduler computes the number from the worker manager's
\* statistics and compares it with its own queue, so this takes both to agree.
ReservationsProtected ==
    [][\A t \in Tasks, w \in Workers :
          /\ assigned[t] = None /\ assigned'[t] = w
          /\ t \notin waiting /\ CpuEnabled[w]
          => AtOnce(waiting, Ram, AnyCpuIds \ {w}, TotalRam)]_vars

\* Where the worker manager has a task.
At(t) == IF \E w \in Workers : t \in wdTasks[w]
         THEN CHOOSE w \in Workers : t \in wdTasks[w]
         ELSE None

Service == INSTANCE TaskService WITH
               pending <- groups \cup (IF handler = "adding" THEN {forGroup} ELSE {}),
               result <- outcome,
               at <- [t \in Tasks |-> At(t)]

\* The daemon implements TaskService: through all its handlers, retries and
\* disconnections a task is given to one worker at a time, to one that can take
\* it, ends once, and its group is answered once, when all its members have ended
\* and not before.
ImplementsService == Service!ServiceSpec

\* Every accepted group is answered in the end, once workers stop
\* disappearing.
GroupsAnswered ==
    (<>[][\A w \in Workers : ~WorkerLost(w)]_vars) =>
        \A g \in Groups : g \in groups ~> g \notin groups

\* A reserved real-cpu task gets its worker in the end, once workers stop
\* disappearing: "protects real-cpu tasks against starvation".
RealCpuServed ==
    (<>[][\A w \in Workers : ~WorkerLost(w)]_vars) =>
        \A t \in {u \in Tasks : RealCpu[u]} : t \in waiting ~> t \notin waiting
=============================================================================
