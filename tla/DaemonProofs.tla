----------------------------- MODULE DaemonProofs -----------------------------
(***************************************************************************)
(* The daemon for any number of workers, tasks, contests and groups: the   *)
(* task manager and the worker manager keep to the scheduler's interface,  *)
(* agree with it between two handlers, raise none of the errors they call  *)
(* impossible, and together do what TaskService promises.                  *)
(*                                                                         *)
(* ManagersAgree says nothing while a handler runs, so it is not           *)
(* inductive.  The invariant below says, for each place the reactor thread *)
(* can be in, by how much the three differ there.                          *)
(***************************************************************************)
EXTENDS Sioworkersd, SchedulerProofs

Leaving == {"lost", "retry", "lostWorker"}

Handlers == {"idle", "adding", "call", "schedule", "collect", "newWorker"} \cup Leaving

DaemonTypeOK ==
    /\ wdTasks \in [Workers -> SUBSET Tasks]
    /\ cpuExec \in [Workers -> BOOLEAN]
    /\ deferreds \subseteq Tasks /\ closing \subseteq Workers
    /\ inProgress \subseteq Tasks /\ groups \subseteq Groups
    /\ outcome \in [Tasks -> Outcomes \cup {None}]
    /\ handler \in Handlers /\ todo \subseteq Tasks
    /\ forGroup \in Groups \cup {None} /\ forWorker \in Workers \cup {None}

\* What the thread carries from one step of a handler to the next.
ControlInv ==
    /\ scheduling <=> handler = "schedule"
    /\ handler \notin {"adding", "lost", "retry"} => todo = {}
    /\ handler \in Leaving \cup {"newWorker"} => forWorker \in Workers
    /\ handler \in Leaving \cup {"idle", "newWorker"} => forGroup = None
    /\ handler \in {"adding", "collect"} => forGroup \in Groups

\* The workers of the two managers, and the statistics.
WorkersAgree ==
    /\ handler = "newWorker" =>
          registered = workers \cup {forWorker} /\ forWorker \notin workers
    /\ handler \in Leaving =>
          workers = registered \cup {forWorker} /\ forWorker \notin registered
    /\ handler \notin Leaving \cup {"newWorker"} => registered = workers
    /\ handler \notin {"lost", "retry"} => minAnyCpuWorkerRam = MinAnyCpuRam(registered)

\* What runs on a worker: schedule() is ahead of the worker manager by the jobs it
\* has not returned yet.
LoadsAgree ==
    /\ \A w \in Workers :
          /\ Attached(w) = wdTasks[w] \cup Given(w)
          /\ wdTasks[w] \cap Given(w) = {}
          /\ cpuExec[w] <=> \E t \in wdTasks[w] : RealCpu[t]
    /\ deferreds = UNION {wdTasks[w] : w \in Workers}
    /\ handler \in {"lost", "retry"} => todo = wdTasks[forWorker]
    /\ handler = "lostWorker" => wdTasks[forWorker] = {}

\* The tasks of the task manager: it has one more than the scheduler while a task
\* is retried.
TasksAgree ==
    /\ handler # "retry" => inProgress = tasks
    /\ handler = "retry" => \E t \in Tasks \ tasks : inProgress = tasks \cup {t}
    /\ \A t \in inProgress : contestPriority[ContestOf[t]] # None

\* Groups that were accepted and not answered.
Pending == groups \cup (IF handler = "adding" THEN {forGroup} ELSE {})

\* Each task in progress belongs to a group that waits for it, and each member of
\* a group is in progress or has ended.
GroupsInv ==
    /\ handler = "adding" =>
          /\ forGroup \notin groups
          /\ todo \subseteq Members[forGroup] /\ todo \cap inProgress = {}
          /\ Members[forGroup] \ todo \subseteq inProgress
          /\ contestPriority[ContestOfGroup[forGroup]] # None
    /\ handler \in {"call", "schedule", "collect"} => forGroup \in groups \cup {None}
    /\ handler = "collect" => GroupFired(forGroup)
    /\ \A t \in inProgress : outcome[t] = None /\ \E g \in Pending : t \in Members[g]
    /\ \A t \in Tasks : outcome[t] # None => \E g \in groups : t \in Members[g]
    /\ \A g \in groups : \A t \in Members[g] : t \in inProgress \/ outcome[t] # None

DaemonInv ==
    /\ SchedInv
    /\ DaemonTypeOK
    /\ ControlInv
    /\ WorkersAgree
    /\ LoadsAgree
    /\ TasksAgree
    /\ GroupsInv
    /\ NoMissedWakeup
    /\ errors = {}

-----------------------------------------------------------------------------
(***************************************************************************)
(* Facts about the state between two steps.                                *)
(***************************************************************************)
LEMMA GroupsFacts ==
    /\ \A g \in Groups : Members[g] \subseteq Tasks /\ ContestOfGroup[g] \in Contests
    /\ \A g, h \in Groups : \A t \in Members[g] : t \in Members[h] => g = h
    /\ \A g \in Groups : \A t \in Members[g] : ContestOf[t] = ContestOfGroup[g]
BY GroupsAssumption

\* Outside schedule() no job waits to be returned.
LEMMA NothingGiven ==
    ASSUME SchedInv, ~scheduling
    PROVE  \A w \in Workers : Given(w) = {}
BY DEF SchedInv, JobsAreAttached, Given

\* A task of the worker manager is attached to that worker and to no other, and is
\* one of the scheduler's.
LEMMA LoadFacts ==
    ASSUME SchedInv, DaemonTypeOK, LoadsAgree, NEW w \in Workers, NEW t \in wdTasks[w]
    PROVE  /\ t \in tasks /\ assigned[t] = w /\ w \in workers /\ t \in deferreds
           /\ \A v \in Workers : t \in wdTasks[v] => v = w
           /\ cpuExec[w] => wdTasks[w] = {t}
<1>1. \A v \in Workers : wdTasks[v] \subseteq Attached(v)
  BY DEF LoadsAgree
<1>2. t \in Attached(w) /\ t \in Tasks /\ assigned[t] = w
  BY <1>1 DEF Attached
<1>3. t \in tasks /\ w \in workers
  BY <1>2, NoneAssumption DEF SchedInv, TaskPlacement, CountersMatchTasks
<1>4. t \in deferreds
  BY DEF LoadsAgree
<1>5. \A v \in Workers : t \in wdTasks[v] => v = w
  BY <1>1, <1>2 DEF Attached
<1>6. ASSUME cpuExec[w] PROVE wdTasks[w] = {t}
  <2>1. \E u \in Attached(w) : RealCpu[u]
    BY <1>1, <1>6 DEF LoadsAgree
  <2>2. Cardinality(Attached(w)) = 1 /\ IsFiniteSet(Attached(w))
    BY <2>1, AttachedIsFinite DEF SchedInv, RealCpuExclusive, CountersMatchTasks
  <2>3. \E x : Attached(w) = {x}
    BY <2>2, FS_Singleton
  <2> QED
    BY <1>1, <1>2, <2>3
<1> QED
  BY <1>2, <1>3, <1>4, <1>5, <1>6

LEMMA DaemonInitInv == Init => DaemonInv
<1> SUFFICES ASSUME Init PROVE DaemonInv
  OBVIOUS
<1>1. SchedInv
  BY SchedInitInv DEF Init
<1>2. SchedInit
  BY DEF Init
<1>3. DaemonTypeOK /\ ControlInv
  BY <1>2 DEF Init, SchedInit, DaemonTypeOK, ControlInv, Handlers, Leaving
<1>4. WorkersAgree
  <2>1. MinAnyCpuRam({}) = None
    BY DEF MinAnyCpuRam
  <2> QED
    BY <1>2, <2>1 DEF Init, SchedInit, WorkersAgree, Leaving
<1>5. LoadsAgree
  <2>1. \A w \in Workers : Attached(w) = {} /\ Given(w) = {}
    BY <1>2, NoneAssumption DEF SchedInit, Attached, Given
  <2> QED
    BY <2>1 DEF Init, LoadsAgree
<1>6. TasksAgree /\ GroupsInv
  BY <1>2 DEF Init, SchedInit, TasksAgree, GroupsInv, Pending
<1>7. NoMissedWakeup
  BY <1>2 DEF Init, SchedInit, NoMissedWakeup, NoMatch, NoVcpuOnlyMatch, NoWaitingMatch, WaitingHead
<1>8. errors = {}
  BY DEF Init
<1> QED
  BY <1>1, <1>3, <1>4, <1>5, <1>6, <1>7, <1>8 DEF DaemonInv

-----------------------------------------------------------------------------
(***************************************************************************)
(* The managers keep to the interface of the scheduler.                    *)
(***************************************************************************)
LEMMA GroupStepsKeepInterface ==
    ASSUME DaemonInv,
           \/ \E g \in Groups, p \in ContestPriorities : RunGroup(g, p)
           \/ \E t \in Tasks : AddGroupTask(t)
           \/ AddGroupDone
           \/ Collect
    PROVE  [SchedNext]_schedVars
<1>1. failures = {}
  BY DEF DaemonInv, SchedInv, AssertionsHold
<1>2. ASSUME NEW g \in Groups, NEW p \in ContestPriorities, RunGroup(g, p) PROVE SchedNext
  BY <1>1, <1>2, GroupsFacts DEF RunGroup, SchedNext, Operation
<1>3. ASSUME NEW t \in Tasks, AddGroupTask(t) PROVE SchedNext
  <2>1. t \notin tasks /\ contestPriority[ContestOf[t]] # None
    BY <1>3, GroupsFacts DEF AddGroupTask, DaemonInv, ControlInv, TasksAgree, GroupsInv
  <2> QED
    BY <1>1, <1>3, <2>1 DEF AddGroupTask, SchedNext, Operation
<1>4. CASE AddGroupDone
  BY <1>1, <1>4 DEF AddGroupDone, SchedNext, Operation
<1>5. CASE Collect
  BY <1>5 DEF Collect
<1> QED
  BY <1>2, <1>3, <1>4, <1>5

LEMMA TaskStepsKeepInterface ==
    ASSUME DaemonInv,
           \/ \E t \in Tasks, w \in Workers, o \in Outcomes : Reply(t, w, o)
           \/ \E t \in Tasks, w \in Workers : Timeout(t, w)
           \/ \E t \in Tasks : LostTask(t)
           \/ \E t \in Tasks : RetryTask(t)
           \/ TryExecute
           \/ TryExecuteLoop
           \/ RunJobs
    PROVE  SchedNext
<1>1. failures = {}
  BY DEF DaemonInv, SchedInv, AssertionsHold
<1>2. ASSUME NEW t \in Tasks, NEW w \in Workers, t \in wdTasks[w], DelTask(t),
             UNCHANGED managerVars
      PROVE  SchedNext
  <2>1. t \in tasks
    BY <1>2, LoadFacts DEF DaemonInv
  <2> QED
    BY <1>1, <1>2, <2>1 DEF SchedNext, Operation
<1>3. ASSUME NEW t \in Tasks, NEW w \in Workers, NEW o, TaskDone(t, w, o) PROVE SchedNext
  BY <1>2, <1>3 DEF TaskDone
<1>4. ASSUME NEW t \in Tasks, LostTask(t) PROVE SchedNext
  <2>1. forWorker \in Workers /\ t \in wdTasks[forWorker]
    BY <1>4 DEF LostTask, DaemonInv, ControlInv, LoadsAgree, Leaving
  <2> QED
    BY <1>2, <1>4, <2>1 DEF LostTask
<1>5. ASSUME NEW t \in Tasks, RetryTask(t) PROVE SchedNext
  <2>1. t \notin tasks /\ contestPriority[ContestOf[t]] # None
    BY <1>5 DEF RetryTask, Retried, DaemonInv, TasksAgree
  <2> QED
    BY <1>1, <1>5, <2>1 DEF RetryTask, SchedNext, Operation
<1>6. CASE TryExecute \/ TryExecuteLoop \/ RunJobs
  BY <1>1, <1>6 DEF TryExecute, TryExecuteLoop, RunJobs, SchedNext, Operation
<1> QED
  BY <1>3, <1>4, <1>5, <1>6 DEF Reply, Timeout

LEMMA WorkerStepsKeepInterface ==
    ASSUME DaemonInv,
           \/ \E w \in Workers : NewWorker(w) \/ WorkerLost(w)
           \/ NewWorkerCallback
           \/ LostStats
           \/ LostWorkerCallback
    PROVE  SchedNext
<1>1. failures = {} /\ registered \subseteq Workers
  BY DEF DaemonInv, SchedInv, SchedTypeOK, AssertionsHold
<1>2. ASSUME NEW w \in Workers, NewWorker(w) \/ WorkerLost(w) PROVE SchedNext
  <2>1. ~scheduling
    BY <1>2 DEF NewWorker, WorkerLost, DaemonInv, ControlInv
  <2> QED
    BY <1>1, <1>2, <2>1 DEF NewWorker, WorkerLost, SchedNext, ManagerChanges
<1>3. CASE LostStats
  <2>1. ~scheduling
    BY <1>3 DEF LostStats, DaemonInv, ControlInv
  <2> QED
    BY <1>1, <1>3, <2>1 DEF LostStats, SchedNext, ManagerChanges
<1>4. CASE NewWorkerCallback
  <2>1. forWorker \in registered \ workers
    BY <1>4 DEF NewWorkerCallback, DaemonInv, WorkersAgree
  <2> QED
    BY <1>1, <1>4, <2>1 DEF NewWorkerCallback, SchedNext, Operation
<1>5. CASE LostWorkerCallback
  <2>1. handler = "lostWorker" /\ ~scheduling
    BY <1>5 DEF LostWorkerCallback, DaemonInv, ControlInv
  <2>2. forWorker \in workers /\ forWorker \in Workers
    BY <2>1 DEF DaemonInv, WorkersAgree, ControlInv, Leaving
  <2>3. Attached(forWorker) = {}
    BY <2>1, <2>2, NothingGiven DEF DaemonInv, LoadsAgree
  <2>4. running[forWorker] = 0
    BY <2>2, <2>3, FS_EmptySet DEF DaemonInv, SchedInv, CountersMatchTasks
  <2> QED
    BY <1>1, <1>5, <2>2, <2>4 DEF LostWorkerCallback, SchedNext, Operation
<1> QED
  BY <1>2, <1>3, <1>4, <1>5

LEMMA StepsKeepInterface == DaemonInv /\ [Next]_vars => [SchedNext]_schedVars
<1> SUFFICES ASSUME DaemonInv, [Next]_vars PROVE [SchedNext]_schedVars
  OBVIOUS
<1>1. CASE UNCHANGED vars
  BY <1>1 DEF vars
<1>2. CASE Next
  BY <1>2, GroupStepsKeepInterface, TaskStepsKeepInterface, WorkerStepsKeepInterface
  DEF Next, HandlerStep
<1> QED
  BY <1>1, <1>2

-----------------------------------------------------------------------------
(***************************************************************************)
(* The steps of the handlers keep the invariant.                           *)
(***************************************************************************)
\* What runs where does not change, nor do the tasks that a lost worker had.
LEMMA LoadsUntouched ==
    ASSUME LoadsAgree, UNCHANGED <<assigned, jobs, wdTasks, cpuExec, deferreds>>,
           handler' \notin {"lost", "retry", "lostWorker"}
    PROVE  LoadsAgree'
<1>1. \A w \in Workers : Attached(w)' = Attached(w) /\ Given(w)' = Given(w)
  BY DEF Attached, Given
<1> QED
  BY <1>1 DEF LoadsAgree

LEMMA RunGroupStep ==
    ASSUME DaemonInv, SchedInv', NEW g \in Groups, NEW p \in ContestPriorities, RunGroup(g, p)
    PROVE  DaemonInv'
<1>1. /\ handler = "idle" /\ g \notin groups /\ Members[g] \cap inProgress = {}
      /\ ~scheduling
      /\ contestPriority' = [contestPriority EXCEPT ![ContestOfGroup[g]] = p]
      /\ handler' = "adding" /\ todo' = Members[g] /\ forGroup' = g
      /\ UNCHANGED <<workers, assigned, jobs, tasks, scheduling, registered, minAnyCpuWorkerRam>>
      /\ UNCHANGED <<workerManagerVars, taskManagerVars, forWorker>>
  BY DEF RunGroup, UpdateContest, workerVars, taskVars, loopVars, managerVars
<1>2. Members[g] \subseteq Tasks /\ ContestOfGroup[g] \in Contests
  BY GroupsFacts
<1>3. DaemonTypeOK'
  BY <1>1, <1>2 DEF DaemonInv, DaemonTypeOK, workerManagerVars, taskManagerVars, Handlers
<1>4. ControlInv'
  BY <1>1, <1>2 DEF DaemonInv, ControlInv, Leaving
<1>5. WorkersAgree'
  BY <1>1 DEF DaemonInv, WorkersAgree, Leaving, MinAnyCpuRam
<1>6. LoadsAgree'
  BY <1>1, LoadsUntouched DEF DaemonInv, workerManagerVars
<1>7. \A c \in Contests : contestPriority[c] # None => contestPriority'[c] # None
  BY <1>1, TasksAssumption, NoneAssumption DEF DaemonInv, SchedInv, SchedTypeOK
<1>8. TasksAgree'
  BY <1>1, <1>7, TasksAssumption DEF DaemonInv, DaemonTypeOK, TasksAgree, taskManagerVars
<1>9. GroupsInv'
  <2>1. contestPriority'[ContestOfGroup[g]] # None
    BY <1>1, <1>2, TasksAssumption, NoneAssumption DEF DaemonInv, SchedInv, SchedTypeOK
  <2> QED
    BY <1>1, <2>1 DEF DaemonInv, GroupsInv, Pending, taskManagerVars
<1>10. NoMissedWakeup' /\ errors' = {}
  BY <1>1 DEF DaemonInv, NoMissedWakeup, workerManagerVars
<1> QED
  BY <1>3, <1>4, <1>5, <1>6, <1>8, <1>9, <1>10 DEF DaemonInv

\* addTask of a task the scheduler does not know attaches nothing.
LEMMA AddTaskLoads ==
    ASSUME SchedInv, NEW t \in Tasks \ tasks, AddTask(t)
    PROVE  /\ tasks' = tasks \cup {t}
           /\ UNCHANGED <<workers, assigned, jobs, scheduling, contestPriority>>
<1>1. assigned[t] = None
  BY DEF SchedInv, TaskPlacement
<1>2. assigned' = assigned
  BY <1>1 DEF SchedInv, SchedTypeOK, AddTask
<1> QED
  BY <1>2 DEF AddTask, workerVars, loopVars

LEMMA AddGroupTaskStep ==
    ASSUME DaemonInv, SchedInv', NEW t \in Tasks, AddGroupTask(t)
    PROVE  DaemonInv'
<1>1. /\ handler = "adding" /\ t \in todo /\ forGroup \in Groups
      /\ todo \subseteq Members[forGroup] /\ todo \cap inProgress = {} /\ inProgress = tasks
      /\ forGroup \notin groups
  BY DEF AddGroupTask, DaemonInv, ControlInv, TasksAgree, GroupsInv
<1>2. /\ tasks' = tasks \cup {t} /\ inProgress' = inProgress \cup {t} /\ todo' = todo \ {t}
      /\ UNCHANGED <<workers, assigned, jobs, scheduling, contestPriority, registered,
                     minAnyCpuWorkerRam>>
      /\ UNCHANGED <<workerManagerVars, groups, outcome, handler, forGroup, forWorker>>
  BY <1>1, AddTaskLoads DEF AddGroupTask, DaemonInv, managerVars
<1>3. DaemonTypeOK'
  BY <1>2 DEF DaemonInv, DaemonTypeOK, workerManagerVars
<1>4. ControlInv'
  BY <1>1, <1>2 DEF DaemonInv, ControlInv, Leaving
<1>5. WorkersAgree'
  BY <1>1, <1>2 DEF DaemonInv, WorkersAgree, Leaving, MinAnyCpuRam
<1>6. LoadsAgree'
  BY <1>1, <1>2, LoadsUntouched DEF DaemonInv, workerManagerVars
<1>7. t \in Members[forGroup] /\ contestPriority[ContestOf[t]] # None
  BY <1>1, GroupsFacts DEF DaemonInv, GroupsInv
<1>8. TasksAgree'
  BY <1>1, <1>2, <1>7 DEF DaemonInv, TasksAgree
<1>9. outcome[t] = None
  BY <1>1, <1>7, GroupsFacts DEF DaemonInv, DaemonTypeOK, GroupsInv
<1>10. GroupsInv'
  <2>1. GroupsInv
    BY DEF DaemonInv
  <2>2. /\ todo' \subseteq Members[forGroup'] /\ todo' \cap inProgress' = {}
        /\ Members[forGroup'] \ todo' \subseteq inProgress'
    BY <1>1, <1>2, <2>1 DEF GroupsInv
  <2>3. \A u \in inProgress' : outcome'[u] = None /\ \E g \in Pending' : u \in Members[g]
    BY <1>1, <1>2, <1>7, <1>9, <2>1 DEF GroupsInv, Pending
  <2> QED
    BY <1>1, <1>2, <2>1, <2>2, <2>3 DEF GroupsInv
<1>11. NoMissedWakeup' /\ errors' = {}
  BY <1>1, <1>2 DEF DaemonInv, NoMissedWakeup, workerManagerVars
<1> QED
  BY <1>3, <1>4, <1>5, <1>6, <1>8, <1>10, <1>11 DEF DaemonInv

LEMMA AddGroupDoneStep ==
    ASSUME DaemonInv, SchedInv', AddGroupDone
    PROVE  DaemonInv'
<1>1. /\ handler = "adding" /\ todo = {} /\ forGroup \in Groups
      /\ groups' = groups \cup {forGroup} /\ handler' = "schedule" /\ scheduling' = TRUE
      /\ UNCHANGED <<workers, assigned, jobs, tasks, contestPriority, registered,
                     minAnyCpuWorkerRam>>
      /\ UNCHANGED <<workerManagerVars, inProgress, outcome, todo, forGroup, forWorker>>
  BY DEF AddGroupDone, ScheduleCall, DaemonInv, ControlInv, workerVars, taskVars, managerVars
<1>2. DaemonTypeOK' /\ ControlInv'
  BY <1>1 DEF DaemonInv, DaemonTypeOK, ControlInv, workerManagerVars, Handlers, Leaving
<1>3. WorkersAgree'
  BY <1>1 DEF DaemonInv, WorkersAgree, Leaving, MinAnyCpuRam
<1>4. LoadsAgree'
  BY <1>1, LoadsUntouched DEF DaemonInv, workerManagerVars
<1>5. TasksAgree'
  BY <1>1 DEF DaemonInv, TasksAgree
<1>6. GroupsInv'
  BY <1>1 DEF DaemonInv, GroupsInv, Pending
<1>7. NoMissedWakeup' /\ errors' = {}
  BY <1>1 DEF DaemonInv, NoMissedWakeup, workerManagerVars
<1> QED
  BY <1>2, <1>3, <1>4, <1>5, <1>6, <1>7 DEF DaemonInv

LEMMA TryExecuteStep ==
    ASSUME DaemonInv, SchedInv', TryExecute
    PROVE  DaemonInv'
<1>1. /\ handler = "call" /\ handler' = "schedule" /\ scheduling' = TRUE
      /\ UNCHANGED <<workers, assigned, jobs, tasks, contestPriority, registered,
                     minAnyCpuWorkerRam>>
      /\ UNCHANGED <<workerManagerVars, taskManagerVars, todo, forGroup, forWorker>>
  BY DEF TryExecute, ScheduleCall, workerVars, taskVars, managerVars
<1>2. DaemonTypeOK' /\ ControlInv'
  BY <1>1 DEF DaemonInv, DaemonTypeOK, ControlInv, workerManagerVars, taskManagerVars, Handlers,
              Leaving
<1>3. WorkersAgree'
  BY <1>1 DEF DaemonInv, WorkersAgree, Leaving, MinAnyCpuRam
<1>4. LoadsAgree'
  BY <1>1, LoadsUntouched DEF DaemonInv, workerManagerVars
<1>5. TasksAgree' /\ GroupsInv'
  BY <1>1 DEF DaemonInv, TasksAgree, GroupsInv, Pending, taskManagerVars
<1>6. NoMissedWakeup' /\ errors' = {}
  BY <1>1 DEF DaemonInv, NoMissedWakeup, workerManagerVars
<1> QED
  BY <1>2, <1>3, <1>4, <1>5, <1>6 DEF DaemonInv

\* An iteration of schedule() adds a task to what is attached to a worker and to
\* what will be given to it, or changes neither.
LEMMA TryExecuteLoopStep ==
    ASSUME DaemonInv, SchedInv', TryExecuteLoop
    PROVE  DaemonInv'
<1>1. /\ handler = "schedule" /\ scheduling
      /\ UNCHANGED <<workers, tasks, contestPriority, scheduling>>
      /\ UNCHANGED <<managerVars, workerManagerVars, taskManagerVars, controlVars>>
  BY DEF TryExecuteLoop, ScheduleOnce, ScheduleVcpuOnly, ScheduleWaiting, ScheduleAnyCpu, Reserve,
         AttachTaskToWorker, UpdateWorker, workerVars, taskVars, loopVars
<1>2. DaemonTypeOK' /\ ControlInv'
  BY <1>1 DEF DaemonInv, DaemonTypeOK, ControlInv, workerManagerVars, taskManagerVars,
              controlVars
<1>3. WorkersAgree'
  BY <1>1 DEF DaemonInv, WorkersAgree, Leaving, MinAnyCpuRam, managerVars, controlVars
<1>4. LoadsAgree'
  <2>1. CASE \E t \in Tasks : Reserve(t)
    <3>1. UNCHANGED <<assigned, jobs>>
      BY <2>1 DEF Reserve, taskVars, loopVars
    <3> QED
      BY <1>1, <3>1, LoadsUntouched DEF DaemonInv, workerManagerVars, controlVars
  <2>2. ASSUME NEW t \in Tasks, NEW w \in Workers, t \in both \cup waiting,
               AttachTaskToWorker(t, w)
        PROVE  LoadsAgree'
    <3>1. /\ assigned[t] = None /\ assigned' = [assigned EXCEPT ![t] = w]
          /\ jobs' = jobs \cup {<<t, w>>}
      BY <2>2 DEF AttachTaskToWorker, DaemonInv, SchedInv, TaskPlacement
    <3>2. t \notin Attached(w) /\ assigned \in [Tasks -> Workers \cup {None}]
      BY <3>1, NoneAssumption DEF Attached, DaemonInv, SchedInv, SchedTypeOK
    <3>3. \A v \in Workers : /\ Attached(v)' = IF v = w THEN Attached(v) \cup {t} ELSE Attached(v)
                             /\ Given(v)' = IF v = w THEN Given(v) \cup {t} ELSE Given(v)
      BY <3>1, <3>2, NoneAssumption DEF Attached, Given
    <3> QED
      BY <1>1, <3>2, <3>3 DEF DaemonInv, LoadsAgree, workerManagerVars, controlVars
  <2>3. ASSUME NEW t \in Tasks, NEW w \in Workers,
               ScheduleVcpuOnly(t, w) \/ ScheduleWaiting(t, w) \/ ScheduleAnyCpu(t, w)
        PROVE  t \in both \cup waiting /\ AttachTaskToWorker(t, w)
    BY <2>3 DEF ScheduleVcpuOnly, ScheduleWaiting, ScheduleAnyCpu, Draws, WaitingHead, DaemonInv,
                SchedInv, TaskPlacement
  <2> QED
    BY <2>1, <2>2, <2>3 DEF TryExecuteLoop, ScheduleOnce
<1>5. TasksAgree' /\ GroupsInv'
  BY <1>1 DEF DaemonInv, TasksAgree, GroupsInv, Pending, GroupFired, taskManagerVars, controlVars
<1>6. NoMissedWakeup' /\ errors' = {}
  BY <1>1 DEF DaemonInv, NoMissedWakeup, workerManagerVars, controlVars
<1> QED
  BY <1>2, <1>3, <1>4, <1>5, <1>6 DEF DaemonInv

\* What schedule() gives a worker, together with what it has, is attached to it and
\* within its capacity: runOnWorker refuses nothing.
LEMMA GivenIsAllowed ==
    ASSUME DaemonInv, handler = "schedule", NEW w \in Workers, Given(w) # {}
    PROVE  RunOnWorkerAllowed(w)
<1> DEFINE A == Attached(w)
           G == Given(w)
           T == wdTasks[w]
<1>1. /\ A = T \cup G /\ T \cap G = {} /\ A \subseteq Tasks
      /\ cpuExec[w] <=> \E t \in T : RealCpu[t]
      /\ registered = workers /\ inProgress = tasks
  BY DEF DaemonInv, LoadsAgree, WorkersAgree, TasksAgree, Attached, Leaving
<1>2. /\ IsFiniteSet(A) /\ IsFiniteSet(T) /\ IsFiniteSet(G)
      /\ Cardinality(T) \in Nat /\ Cardinality(G) \in Nat
  BY <1>1, AttachedIsFinite, FS_Subset, FS_CardinalityType DEF DaemonInv, SchedInv
<1>3. /\ running[w] = Cardinality(A) /\ w \in workers /\ A \subseteq tasks
      /\ running[w] <= Concurrency[w]
      /\ runningRealCpu[w] <=> \E t \in A : RealCpu[t]
      /\ runningRealCpu[w] => running[w] = 1 /\ CpuEnabled[w]
  <2>1. running[w] = Cardinality(A) /\ w \in workers
    BY <1>1 DEF DaemonInv, SchedInv, CountersMatchTasks
  <2>2. A \subseteq tasks
    BY NoneAssumption DEF DaemonInv, SchedInv, TaskPlacement, Attached
  <2> QED
    BY <2>1, <2>2 DEF DaemonInv, SchedInv, WithinCapacity, RealCpuExclusive
<1>4. Cardinality(A) = Cardinality(T) + Cardinality(G)
  <2>1. Cardinality(T \cap G) = 0
    BY <1>1, FS_EmptySet
  <2>2. Cardinality(T \cup G) = Cardinality(T) + Cardinality(G) - Cardinality(T \cap G)
    BY <1>2, FS_Union
  <2> HIDE DEF A, T, G
  <2> QED
    BY <1>1, <1>2, <2>1, <2>2
<1>5. Cardinality(G) # 0
  BY <1>2, FS_EmptySet
<1>6. Cardinality(T) # 0 \/ T = {}
  BY <1>2, FS_EmptySet
<1>7. (\E t \in A : RealCpu[t]) => T = {} /\ Cardinality(G) = 1 /\ CpuEnabled[w]
  BY <1>2, <1>3, <1>4, <1>5, <1>6
<1> QED
  BY <1>1, <1>3, <1>4, <1>7 DEF RunOnWorkerAllowed

\* schedule() would find nothing as long as what it reads stays the same.
LEMMA NoMatchUntouched ==
    ASSUME NoMatch, UNCHANGED <<workerVars, workerQueues, taskQueues, waitVars, taskVars,
                                contestPriority, managerVars>>
    PROVE  NoMatch'
<1>1. UNCHANGED <<running, usedRam, runningRealCpu, vcpuOnlyQueue, anyCpuQueue, virtualCpu, both,
                  waiting, waitOrder, arrival, contestPriority, registered, minAnyCpuWorkerRam>>
  BY DEF workerVars, workerQueues, taskQueues, waitVars, taskVars, managerVars
<1>2. \A w : /\ getAvailableRam(w)' = getAvailableRam(w)
            /\ getAvailableVcpuSlots(w)' = getAvailableVcpuSlots(w)
  BY <1>1 DEF getAvailableRam, getAvailableVcpuSlots
<1>3. \A v, w, ram, busy : /\ Viable(w, ram)' = Viable(w, ram)
                          /\ MoreSuitable(v, w, ram, busy)' = MoreSuitable(v, w, ram, busy)
  BY <1>1, <1>2 DEF Viable, MoreSuitable, Closer, Distance
<1>4. AnyCpuIds' = AnyCpuIds /\ AnyCpuOrder' = AnyCpuOrder /\ VcpuOnlyOrder' = VcpuOnlyOrder
  BY <1>1 DEF AnyCpuIds, AnyCpuOrder, VcpuOnlyOrder, KeyBefore
<1>5. \A ram : /\ BestVcpuOnly(ram)' = BestVcpuOnly(ram)
              /\ BestAnyCpu(ram)' = BestAnyCpu(ram)
              /\ BestForRealCpu(ram)' = BestForRealCpu(ram)
  BY <1>1, <1>2, <1>3, <1>4 DEF BestVcpuOnly, BestAnyCpu, BestForRealCpu, BestForVirtualCpu
<1>6. Draws(virtualCpu)' = Draws(virtualCpu) /\ Draws(both)' = Draws(both)
  BY <1>1 DEF Draws
<1>7. WaitingHead' = WaitingHead
  BY <1>1 DEF WaitingHead
<1>8. AnyCpuAllowed' = AnyCpuAllowed
  BY <1>1 DEF AnyCpuAllowed, getNumberOfBlockedAnyCpuWorkers
<1> QED
  BY <1>1, <1>5, <1>6, <1>7, <1>8 DEF NoMatch, NoVcpuOnlyMatch, NoWaitingMatch

LEMMA RunJobsStep ==
    ASSUME DaemonInv, SchedInv', RunJobs
    PROVE  DaemonInv'
<1>1. /\ handler = "schedule" /\ NoMatch /\ scheduling' = FALSE /\ jobs' = {}
      /\ wdTasks' = [w \in Workers |-> wdTasks[w] \cup Given(w)]
      /\ cpuExec' = [w \in Workers |-> cpuExec[w] \/ \E t \in Given(w) : RealCpu[t]]
      /\ deferreds' = deferreds \cup UNION {Given(w) : w \in Workers}
      /\ handler' = IF GroupFired(forGroup) THEN "collect" ELSE "idle"
      /\ forGroup' = IF GroupFired(forGroup) THEN forGroup ELSE None
      /\ UNCHANGED <<workerVars, workerQueues, taskQueues, waitVars, taskVars, contestPriority,
                     managerVars, closing, taskManagerVars, todo, forWorker>>
  BY DEF RunJobs, ScheduleReturn
<1>2. errors' = {}
  BY <1>1, GivenIsAllowed DEF RunJobs, Asserted, DaemonInv
<1>3. \A w \in Workers : Given(w) \subseteq Tasks
  BY DEF Given
<1>4. DaemonTypeOK'
  BY <1>1, <1>3 DEF DaemonInv, DaemonTypeOK, taskManagerVars, Handlers
<1>5. ControlInv'
  BY <1>1 DEF DaemonInv, ControlInv, GroupFired, Leaving
<1>6. WorkersAgree'
  BY <1>1 DEF DaemonInv, WorkersAgree, Leaving, MinAnyCpuRam, managerVars, workerVars
<1>7. LoadsAgree'
  <2>1. \A w \in Workers : Attached(w)' = Attached(w) /\ Given(w)' = {}
    BY <1>1 DEF Attached, Given, taskVars
  <2>2. LoadsAgree /\ wdTasks \in [Workers -> SUBSET Tasks]
    BY DEF DaemonInv, DaemonTypeOK
  <2>3. \A w \in Workers : /\ wdTasks'[w] = wdTasks[w] \cup Given(w)
                           /\ cpuExec'[w] <=> \E t \in wdTasks'[w] : RealCpu[t]
    BY <1>1, <2>2 DEF LoadsAgree
  <2>4. deferreds' = UNION {wdTasks'[w] : w \in Workers}
    <3>1. deferreds = UNION {wdTasks[w] : w \in Workers}
      BY <2>2 DEF LoadsAgree
    <3> QED
      BY <1>1, <2>3, <3>1
  <2>5. handler' \notin {"lost", "retry", "lostWorker"}
    BY <1>1
  <2> QED
    BY <2>1, <2>2, <2>3, <2>4, <2>5 DEF LoadsAgree
<1>8. TasksAgree'
  BY <1>1 DEF DaemonInv, TasksAgree, taskVars, taskManagerVars
<1>9. GroupsInv'
  BY <1>1 DEF DaemonInv, GroupsInv, Pending, GroupFired, taskManagerVars
<1>10. NoMatch'
  BY <1>1, NoMatchUntouched
<1> QED
  BY <1>2, <1>4, <1>5, <1>6, <1>7, <1>8, <1>9, <1>10 DEF DaemonInv, NoMissedWakeup

\* _free and delTask take a task from the two managers together.
LEMMA FreeLoads ==
    ASSUME DaemonInv, NEW w \in Workers, NEW t \in wdTasks[w], Free(t, w), DelTask(t)
    PROVE  /\ wdTasks' = [wdTasks EXCEPT ![w] = @ \ {t}]
           /\ cpuExec' \in [Workers -> BOOLEAN] /\ deferreds' \subseteq Tasks
           /\ t \in tasks /\ t \in Tasks /\ tasks' = tasks \ {t}
           /\ ~scheduling /\ w \in workers
           /\ UNCHANGED <<workers, jobs, scheduling, contestPriority>>
           /\ \A v \in Workers :
                 /\ Attached(v)' = wdTasks'[v] \cup Given(v)'
                 /\ wdTasks'[v] \cap Given(v)' = {}
                 /\ cpuExec'[v] <=> \E u \in wdTasks'[v] : RealCpu[u]
           /\ deferreds' = UNION {wdTasks'[v] : v \in Workers}
           /\ errors' = {}
<1>1. /\ SchedInv /\ LoadsAgree /\ DaemonTypeOK
      /\ t \in tasks /\ w \in workers /\ t \in deferreds
      /\ \A v \in Workers : t \in wdTasks[v] => v = w
      /\ cpuExec[w] => wdTasks[w] = {t}
  BY LoadFacts DEF DaemonInv
<1>2. /\ ~scheduling /\ tasks' = tasks \ {t} /\ assigned' = [assigned EXCEPT ![t] = None]
      /\ UNCHANGED <<workers, jobs, scheduling, contestPriority>>
  BY DEF DelTask, DetachTask, UpdateWorker, workerVars, loopVars
<1>3. /\ wdTasks' = [wdTasks EXCEPT ![w] = @ \ {t}]
      /\ deferreds' = deferreds \ {t}
      /\ cpuExec' = [cpuExec EXCEPT ![w] = FALSE]
  BY DEF Free
<1>4. errors' = {}
  BY <1>1 DEF Free, Asserted, DaemonInv
<1>5. \A v \in Workers : Attached(v)' = Attached(v) \ {t} /\ Given(v)' = {} /\ Given(v) = {}
  <2>1. \A v \in Workers : Given(v) = {} /\ Given(v)' = Given(v)
    BY <1>1, <1>2, NothingGiven DEF Given
  <2>2. assigned \in [Tasks -> Workers \cup {None}]
    BY <1>1 DEF SchedInv, SchedTypeOK
  <2> QED
    BY <1>2, <2>1, <2>2, NoneAssumption DEF Attached
<1>6. ASSUME NEW v \in Workers
      PROVE  /\ Attached(v)' = wdTasks'[v] \cup Given(v)'
             /\ wdTasks'[v] \cap Given(v)' = {}
             /\ wdTasks'[v] = wdTasks[v] \ {t}
             /\ cpuExec'[v] <=> \E u \in wdTasks'[v] : RealCpu[u]
  <2>1. wdTasks'[v] = wdTasks[v] \ {t}
    BY <1>1, <1>3 DEF DaemonTypeOK
  <2>2. cpuExec'[v] <=> \E u \in wdTasks'[v] : RealCpu[u]
    BY <1>1, <1>3, <2>1 DEF DaemonTypeOK, LoadsAgree
  <2> QED
    BY <1>1, <1>5, <2>1, <2>2 DEF LoadsAgree
<1>7. deferreds' = UNION {wdTasks'[v] : v \in Workers}
  <2>1. deferreds = UNION {wdTasks[v] : v \in Workers}
    BY <1>1 DEF LoadsAgree
  <2> QED
    BY <1>3, <1>6, <2>1
<1> QED
  BY <1>1, <1>2, <1>3, <1>4, <1>6, <1>7 DEF DaemonTypeOK, SchedInv, SchedTypeOK

LEMMA TaskDoneStep ==
    ASSUME DaemonInv, SchedInv', NEW w \in Workers, NEW t \in wdTasks[w], NEW o \in Outcomes,
           TaskDone(t, w, o), closing' \in SUBSET Workers
    PROVE  DaemonInv'
<1>1. /\ handler = "idle" /\ todo = {} /\ forGroup = None
      /\ inProgress' = inProgress \ {t} /\ outcome' = [outcome EXCEPT ![t] = o]
      /\ handler' = "call" /\ forGroup' = GroupOf(t)
      /\ UNCHANGED <<registered, minAnyCpuWorkerRam, groups, todo, forWorker>>
  BY DEF TaskDone, DaemonInv, ControlInv, managerVars
<1>2. /\ wdTasks' = [wdTasks EXCEPT ![w] = @ \ {t}]
      /\ cpuExec' \in [Workers -> BOOLEAN] /\ deferreds' \subseteq Tasks
      /\ t \in tasks /\ t \in Tasks /\ tasks' = tasks \ {t}
      /\ ~scheduling
      /\ UNCHANGED <<workers, scheduling, contestPriority>>
      /\ \A v \in Workers :
            /\ Attached(v)' = wdTasks'[v] \cup Given(v)'
            /\ wdTasks'[v] \cap Given(v)' = {}
            /\ cpuExec'[v] <=> \E u \in wdTasks'[v] : RealCpu[u]
      /\ deferreds' = UNION {wdTasks'[v] : v \in Workers}
      /\ errors' = {}
  BY FreeLoads DEF TaskDone
<1>3. inProgress = tasks /\ DaemonTypeOK /\ GroupsInv
  BY <1>1 DEF DaemonInv, TasksAgree
<1>4. GroupOf(t) \in groups /\ t \in Members[GroupOf(t)]
  <2>1. PICK g \in groups : t \in Members[g]
    BY <1>1, <1>2, <1>3 DEF GroupsInv, Pending
  <2>2. g \in Groups
    BY <1>3 DEF DaemonTypeOK
  <2>3. GroupOf(t) = g
    BY <2>1, <2>2, GroupsFacts DEF GroupOf
  <2> QED
    BY <2>1, <2>3
<1>5. DaemonTypeOK'
  <2>1. outcome' \in [Tasks -> Outcomes \cup {None}] /\ wdTasks' \in [Workers -> SUBSET Tasks]
    BY <1>1, <1>2, <1>3 DEF DaemonTypeOK
  <2> QED
    BY <1>1, <1>2, <1>3, <1>4, <2>1 DEF DaemonTypeOK, Handlers
<1>6. ControlInv'
  BY <1>1, <1>2 DEF DaemonInv, ControlInv, Leaving
<1>7. WorkersAgree'
  BY <1>1, <1>2 DEF DaemonInv, WorkersAgree, Leaving, MinAnyCpuRam
<1>8. LoadsAgree'
  BY <1>1, <1>2 DEF LoadsAgree
<1>9. TasksAgree'
  BY <1>1, <1>2, <1>3 DEF DaemonInv, TasksAgree
<1>10. GroupsInv'
  <2>1. o # None
    BY GroupsAssumption DEF Outcomes
  <2>2. \A u \in Tasks : outcome'[u] = IF u = t THEN o ELSE outcome[u]
    BY <1>1, <1>2, <1>3 DEF DaemonTypeOK
  <2>3. \A u \in inProgress' : outcome'[u] = None /\ \E g \in Pending' : u \in Members[g]
    BY <1>1, <1>3, <2>2 DEF GroupsInv, Pending, DaemonTypeOK
  <2>4. \A u \in Tasks : outcome'[u] # None => \E g \in groups' : u \in Members[g]
    BY <1>1, <1>3, <1>4, <2>2 DEF GroupsInv
  <2>5. \A g \in groups' : \A u \in Members[g] : u \in inProgress' \/ outcome'[u] # None
    BY <1>1, <1>3, <2>1, <2>2, GroupsFacts DEF GroupsInv, DaemonTypeOK
  <2> QED
    BY <1>1, <1>4, <2>3, <2>4, <2>5 DEF GroupsInv
<1>11. NoMissedWakeup'
  BY <1>1 DEF NoMissedWakeup
<1> QED
  BY <1>2, <1>5, <1>6, <1>7, <1>8, <1>9, <1>10, <1>11 DEF DaemonInv

LEMMA CollectStep ==
    ASSUME DaemonInv, SchedInv', Collect
    PROVE  DaemonInv'
<1>1. /\ handler = "collect" /\ forGroup \in groups /\ forGroup \in Groups /\ ~scheduling
      /\ \A t \in Members[forGroup] : outcome[t] # None
      /\ groups' = groups \ {forGroup}
      /\ outcome' = [t \in Tasks |-> IF t \in Members[forGroup] THEN None ELSE outcome[t]]
      /\ handler' = "call" /\ forGroup' = None
      /\ UNCHANGED <<workers, assigned, jobs, tasks, scheduling, contestPriority, registered,
                     minAnyCpuWorkerRam>>
      /\ UNCHANGED <<workerManagerVars, inProgress, todo, forWorker>>
  BY GroupsAssumption DEF Collect, DaemonInv, ControlInv, GroupsInv, GroupFired, schedVars, workerVars,
     taskVars, loopVars, managerVars
<1>2. DaemonTypeOK' /\ ControlInv'
  BY <1>1 DEF DaemonInv, DaemonTypeOK, ControlInv, workerManagerVars, Handlers, Leaving
<1>3. WorkersAgree'
  BY <1>1 DEF DaemonInv, WorkersAgree, Leaving, MinAnyCpuRam
<1>4. LoadsAgree'
  BY <1>1, LoadsUntouched DEF DaemonInv, workerManagerVars
<1>5. TasksAgree'
  BY <1>1 DEF DaemonInv, TasksAgree
<1>6. GroupsInv'
  <2>1. GroupsInv /\ groups \subseteq Groups /\ inProgress \subseteq Tasks
    BY DEF DaemonInv, DaemonTypeOK
  <2>2. \A g \in groups' : Members[g] \cap Members[forGroup] = {} /\ Members[g] \subseteq Tasks
    BY <1>1, <2>1, GroupsFacts
  <2>3. \A t \in inProgress' : outcome'[t] = None /\ \E g \in Pending' : t \in Members[g]
    BY <1>1, <2>1 DEF GroupsInv, Pending
  <2>4. \A t \in Tasks : outcome'[t] # None => \E g \in groups' : t \in Members[g]
    BY <1>1, <2>1 DEF GroupsInv
  <2>5. \A g \in groups' : \A t \in Members[g] : t \in inProgress' \/ outcome'[t] # None
    BY <1>1, <2>1, <2>2 DEF GroupsInv
  <2> QED
    BY <1>1, <2>3, <2>4, <2>5 DEF GroupsInv
<1>7. NoMissedWakeup' /\ errors' = {}
  BY <1>1 DEF DaemonInv, NoMissedWakeup, workerManagerVars
<1> QED
  BY <1>2, <1>3, <1>4, <1>5, <1>6, <1>7 DEF DaemonInv

-----------------------------------------------------------------------------
\* A worker that is not registered has no tasks, so newWorker's fresh entry changes
\* no load.
LEMMA NewWorkerStep ==
    ASSUME DaemonInv, SchedInv', NEW w \in Workers, NewWorker(w)
    PROVE  DaemonInv'
<1>1. /\ handler = "idle" /\ w \notin registered /\ registered' = registered \cup {w}
      /\ minAnyCpuWorkerRam' = MinAnyCpuRam(registered')
      /\ wdTasks' = [wdTasks EXCEPT ![w] = {}] /\ cpuExec' = [cpuExec EXCEPT ![w] = FALSE]
      /\ handler' = "newWorker" /\ forWorker' = w
      /\ UNCHANGED <<workers, assigned, jobs, tasks, scheduling, contestPriority, deferreds, closing,
                     errors, inProgress, groups, outcome, todo, forGroup>>
  BY DEF NewWorker, workerVars, taskVars, loopVars, taskManagerVars
<1>2. registered = workers
  BY <1>1 DEF DaemonInv, WorkersAgree, Leaving
<1>3. wdTasks[w] = {} /\ ~cpuExec[w]
  BY <1>1, <1>2, LoadFacts DEF DaemonInv, LoadsAgree
<1>4. UNCHANGED <<wdTasks, cpuExec>>
  BY <1>1, <1>3 DEF DaemonInv, DaemonTypeOK
<1>5. DaemonTypeOK' /\ ControlInv'
  BY <1>1, <1>4 DEF DaemonInv, DaemonTypeOK, ControlInv, Handlers, Leaving
<1>6. WorkersAgree'
  BY <1>1, <1>2 DEF WorkersAgree, Leaving, MinAnyCpuRam
<1>7. LoadsAgree'
  BY <1>1, <1>4, LoadsUntouched DEF DaemonInv
<1>8. TasksAgree' /\ GroupsInv'
  BY <1>1 DEF DaemonInv, TasksAgree, GroupsInv, Pending
<1>9. NoMissedWakeup' /\ errors' = {}
  BY <1>1 DEF DaemonInv, NoMissedWakeup
<1> QED
  BY <1>5, <1>6, <1>7, <1>8, <1>9 DEF DaemonInv

LEMMA NewWorkerCallbackStep ==
    ASSUME DaemonInv, SchedInv', NewWorkerCallback
    PROVE  DaemonInv'
<1>1. /\ handler = "newWorker" /\ workers' = workers \cup {forWorker}
      /\ handler' = "call" /\ forWorker' = None
      /\ UNCHANGED <<assigned, jobs, tasks, scheduling, contestPriority, registered,
                     minAnyCpuWorkerRam>>
      /\ UNCHANGED <<workerManagerVars, taskManagerVars, todo, forGroup>>
  BY DEF NewWorkerCallback, AddWorker, taskVars, loopVars, managerVars
<1>2. DaemonTypeOK' /\ ControlInv'
  BY <1>1 DEF DaemonInv, DaemonTypeOK, ControlInv, workerManagerVars, taskManagerVars, Handlers,
              Leaving
<1>3. WorkersAgree'
  BY <1>1 DEF DaemonInv, WorkersAgree, Leaving, MinAnyCpuRam
<1>4. LoadsAgree'
  BY <1>1, LoadsUntouched DEF DaemonInv, workerManagerVars
<1>5. forGroup = None
  BY <1>1 DEF DaemonInv, ControlInv
<1>6. TasksAgree' /\ GroupsInv'
  BY <1>1, <1>5 DEF DaemonInv, TasksAgree, GroupsInv, Pending, taskManagerVars
<1>7. NoMissedWakeup' /\ errors' = {}
  BY <1>1 DEF DaemonInv, NoMissedWakeup, workerManagerVars
<1> QED
  BY <1>2, <1>3, <1>4, <1>6, <1>7 DEF DaemonInv

LEMMA WorkerLostStep ==
    ASSUME DaemonInv, SchedInv', NEW w \in Workers, WorkerLost(w)
    PROVE  DaemonInv'
<1>1. /\ handler = "idle" /\ w \in registered /\ registered' = registered \ {w}
      /\ closing' = closing \ {w} /\ handler' = "lost" /\ todo' = wdTasks[w] /\ forWorker' = w
      /\ UNCHANGED <<workers, assigned, jobs, tasks, scheduling, contestPriority, minAnyCpuWorkerRam,
                     wdTasks, cpuExec, deferreds, errors, inProgress, groups, outcome, forGroup>>
  BY DEF WorkerLost, workerVars, taskVars, loopVars, taskManagerVars
<1>2. DaemonTypeOK' /\ ControlInv'
  BY <1>1 DEF DaemonInv, DaemonTypeOK, ControlInv, Handlers, Leaving
<1>3. WorkersAgree'
  BY <1>1 DEF DaemonInv, WorkersAgree, Leaving
<1>4. LoadsAgree'
  <2>1. \A v \in Workers : Attached(v)' = Attached(v) /\ Given(v)' = Given(v)
    BY <1>1 DEF Attached, Given
  <2> QED
    BY <1>1, <2>1 DEF DaemonInv, LoadsAgree
<1>5. TasksAgree' /\ GroupsInv'
  BY <1>1 DEF DaemonInv, TasksAgree, GroupsInv, Pending
<1>6. NoMissedWakeup' /\ errors' = {}
  BY <1>1 DEF DaemonInv, NoMissedWakeup
<1> QED
  BY <1>2, <1>3, <1>4, <1>5, <1>6 DEF DaemonInv

LEMMA LostTaskStep ==
    ASSUME DaemonInv, SchedInv', NEW t \in Tasks, LostTask(t)
    PROVE  DaemonInv'
<1> DEFINE w == forWorker
<1>1. /\ handler = "lost" /\ w \in Workers /\ t \in wdTasks[w] /\ todo = wdTasks[w]
      /\ Free(t, w) /\ DelTask(t)
      /\ handler' = "retry" /\ todo' = todo \ {t}
      /\ UNCHANGED <<registered, minAnyCpuWorkerRam, closing, inProgress, groups, outcome, forWorker,
                     forGroup>>
  BY DEF LostTask, DaemonInv, ControlInv, LoadsAgree, Leaving, managerVars, taskManagerVars
<1>2. /\ wdTasks' = [wdTasks EXCEPT ![w] = @ \ {t}]
      /\ cpuExec' \in [Workers -> BOOLEAN] /\ deferreds' \subseteq Tasks
      /\ t \in tasks /\ tasks' = tasks \ {t}
      /\ ~scheduling
      /\ UNCHANGED <<workers, scheduling, contestPriority>>
      /\ \A v \in Workers :
            /\ Attached(v)' = wdTasks'[v] \cup Given(v)'
            /\ wdTasks'[v] \cap Given(v)' = {}
            /\ cpuExec'[v] <=> \E u \in wdTasks'[v] : RealCpu[u]
      /\ deferreds' = UNION {wdTasks'[v] : v \in Workers}
      /\ errors' = {}
  BY <1>1, FreeLoads
<1>3. DaemonTypeOK'
  <2>1. wdTasks' \in [Workers -> SUBSET Tasks]
    BY <1>1, <1>2 DEF DaemonInv, DaemonTypeOK
  <2> QED
    BY <1>1, <1>2, <2>1 DEF DaemonInv, DaemonTypeOK, Handlers, Leaving
<1>4. ControlInv'
  BY <1>1, <1>2 DEF DaemonInv, ControlInv, Leaving
<1>5. WorkersAgree'
  BY <1>1, <1>2 DEF DaemonInv, WorkersAgree, Leaving
<1>6. LoadsAgree'
  <2>1. todo' = wdTasks'[w] /\ forWorker' = w
    BY <1>1, <1>2 DEF DaemonInv, DaemonTypeOK
  <2> QED
    BY <1>1, <1>2, <2>1 DEF LoadsAgree
<1>7. TasksAgree'
  <2>1. inProgress = tasks /\ tasks' \cup {t} = tasks /\ t \in Tasks \ tasks'
    BY <1>1, <1>2 DEF DaemonInv, TasksAgree
  <2> QED
    BY <1>1, <1>2, <2>1 DEF DaemonInv, TasksAgree
<1>8. GroupsInv'
  BY <1>1 DEF DaemonInv, GroupsInv, Pending
<1>9. NoMissedWakeup'
  BY <1>1 DEF NoMissedWakeup
<1> QED
  BY <1>2, <1>3, <1>4, <1>5, <1>6, <1>7, <1>8, <1>9 DEF DaemonInv

LEMMA RetryTaskStep ==
    ASSUME DaemonInv, SchedInv', NEW t \in Tasks, RetryTask(t)
    PROVE  DaemonInv'
<1>1. /\ handler = "retry" /\ t \in inProgress \ tasks /\ handler' = "lost"
      /\ UNCHANGED <<registered, minAnyCpuWorkerRam>>
      /\ UNCHANGED <<workerManagerVars, taskManagerVars, todo, forGroup, forWorker>>
  BY DEF RetryTask, Retried, managerVars
<1>2. /\ tasks' = tasks \cup {t}
      /\ UNCHANGED <<workers, assigned, jobs, scheduling, contestPriority>>
  BY <1>1, AddTaskLoads DEF RetryTask, DaemonInv
<1>3. DaemonTypeOK' /\ ControlInv'
  BY <1>1, <1>2 DEF DaemonInv, DaemonTypeOK, ControlInv, workerManagerVars, taskManagerVars,
                    Handlers, Leaving
<1>4. WorkersAgree'
  BY <1>1, <1>2 DEF DaemonInv, WorkersAgree, Leaving
<1>5. LoadsAgree'
  <2>1. \A w \in Workers : Attached(w)' = Attached(w) /\ Given(w)' = Given(w)
    BY <1>2 DEF Attached, Given
  <2> QED
    BY <1>1, <2>1 DEF DaemonInv, LoadsAgree, workerManagerVars
<1>6. TasksAgree'
  BY <1>1, <1>2 DEF DaemonInv, TasksAgree, taskManagerVars
<1>7. GroupsInv'
  BY <1>1 DEF DaemonInv, GroupsInv, Pending, taskManagerVars
<1>8. NoMissedWakeup' /\ errors' = {}
  BY <1>1 DEF DaemonInv, NoMissedWakeup, workerManagerVars
<1> QED
  BY <1>3, <1>4, <1>5, <1>6, <1>7, <1>8 DEF DaemonInv

LEMMA LostStatsStep ==
    ASSUME DaemonInv, SchedInv', LostStats
    PROVE  DaemonInv'
<1>1. /\ handler = "lost" /\ todo = {} /\ handler' = "lostWorker"
      /\ minAnyCpuWorkerRam' = MinAnyCpuRam(registered)
      /\ UNCHANGED <<registered, workers, assigned, jobs, tasks, scheduling, contestPriority>>
      /\ UNCHANGED <<workerManagerVars, taskManagerVars, todo, forGroup, forWorker>>
  BY DEF LostStats, workerVars, taskVars, loopVars
<1>2. DaemonTypeOK' /\ ControlInv'
  BY <1>1 DEF DaemonInv, DaemonTypeOK, ControlInv, workerManagerVars, taskManagerVars, Handlers,
              Leaving
<1>3. WorkersAgree'
  BY <1>1 DEF DaemonInv, WorkersAgree, Leaving, MinAnyCpuRam
<1>4. LoadsAgree'
  <2>1. \A w \in Workers : Attached(w)' = Attached(w) /\ Given(w)' = Given(w)
    BY <1>1 DEF Attached, Given
  <2> QED
    BY <1>1, <2>1 DEF DaemonInv, LoadsAgree, workerManagerVars
<1>5. TasksAgree' /\ GroupsInv'
  BY <1>1 DEF DaemonInv, TasksAgree, GroupsInv, Pending, taskManagerVars
<1>6. NoMissedWakeup' /\ errors' = {}
  BY <1>1 DEF DaemonInv, NoMissedWakeup, workerManagerVars
<1> QED
  BY <1>2, <1>3, <1>4, <1>5, <1>6 DEF DaemonInv

LEMMA LostWorkerCallbackStep ==
    ASSUME DaemonInv, SchedInv', LostWorkerCallback
    PROVE  DaemonInv'
<1>1. /\ handler = "lostWorker" /\ workers' = workers \ {forWorker}
      /\ handler' = "call" /\ forWorker' = None
      /\ UNCHANGED <<assigned, jobs, tasks, scheduling, contestPriority, registered,
                     minAnyCpuWorkerRam>>
      /\ UNCHANGED <<workerManagerVars, taskManagerVars, todo, forGroup>>
  BY DEF LostWorkerCallback, DelWorker, taskVars, loopVars, managerVars
<1>2. DaemonTypeOK' /\ ControlInv'
  BY <1>1 DEF DaemonInv, DaemonTypeOK, ControlInv, workerManagerVars, taskManagerVars, Handlers,
              Leaving
<1>3. WorkersAgree'
  BY <1>1 DEF DaemonInv, WorkersAgree, Leaving, MinAnyCpuRam
<1>4. LoadsAgree'
  BY <1>1, LoadsUntouched DEF DaemonInv, workerManagerVars
<1>5. forGroup = None
  BY <1>1 DEF DaemonInv, ControlInv, Leaving
<1>6. TasksAgree' /\ GroupsInv'
  BY <1>1, <1>5 DEF DaemonInv, TasksAgree, GroupsInv, Pending, taskManagerVars
<1>7. NoMissedWakeup' /\ errors' = {}
  BY <1>1 DEF DaemonInv, NoMissedWakeup, workerManagerVars
<1> QED
  BY <1>2, <1>3, <1>4, <1>6, <1>7 DEF DaemonInv

LEMMA DaemonNextInv == DaemonInv /\ [Next]_vars => DaemonInv'
<1> SUFFICES ASSUME DaemonInv, [Next]_vars PROVE DaemonInv'
  OBVIOUS
<1>1. SchedInv'
  BY StepsKeepInterface, SchedNextInv DEF DaemonInv
<1>2. CASE UNCHANGED vars
  <2>1. UNCHANGED <<registered, workers, assigned, jobs, tasks, scheduling, contestPriority,
                    minAnyCpuWorkerRam, wdTasks, cpuExec, deferreds, closing, errors, inProgress,
                    groups, outcome, handler, todo, forGroup, forWorker>>
    BY <1>2 DEF vars, schedVars, workerVars, taskVars, loopVars, managerVars, workerManagerVars,
                taskManagerVars, controlVars
  <2>2. UNCHANGED <<workerVars, workerQueues, taskQueues, waitVars, taskVars, contestPriority,
                    managerVars>>
    BY <1>2 DEF vars, schedVars
  <2>3. DaemonTypeOK' /\ ControlInv' /\ TasksAgree'
    BY <2>1 DEF DaemonInv, DaemonTypeOK, ControlInv, TasksAgree
  <2>4. WorkersAgree'
    BY <2>1 DEF DaemonInv, WorkersAgree, MinAnyCpuRam
  <2>5. LoadsAgree'
    <3>1. \A w \in Workers : Attached(w)' = Attached(w) /\ Given(w)' = Given(w)
      BY <2>1 DEF Attached, Given
    <3> QED
      BY <2>1, <3>1 DEF DaemonInv, LoadsAgree
  <2>6. GroupsInv'
    BY <2>1 DEF DaemonInv, GroupsInv, Pending, GroupFired
  <2>7. NoMissedWakeup'
    BY <2>1, <2>2, NoMatchUntouched DEF DaemonInv, NoMissedWakeup
  <2> QED
    BY <1>1, <2>1, <2>3, <2>4, <2>5, <2>6, <2>7 DEF DaemonInv
<1>3. CASE HandlerStep
  BY <1>1, <1>3, AddGroupTaskStep, AddGroupDoneStep, TryExecuteStep, TryExecuteLoopStep, RunJobsStep,
     CollectStep, NewWorkerCallbackStep, LostTaskStep, RetryTaskStep, LostStatsStep,
     LostWorkerCallbackStep DEF HandlerStep
<1>4. ASSUME NEW g \in Groups, NEW p \in ContestPriorities, RunGroup(g, p) PROVE DaemonInv'
  BY <1>1, <1>4, RunGroupStep
<1>5. ASSUME NEW t \in Tasks, NEW w \in Workers, NEW o \in Outcomes, Reply(t, w, o)
      PROVE  DaemonInv'
  <2>1. TaskDone(t, w, o) /\ t \in wdTasks[w] /\ closing' \in SUBSET Workers
    BY <1>5 DEF Reply, TaskDone, DaemonInv, DaemonTypeOK
  <2> QED
    BY <1>1, <2>1, TaskDoneStep
<1>6. ASSUME NEW t \in Tasks, NEW w \in Workers, Timeout(t, w)
      PROVE  DaemonInv'
  <2>1. TaskDone(t, w, "error") /\ t \in wdTasks[w] /\ closing' \in SUBSET Workers
    BY <1>6 DEF Timeout, TaskDone, DaemonInv, DaemonTypeOK
  <2>2. "error" \in Outcomes
    BY DEF Outcomes
  <2> QED
    BY <1>1, <2>1, <2>2, TaskDoneStep
<1>7. ASSUME NEW w \in Workers, NewWorker(w) PROVE DaemonInv'
  BY <1>1, <1>7, NewWorkerStep
<1>8. ASSUME NEW w \in Workers, WorkerLost(w) PROVE DaemonInv'
  BY <1>1, <1>8, WorkerLostStep
<1> QED
  BY <1>2, <1>3, <1>4, <1>5, <1>6, <1>7, <1>8 DEF Next

-----------------------------------------------------------------------------
(***************************************************************************)
(* Theorems.                                                               *)
(***************************************************************************)
\* Every reachable state of the daemon, in the middle of a handler too, satisfies
\* the invariant.
THEOREM DaemonConsistent == Spec => []DaemonInv
<1>1. Init => DaemonInv
  BY DaemonInitInv
<1>2. DaemonInv /\ [Next]_vars => DaemonInv'
  BY DaemonNextInv
<1> QED
  BY <1>1, <1>2, PTL DEF Spec

\* The two managers are a client that keeps to the scheduler's interface: whatever
\* the events, each handler calls the scheduler only as SchedSpec allows.  So every
\* theorem of SchedulerProofs is one about the daemon.
THEOREM ImplementsScheduler == Spec => SchedSpec
<1>1. Init => SchedInit
  BY DEF Init
<1>2. DaemonInv /\ [Next]_vars => [SchedNext]_schedVars
  BY StepsKeepInterface
<1> QED
  BY <1>1, <1>2, DaemonConsistent, PTL DEF Spec, SchedSpec

\* Neither the scheduler's assertions nor the RuntimeErrors, KeyErrors and "FATAL:
\* impossible happened" of runOnWorker and _free are ever raised.
THEOREM NothingIsRaised == Spec => []NothingRaised
<1>1. DaemonInv => NothingRaised
  BY DEF DaemonInv, SchedInv, AssertionsHold, NothingRaised, Healthy
<1> QED
  BY <1>1, DaemonConsistent, PTL

\* Between two handlers the scheduler and the worker manager agree on the workers
\* and on what each of them runs, and every running task has its Deferred.
THEOREM ManagersAlwaysAgree == Spec => []ManagersAgree
<1>1. DaemonInv => ManagersAgree
  <2> SUFFICES ASSUME DaemonInv, handler = "idle"
               PROVE  /\ registered = workers
                      /\ \A w \in Workers :
                            wdTasks[w] = Attached(w) /\ cpuExec[w] = runningRealCpu[w]
                      /\ deferreds = UNION {wdTasks[w] : w \in Workers}
                      /\ inProgress = tasks
    BY DEF ManagersAgree
  <2>1. ~scheduling /\ registered = workers /\ inProgress = tasks
    BY DEF DaemonInv, ControlInv, WorkersAgree, TasksAgree, Leaving
  <2>2. \A w \in Workers : Given(w) = {}
    BY <2>1, NothingGiven DEF DaemonInv
  <2>3. \A w \in Workers : wdTasks[w] = Attached(w)
    <3>1. \A w \in Workers : Attached(w) = wdTasks[w] \cup Given(w)
      BY DEF DaemonInv, LoadsAgree
    <3> QED
      BY <2>2, <3>1
  <2>4. \A w \in Workers : cpuExec[w] = runningRealCpu[w]
    <3>1. \A w \in Workers : cpuExec[w] <=> runningRealCpu[w]
      BY <2>3 DEF DaemonInv, SchedInv, LoadsAgree, RealCpuExclusive
    <3>2. cpuExec \in [Workers -> BOOLEAN] /\ runningRealCpu \in [Workers -> BOOLEAN]
      BY DEF DaemonInv, DaemonTypeOK, SchedInv, SchedTypeOK
    <3> QED
      BY <3>1, <3>2
  <2> QED
    BY <2>1, <2>3, <2>4 DEF DaemonInv, LoadsAgree
<1> QED
  BY <1>1, DaemonConsistent, PTL

\* schedule() never reads a minimum of the workers' RAM, or a set of workers, that a
\* worker's arrival or loss has made stale.
THEOREM StatisticsAlwaysFresh == Spec => []StatisticsFresh
<1>1. DaemonInv => StatisticsFresh
  BY DEF DaemonInv, ControlInv, WorkersAgree, StatisticsFresh, Leaving
<1> QED
  BY <1>1, DaemonConsistent, PTL

\* No handler ends without the _tryExecute its changes call for.
THEOREM WakeupsNeverMissed == Spec => []NoMissedWakeup
<1>1. DaemonInv => NoMissedWakeup
  BY DEF DaemonInv
<1> QED
  BY <1>1, DaemonConsistent, PTL

-----------------------------------------------------------------------------
(***************************************************************************)
(* The daemon implements TaskService.                                      *)
(***************************************************************************)
\* At, for any table of the workers' tasks.
Holder(load, t) ==
    IF \E w \in Workers : t \in load[w] THEN CHOOSE w \in Workers : t \in load[w] ELSE None

LEMMA HolderIs ==
    ASSUME NEW load, NEW t, NEW w \in Workers, t \in load[w],
           \A v \in Workers : t \in load[v] => v = w
    PROVE  Holder(load, t) = w
BY DEF Holder

LEMMA HolderIsNone ==
    ASSUME NEW load, NEW t, \A w \in Workers : t \notin load[w]
    PROVE  Holder(load, t) = None
BY DEF Holder

LEMMA AtIsHolder == \A t : At(t) = Holder(wdTasks, t) /\ At(t)' = Holder(wdTasks', t)
BY DEF At, Holder

\* A task is at the worker that has it.
LEMMA AtFacts ==
    ASSUME DaemonInv, NEW t \in Tasks
    PROVE  /\ At(t) \in Workers \cup {None}
           /\ \A w \in Workers : At(t) = w <=> t \in wdTasks[w]
<1>1. CASE \E w \in Workers : t \in wdTasks[w]
  <2>1. PICK w \in Workers : t \in wdTasks[w]
    BY <1>1
  <2>2. \A v \in Workers : t \in wdTasks[v] => v = w
    BY <2>1, LoadFacts DEF DaemonInv
  <2>3. At(t) = w
    BY <2>1, <2>2, HolderIs, AtIsHolder
  <2> QED
    BY <2>1, <2>2, <2>3
<1>2. CASE \A w \in Workers : t \notin wdTasks[w]
  BY <1>2, HolderIsNone, AtIsHolder, NoneAssumption
<1> QED
  BY <1>1, <1>2

LEMMA AtUntouched ==
    ASSUME UNCHANGED wdTasks
    PROVE  [t \in Tasks |-> At(t)]' = [t \in Tasks |-> At(t)]
BY AtIsHolder

\* _free takes one task from where it is.
LEMMA AtFreed ==
    ASSUME DaemonInv, NEW w \in Workers, NEW t \in wdTasks[w],
           wdTasks' = [wdTasks EXCEPT ![w] = @ \ {t}]
    PROVE  /\ t \in Tasks /\ [u \in Tasks |-> At(u)][t] # None
           /\ [u \in Tasks |-> At(u)]' = [[u \in Tasks |-> At(u)] EXCEPT ![t] = None]
<1>1. wdTasks \in [Workers -> SUBSET Tasks] /\ t \in Tasks
  BY DEF DaemonInv, DaemonTypeOK
<1>2. \A v \in Workers : t \in wdTasks[v] => v = w
  BY LoadFacts DEF DaemonInv
<1>3. At(t) = w
  BY <1>1, AtFacts
<1>4. \A v \in Workers : wdTasks'[v] = wdTasks[v] \ {t}
  BY <1>1, <1>2
<1>5. At(t)' = None
  BY <1>4, HolderIsNone, AtIsHolder
<1>6. ASSUME NEW u \in Tasks, u # t PROVE At(u)' = At(u)
  <2>1. \A v \in Workers : u \in wdTasks'[v] <=> u \in wdTasks[v]
    BY <1>4, <1>6
  <2>2. Holder(wdTasks', u) = Holder(wdTasks, u)
    BY <2>1 DEF Holder
  <2> QED
    BY <2>2, AtIsHolder
<1> QED
  BY <1>1, <1>3, <1>5, <1>6, NoneAssumption

\* The instance has its own copy of the standard operator.
LEMMA SameCardinality == \A S : Service!Cardinality(S) = Cardinality(S)
BY DEF Service!Cardinality, Cardinality

\* The tasks the scheduler attached to a worker fit it.
LEMMA AttachedFits ==
    ASSUME DaemonInv, NEW w \in Workers
    PROVE  Service!Fits(w, Attached(w))
<1>1. /\ Cardinality(Attached(w)) = running[w] /\ IsFiniteSet(Attached(w))
      /\ running[w] <= Concurrency[w]
  BY AttachedIsFinite DEF DaemonInv, SchedInv, CountersMatchTasks, WithinCapacity
<1>2. ASSUME NEW t \in Attached(w), RealCpu[t]
      PROVE  CpuEnabled[w] /\ Attached(w) = {t}
  <2>1. running[w] = 1 /\ CpuEnabled[w]
    BY <1>2 DEF DaemonInv, SchedInv, RealCpuExclusive
  <2>2. \E x : Attached(w) = {x}
    BY <1>1, <2>1, FS_Singleton
  <2> QED
    BY <2>1, <2>2
<1> QED
  BY <1>1, <1>2, SameCardinality DEF Service!Fits

\* A group is accepted: it was not pending, since the thread is idle.
LEMMA RunGroupSubmits ==
    ASSUME DaemonInv, NEW g \in Groups, NEW p \in ContestPriorities, RunGroup(g, p)
    PROVE  Service!Submit(g)
<1>1. /\ handler = "idle" /\ handler' = "adding" /\ g \notin groups /\ forGroup' = g
      /\ UNCHANGED <<groups, outcome, wdTasks>>
  BY DEF RunGroup, workerManagerVars, taskManagerVars
<1> QED
  BY <1>1, AtUntouched DEF Service!Submit

\* The jobs schedule() returned go to their workers: to each what the scheduler has
\* already attached to it.
LEMMA RunJobsAssigns ==
    ASSUME DaemonInv, RunJobs
    PROVE  Service!Assign
<1>1. /\ handler = "schedule" /\ handler' # "adding"
      /\ wdTasks' = [w \in Workers |-> wdTasks[w] \cup Given(w)]
      /\ UNCHANGED <<groups, outcome>>
  BY DEF RunJobs, taskManagerVars
<1>2. \A w \in Workers : wdTasks'[w] = Attached(w) /\ wdTasks[w] \subseteq Attached(w)
  BY <1>1 DEF DaemonInv, LoadsAgree
<1>3. ASSUME NEW t \in Tasks, NEW w \in Workers, assigned[t] = w PROVE At(t)' = w
  BY <1>2, <1>3, HolderIs, AtIsHolder DEF Attached
<1>4. assigned \in [Tasks -> Workers \cup {None}]
  BY DEF DaemonInv, SchedInv, SchedTypeOK
<1>5. ASSUME NEW t \in Tasks, assigned[t] = None PROVE At(t)' = None
  <2>1. \A w \in Workers : t \notin wdTasks'[w]
    BY <1>2, <1>5, NoneAssumption DEF Attached
  <2> QED
    BY <2>1, HolderIsNone, AtIsHolder
<1>6. \A t \in Tasks : At(t)' = assigned[t]
  BY <1>3, <1>4, <1>5
<1>7. \A w \in Workers : {t \in Tasks : At(t)' = w} = Attached(w)
  BY <1>6 DEF Attached
<1>8. ASSUME NEW t \in Tasks, At(t)' # At(t)
      PROVE  /\ At(t) = None /\ outcome[t] = None
             /\ \E g \in groups : t \in Members[g]
  <2>1. At(t) = None
    <3> SUFFICES ASSUME At(t) # None PROVE FALSE
      OBVIOUS
    <3>1. At(t) \in Workers /\ t \in wdTasks[At(t)]
      BY AtFacts
    <3>2. assigned[t] = At(t)
      BY <1>2, <3>1 DEF Attached
    <3> QED
      BY <1>6, <1>8, <3>2
  <2>2. assigned[t] # None
    BY <1>6, <1>8, <2>1
  <2>3. t \in inProgress
    BY <1>1, <2>2 DEF DaemonInv, SchedInv, TaskPlacement, TasksAgree
  <2> QED
    BY <1>1, <2>1, <2>3 DEF DaemonInv, GroupsInv, Pending
<1>9. \A w \in Workers : Service!Fits(w, {t \in Tasks : At(t)' = w})
  BY <1>7, AttachedFits
<1>10. /\ [t \in Tasks |-> At(t)]' \in [Tasks -> Workers \cup {None}]
       /\ \A t \in Tasks : [u \in Tasks |-> At(u)]'[t] = At(t)' /\ [u \in Tasks |-> At(u)][t] = At(t)
  BY <1>4, <1>6
<1>11. \A w \in Workers : {t \in Tasks : [u \in Tasks |-> At(u)]'[t] = w} = {t \in Tasks : At(t)' = w}
  BY <1>10
<1>12. \A w \in Workers : Service!Fits(w, {t \in Tasks : [u \in Tasks |-> At(u)]'[t] = w})
  BY <1>9, <1>11
<1> QED
  BY <1>1, <1>8, <1>10, <1>12 DEF Service!Assign

\* A reply or a timeout ends the task where it is.
LEMMA TaskDoneFinishes ==
    ASSUME DaemonInv, NEW t \in Tasks, NEW w \in Workers, NEW o \in Outcomes, TaskDone(t, w, o)
    PROVE  Service!Finish(t, o)
<1>1. /\ t \in wdTasks[w] /\ wdTasks' = [wdTasks EXCEPT ![w] = @ \ {t}]
      /\ outcome' = [outcome EXCEPT ![t] = o]
      /\ handler = "idle" /\ handler' = "call" /\ groups' = groups
  BY DEF TaskDone, Free
<1>2. /\ [u \in Tasks |-> At(u)][t] # None
      /\ [u \in Tasks |-> At(u)]' = [[u \in Tasks |-> At(u)] EXCEPT ![t] = None]
  BY <1>1, AtFreed
<1> QED
  BY <1>1, <1>2 DEF Service!Finish

\* A worker's disconnection loses its tasks one by one.
LEMMA LostTaskLoses ==
    ASSUME DaemonInv, NEW t \in Tasks, LostTask(t)
    PROVE  Service!Lose(t)
<1>1. /\ forWorker \in Workers /\ t \in wdTasks[forWorker]
      /\ wdTasks' = [wdTasks EXCEPT ![forWorker] = @ \ {t}]
      /\ handler = "lost" /\ handler' = "retry" /\ UNCHANGED <<groups, outcome>>
  BY DEF LostTask, Free, DaemonInv, ControlInv, LoadsAgree, Leaving, taskManagerVars
<1>2. /\ [u \in Tasks |-> At(u)][t] # None
      /\ [u \in Tasks |-> At(u)]' = [[u \in Tasks |-> At(u)] EXCEPT ![t] = None]
  BY <1>1, AtFreed
<1> QED
  BY <1>1, <1>2 DEF Service!Lose

\* The group whose last task ended is answered.
LEMMA CollectAnswers ==
    ASSUME DaemonInv, Collect
    PROVE  forGroup \in Groups /\ Service!Answer(forGroup)
<1>1. /\ handler = "collect" /\ forGroup \in Groups /\ forGroup \in groups
      /\ \A t \in Members[forGroup] : outcome[t] # None
      /\ groups' = groups \ {forGroup} /\ handler' = "call"
      /\ outcome' = [t \in Tasks |-> IF t \in Members[forGroup] THEN None ELSE outcome[t]]
      /\ UNCHANGED wdTasks
  BY GroupsAssumption DEF Collect, DaemonInv, ControlInv, GroupsInv, GroupFired, workerManagerVars
<1> QED
  BY <1>1, AtUntouched DEF Service!Answer

\* A step that keeps the pending groups, the outcomes and the workers' tasks does
\* nothing a client or a worker could see.
LEMMA Unseen ==
    ASSUME Pending' = Pending, UNCHANGED <<outcome, wdTasks>>
    PROVE  UNCHANGED Service!serviceVars
BY AtUntouched DEF Service!serviceVars, Pending

\* The other steps of the handlers go unseen.
LEMMA OtherStepsUnseen ==
    ASSUME DaemonInv,
           \/ \E t \in Tasks : AddGroupTask(t) \/ RetryTask(t)
           \/ AddGroupDone \/ TryExecute \/ TryExecuteLoop
           \/ NewWorkerCallback \/ LostStats \/ LostWorkerCallback
           \/ \E w \in Workers : NewWorker(w) \/ WorkerLost(w)
    PROVE  UNCHANGED Service!serviceVars
<1>1. ASSUME NEW t \in Tasks, AddGroupTask(t) \/ RetryTask(t) PROVE UNCHANGED Service!serviceVars
  BY <1>1, Unseen DEF AddGroupTask, RetryTask, Pending, workerManagerVars, taskManagerVars
<1>2. CASE AddGroupDone
  <2>1. /\ handler = "adding" /\ handler' = "schedule" /\ groups' = groups \cup {forGroup}
        /\ UNCHANGED <<outcome, wdTasks>>
    BY <1>2 DEF AddGroupDone, workerManagerVars
  <2> QED
    BY <2>1, Unseen DEF Pending
<1>3. CASE TryExecute \/ TryExecuteLoop
  BY <1>3, Unseen DEF TryExecute, TryExecuteLoop, Pending, workerManagerVars, taskManagerVars,
                      controlVars
<1>4. CASE NewWorkerCallback \/ LostStats \/ LostWorkerCallback
  BY <1>4, Unseen DEF NewWorkerCallback, LostStats, LostWorkerCallback, Pending, workerManagerVars,
                      taskManagerVars
<1>5. ASSUME NEW w \in Workers, NewWorker(w) PROVE UNCHANGED Service!serviceVars
  <2>1. /\ handler = "idle" /\ handler' = "newWorker" /\ w \notin registered
        /\ wdTasks' = [wdTasks EXCEPT ![w] = {}] /\ UNCHANGED <<groups, outcome>>
    BY <1>5 DEF NewWorker, taskManagerVars
  <2>2. w \notin workers
    BY <2>1 DEF DaemonInv, WorkersAgree, Leaving
  <2>3. wdTasks[w] = {}
    BY <2>2, LoadFacts DEF DaemonInv
  <2>4. UNCHANGED wdTasks
    BY <2>1, <2>3 DEF DaemonInv, DaemonTypeOK
  <2> QED
    BY <2>1, <2>4, Unseen DEF Pending
<1>6. ASSUME NEW w \in Workers, WorkerLost(w) PROVE UNCHANGED Service!serviceVars
  BY <1>6, Unseen DEF WorkerLost, Pending, taskManagerVars
<1> QED
  BY <1>1, <1>2, <1>3, <1>4, <1>5, <1>6

LEMMA StepsImplementService ==
    DaemonInv /\ [Next]_vars => [Service!ServiceNext]_(Service!serviceVars)
<1> SUFFICES ASSUME DaemonInv, [Next]_vars
             PROVE  Service!ServiceNext \/ UNCHANGED Service!serviceVars
  OBVIOUS
<1>1. CASE UNCHANGED vars
  <2>1. UNCHANGED <<groups, outcome, wdTasks, handler, forGroup>>
    BY <1>1 DEF vars, workerManagerVars, taskManagerVars, controlVars
  <2> QED
    BY <2>1, Unseen DEF Pending
<1>2. ASSUME NEW g \in Groups, NEW p \in ContestPriorities, RunGroup(g, p) PROVE Service!ServiceNext
  BY <1>2, RunGroupSubmits DEF Service!ServiceNext
<1>3. CASE RunJobs
  BY <1>3, RunJobsAssigns DEF Service!ServiceNext
<1>4. CASE Collect
  BY <1>4, CollectAnswers DEF Service!ServiceNext
<1>5. ASSUME NEW t \in Tasks, LostTask(t) PROVE Service!ServiceNext
  BY <1>5, LostTaskLoses DEF Service!ServiceNext
<1>6. ASSUME NEW t \in Tasks, NEW w \in Workers, NEW o \in Outcomes, Reply(t, w, o)
      PROVE  Service!ServiceNext
  BY <1>6, TaskDoneFinishes DEF Reply, Service!ServiceNext
<1>7. ASSUME NEW t \in Tasks, NEW w \in Workers, Timeout(t, w) PROVE Service!ServiceNext
  <2>1. "error" \in Outcomes /\ TaskDone(t, w, "error")
    BY <1>7 DEF Timeout, Outcomes
  <2> QED
    BY <2>1, TaskDoneFinishes DEF Service!ServiceNext
<1> QED
  BY <1>1, <1>2, <1>3, <1>4, <1>5, <1>6, <1>7, OtherStepsUnseen DEF Next, HandlerStep

\* The daemon implements TaskService.  Whatever submissions, replies, timeouts,
\* retries and disconnections happen in whatever order, a task is with at most one
\* worker, one that can take it, ends once, and its group is answered once, after
\* the last of its tasks and not before.
THEOREM DaemonImplementsService == Spec => ImplementsService
<1>1. Init => Service!ServiceInit
  <2> SUFFICES ASSUME Init PROVE Service!ServiceInit
    OBVIOUS
  <2>1. \A t \in Tasks : At(t) = None
    BY DEF Init, At
  <2> QED
    BY <2>1 DEF Init, Service!ServiceInit
<1>2. DaemonInv /\ [Next]_vars => [Service!ServiceNext]_(Service!serviceVars)
  BY StepsImplementService
<1> QED
  BY <1>1, <1>2, DaemonConsistent, PTL DEF Spec, ImplementsService, Service!ServiceSpec
=============================================================================
