------------------------ MODULE PrioritizingScheduler ------------------------
(***************************************************************************)
(* The scheduler of sioworkersd                                            *)
(* (sio/sioworkersd/scheduler/prioritizing.py).                            *)
(*                                                                         *)
(* The scheduler keeps two redundant views of the cluster: the tasks, each *)
(* queued, reserved ("waiting real-cpu") or attached to a worker, and the  *)
(* workers, with counters of what is attached to them and two sorted       *)
(* queues of the workers that can still take something.  Every operation   *)
(* updates both views.                                                     *)
(*                                                                         *)
(* schedule() is a loop around _scheduleOnce().  One iteration is one      *)
(* step here; `scheduling' is its program counter: while it is TRUE the    *)
(* single reactor thread is inside the loop and no other operation of the  *)
(* scheduler can run.                                                      *)
(*                                                                         *)
(* Operators called Wrong... are faulty variants of the definition that    *)
(* follows them; no specification uses them, they show what the properties *)
(* are sensitive to (see the README).                                      *)
(*                                                                         *)
(* An assertion of the code that fails, a KeyError of a sorted set and a   *)
(* RuntimeError put a label into `failures'; nothing runs after that.      *)
(***************************************************************************)
EXTENDS Integers, FiniteSets, BlockedWorkers

CONSTANTS
    Workers,            \* worker names, as integers: the code orders them
    Tasks,              \* task ids; an id that left the system may return
                        \* as a fresh task (the code draws a new uuid)
    Contests,           \* contest uids
    Concurrency,        \* [Workers -> positive]: slots of a worker
    TotalRam,           \* [Workers -> positive]: available_ram_mb
    CpuEnabled,         \* [Workers -> BOOLEAN]: can_run_cpu_exec
    RealCpu,            \* [Tasks -> BOOLEAN]: cpu-exec or cpu-interactive-exec
    Ram,                \* [Tasks -> Nat]: required_ram_mb
    Priority,           \* [Tasks -> Int]: task_priority
    ContestOf,          \* [Tasks -> Contests]
    ContestPriorities,  \* priorities a contest may be given
    None                \* Python's None

ASSUME WorkersAssumption ==
    /\ Workers \subseteq Int
    /\ IsFiniteSet(Workers)
    /\ Concurrency \in [Workers -> Nat \ {0}]
    /\ TotalRam \in [Workers -> Nat \ {0}]
    /\ CpuEnabled \in [Workers -> BOOLEAN]

ASSUME TasksAssumption ==
    /\ IsFiniteSet(Tasks)
    /\ RealCpu \in [Tasks -> BOOLEAN]
    /\ Ram \in [Tasks -> Nat]
    /\ Priority \in [Tasks -> Int]
    /\ ContestOf \in [Tasks -> Contests]
    /\ ContestPriorities \subseteq Int

ASSUME NoneAssumption ==
    None \notin Workers /\ None \notin Int /\ None \notin {"any-cpu", "vcpu-only"}

VARIABLES
    workers,           \* names of the WorkerInfo objects in self.workers
    running,           \* [Workers -> Nat]: WorkerInfo.running_tasks
    usedRam,           \* [Workers -> Nat]: WorkerInfo.used_ram_mb
    runningRealCpu,    \* [Workers -> BOOLEAN]: WorkerInfo.is_running_real_cpu
    vcpuOnlyQueue,     \* workers_queues['vcpu-only'], sorted by id
    anyCpuQueue,       \* workers_queues['any-cpu']: entries with the sort key
                       \* they were inserted with
    contestPriority,   \* [Contests -> priority or None]: self.contests
    tasks,             \* keys of self.tasks
    assigned,          \* [Tasks -> Workers or None]: TaskInfo.assigned_worker
    virtualCpu,        \* tasks_queues['virtual-cpu']
    both,              \* tasks_queues['both']
    waiting,           \* waiting_real_cpu_tasks
    arrival,           \* <<t, u>>: t has a smaller sequence_number than u
    waitOrder,         \* <<t, u>>: t is ahead of u in waiting_real_cpu_tasks
    scheduling,        \* inside schedule()
    jobs,              \* the list schedule() is building
    failures,          \* labels of the assertions that failed
    \* Fields of the worker manager that the scheduler reads.
    registered,        \* keys of manager.getWorkers()
    minAnyCpuWorkerRam \* manager.minAnyCpuWorkerRam

workerVars == <<workers, running, usedRam, runningRealCpu>>
workerQueues == <<vcpuOnlyQueue, anyCpuQueue>>
taskQueues == <<virtualCpu, both>>
waitVars == <<waiting, waitOrder>>
taskVars == <<tasks, assigned, arrival>>
loopVars == <<scheduling, jobs>>
managerVars == <<registered, minAnyCpuWorkerRam>>
schedVars == <<workerVars, workerQueues, taskQueues, waitVars, taskVars,
               loopVars, contestPriority, failures, managerVars>>

(***************************************************************************)
(* Orders.  sequence_number and the position in an OrderedDict only ever   *)
(* serve to compare tasks that are present, so both are kept as relations. *)
(***************************************************************************)
Appended(order, present, t) == order \cup (present \X {t})

Removed(order, t) == {p \in order : p[1] # t /\ p[2] # t}

\* The label goes into `failures' when the asserted condition is false.
Asserted(label, condition) == IF condition THEN {} ELSE {label}

-----------------------------------------------------------------------------
(***************************************************************************)
(* Workers.                                                                *)
(***************************************************************************)
getQueueName(w, run, real) ==
    IF real \/ run = Concurrency[w] THEN None
    ELSE IF CpuEnabled[w] THEN "any-cpu" ELSE "vcpu-only"

getAvailableRam(w) == TotalRam[w] - usedRam[w]

getAvailableVcpuSlots(w) ==
    IF runningRealCpu[w] THEN 0 ELSE Concurrency[w] - running[w]

\* What a worker with the given counters puts into each of the two queues.
AnyCpuEntry(w, run, used, real) ==
    IF getQueueName(w, run, real) = "any-cpu"
    THEN {[id |-> w, busy |-> run > 0, ram |-> TotalRam[w] - used]}
    ELSE {}

VcpuOnlyEntry(w, run, real) ==
    IF getQueueName(w, run, real) = "vcpu-only" THEN {w} ELSE {}

\* The entry a worker should have now, looked up by its current key.
CurrentAnyCpuEntry(w) ==
    AnyCpuEntry(w, running[w], usedRam[w], runningRealCpu[w])

CurrentVcpuOnlyEntry(w) == VcpuOnlyEntry(w, running[w], runningRealCpu[w])

\* SortedSet.remove raises KeyError for a missing element.
Removable(w) == /\ CurrentAnyCpuEntry(w) \subseteq anyCpuQueue
                /\ CurrentVcpuOnlyEntry(w) \subseteq vcpuOnlyQueue

\* Changes the counters before it looks up the old entry.
WrongUpdateWorker(w, run, used, real) ==
    /\ running' = [running EXCEPT ![w] = run]
    /\ usedRam' = [usedRam EXCEPT ![w] = used]
    /\ runningRealCpu' = [runningRealCpu EXCEPT ![w] = real]
    /\ anyCpuQueue' = (anyCpuQueue \ AnyCpuEntry(w, run, used, real))
                         \cup AnyCpuEntry(w, run, used, real)
    /\ vcpuOnlyQueue' = (vcpuOnlyQueue \ VcpuOnlyEntry(w, run, real))
                           \cup VcpuOnlyEntry(w, run, real)
    /\ UNCHANGED workers

\* _removeWorkerFromQueue, the new counters, _insertWorkerToQueue.
UpdateWorker(w, run, used, real) ==
    /\ running' = [running EXCEPT ![w] = run]
    /\ usedRam' = [usedRam EXCEPT ![w] = used]
    /\ runningRealCpu' = [runningRealCpu EXCEPT ![w] = real]
    /\ anyCpuQueue' = (anyCpuQueue \ CurrentAnyCpuEntry(w))
                         \cup AnyCpuEntry(w, run, used, real)
    /\ vcpuOnlyQueue' = (vcpuOnlyQueue \ CurrentVcpuOnlyEntry(w))
                           \cup VcpuOnlyEntry(w, run, real)
    /\ UNCHANGED workers

\* addWorker: a fresh WorkerInfo with zero counters.
AddWorker(w) ==
    /\ ~scheduling
    /\ workers' = workers \cup {w}
    /\ running' = [running EXCEPT ![w] = 0]
    /\ usedRam' = [usedRam EXCEPT ![w] = 0]
    /\ runningRealCpu' = [runningRealCpu EXCEPT ![w] = FALSE]
    /\ anyCpuQueue' = anyCpuQueue \cup AnyCpuEntry(w, 0, 0, FALSE)
    /\ vcpuOnlyQueue' = vcpuOnlyQueue \cup VcpuOnlyEntry(w, 0, FALSE)
    /\ failures' = failures \cup Asserted("getWorkers", w \in registered)
    /\ UNCHANGED <<taskQueues, waitVars, taskVars, loopVars, contestPriority>>

DelWorker(w) ==
    /\ ~scheduling
    /\ failures' = failures
           \cup Asserted("delWorker", w \in workers /\ running[w] = 0)
           \cup Asserted("queue", Removable(w))
    /\ workers' = workers \ {w}
    /\ anyCpuQueue' = anyCpuQueue \ CurrentAnyCpuEntry(w)
    /\ vcpuOnlyQueue' = vcpuOnlyQueue \ CurrentVcpuOnlyEntry(w)
    /\ UNCHANGED <<running, usedRam, runningRealCpu, taskQueues, waitVars,
                   taskVars, loopVars, contestPriority>>

\* Iteration order of the two worker queues: by id, and by
\* (running_tasks > 0, getAvailableRam(), id) as it was at insertion.
VcpuOnlyOrder == {p \in vcpuOnlyQueue \X vcpuOnlyQueue : p[1] < p[2]}

KeyBefore(d, e) ==
    \/ ~d.busy /\ e.busy
    \/ /\ d.busy = e.busy
       /\ d.ram < e.ram \/ (d.ram = e.ram /\ d.id < e.id)

AnyCpuOrder ==
    {<<p[1].id, p[2].id>> : p \in
        {q \in anyCpuQueue \X anyCpuQueue : KeyBefore(q[1], q[2])}}

AnyCpuIds == {e.id : e \in anyCpuQueue}

-----------------------------------------------------------------------------
(***************************************************************************)
(* Choosing a worker.  Each operator is the set of the workers the code    *)
(* may return: one worker, or none for None.                               *)
(***************************************************************************)
\* Does not look at the RAM.
WrongViable(w, ram) == getAvailableVcpuSlots(w) > 0

Viable(w, ram) == getAvailableRam(w) >= ram /\ getAvailableVcpuSlots(w) > 0

Distance(w, ram) ==
    LET d == getAvailableRam(w) - ram * getAvailableVcpuSlots(w)
    IN  IF d < 0 THEN -d ELSE d

\* |ram per slot of v - ram| < |ram per slot of w - ram|, cross-multiplied.
Closer(v, w, ram) == Distance(v, ram) * getAvailableVcpuSlots(w)
                        < Distance(w, ram) * getAvailableVcpuSlots(v)

\* suitability(v) > suitability(w)
MoreSuitable(v, w, ram, preferBusy) ==
    IF preferBusy /\ (running[v] > 0) # (running[w] > 0)
    THEN running[v] > 0
    ELSE Closer(v, w, ram)

BestForVirtualCpu(queue, order, ram, preferBusy) ==
    {w \in queue :
        /\ Viable(w, ram)
        /\ \A v \in queue \ {w} : Viable(v, ram) =>
              /\ ~MoreSuitable(v, w, ram, preferBusy)
              /\ \/ MoreSuitable(w, v, ram, preferBusy)
                 \/ <<w, v>> \in order}

BestVcpuOnly(ram) ==
    BestForVirtualCpu(vcpuOnlyQueue, VcpuOnlyOrder, ram, FALSE)

BestAnyCpu(ram) == BestForVirtualCpu(AnyCpuIds, AnyCpuOrder, ram, TRUE)

\* Accepts a worker that is running something.
WrongBestForRealCpu(ram) ==
    {w \in AnyCpuIds :
        /\ getAvailableRam(w) >= ram
        /\ \A v \in AnyCpuIds : <<v, w>> \in AnyCpuOrder => getAvailableRam(v) < ram}

\* The first worker of the queue with enough RAM, unless a busy one is met
\* before it.
BestForRealCpu(ram) ==
    {w \in AnyCpuIds :
        /\ running[w] = 0 /\ getAvailableRam(w) >= ram
        /\ \A v \in AnyCpuIds : <<v, w>> \in AnyCpuOrder =>
              running[v] = 0 /\ getAvailableRam(v) < ram}

-----------------------------------------------------------------------------
(***************************************************************************)
(* Tasks.                                                                  *)
(***************************************************************************)
UpdateContest(c, p) ==
    /\ ~scheduling
    /\ contestPriority' = [contestPriority EXCEPT ![c] = p]
    /\ UNCHANGED <<workerVars, workerQueues, taskQueues, waitVars, taskVars,
                   loopVars, failures>>

AddTaskToQueues(t) ==
    /\ virtualCpu' = IF RealCpu[t] THEN virtualCpu ELSE virtualCpu \cup {t}
    /\ both' = both \cup {t}

\* Leaves the task in the queue of the virtual-cpu tasks.
WrongRemoveTaskFromQueues(t) == both' = both \ {t} /\ UNCHANGED virtualCpu

RemoveTaskFromQueues(t) ==
    /\ virtualCpu' = virtualCpu \ {t}
    /\ both' = both \ {t}

AddTask(t) ==
    /\ ~scheduling
    /\ failures' = failures
           \cup Asserted("addTask", /\ contestPriority[ContestOf[t]] # None
                                    /\ t \notin tasks /\ t \notin both)
    /\ tasks' = tasks \cup {t}
    /\ arrival' = Appended(arrival, tasks, t)
    /\ assigned' = [assigned EXCEPT ![t] = None]
    /\ AddTaskToQueues(t)
    /\ UNCHANGED <<workerVars, workerQueues, waitVars, loopVars,
                   contestPriority>>

\* Does not give the RAM back.
WrongDetachTask(t, w) ==
    /\ UNCHANGED failures
    /\ UpdateWorker(w, running[w] - 1, usedRam[w], FALSE)

DetachTask(t, w) ==
    /\ failures' = failures
           \cup Asserted("detachTask", /\ running[w] >= 1
                                       /\ running[w] = 1 \/ ~runningRealCpu[w]
                                       /\ usedRam[w] >= Ram[t])
           \cup Asserted("queue", Removable(w))
    /\ UpdateWorker(w, running[w] - 1, usedRam[w] - Ram[t], FALSE)

\* Forgets that the task may be reserved.
WrongDelTask(t) ==
    /\ ~scheduling
    /\ tasks' = tasks \ {t}
    /\ arrival' = Removed(arrival, t)
    /\ assigned' = [assigned EXCEPT ![t] = None]
    /\ \/ /\ assigned[t] # None
          /\ DetachTask(t, assigned[t])
          /\ UNCHANGED <<taskQueues, waitVars>>
       \/ /\ assigned[t] = None
          /\ failures' = failures \cup Asserted("delTask", t \in both)
          /\ RemoveTaskFromQueues(t)
          /\ UNCHANGED <<workerVars, workerQueues, waitVars>>
    /\ UNCHANGED <<loopVars, contestPriority>>

\* delTask: the task may be attached to a worker, reserved or queued.
DelTask(t) ==
    /\ ~scheduling
    /\ tasks' = tasks \ {t}
    /\ arrival' = Removed(arrival, t)
    /\ assigned' = [assigned EXCEPT ![t] = None]
    /\ \/ /\ assigned[t] # None
          /\ DetachTask(t, assigned[t])
          /\ UNCHANGED <<taskQueues, waitVars>>
       \/ /\ assigned[t] = None /\ t \in waiting
          /\ waiting' = waiting \ {t}
          /\ waitOrder' = Removed(waitOrder, t)
          /\ UNCHANGED <<workerVars, workerQueues, taskQueues, failures>>
       \/ /\ assigned[t] = None /\ t \notin waiting
          /\ failures' = failures \cup Asserted("delTask", t \in both)
          /\ RemoveTaskFromQueues(t)
          /\ UNCHANGED <<workerVars, workerQueues, waitVars>>
    /\ UNCHANGED <<loopVars, contestPriority>>

\* The newest among tasks of equal priority.
WrongDraws(queue) ==
    {t \in queue :
        \A u \in queue \ {t} :
            /\ contestPriority[ContestOf[u]] <= contestPriority[ContestOf[t]]
            /\ ContestOf[u] = ContestOf[t] =>
                  \/ Priority[u] < Priority[t]
                  \/ Priority[u] = Priority[t] /\ <<u, t>> \in arrival}

(***************************************************************************)
(* TasksQueues.chooseTask: a contest of the highest priority present in    *)
(* the queue, drawn at random (every weight is at least 1, so each of them *)
(* can be drawn), then its task of the highest priority, the oldest among  *)
(* equals.  The set holds every task that a draw can return.               *)
(***************************************************************************)
Draws(queue) ==
    {t \in queue :
        \A u \in queue \ {t} :
            /\ contestPriority[ContestOf[u]] <= contestPriority[ContestOf[t]]
            /\ ContestOf[u] = ContestOf[t] =>
                  \/ Priority[u] < Priority[t]
                  \/ Priority[u] = Priority[t] /\ <<t, u>> \in arrival}

-----------------------------------------------------------------------------
(***************************************************************************)
(* schedule().                                                             *)
(***************************************************************************)
AttachTaskToWorker(t, w) ==
    /\ failures' = failures
           \cup Asserted("attachTask",
                    /\ assigned[t] = None
                    /\ running[w] < Concurrency[w]
                    /\ usedRam[w] + Ram[t] <= TotalRam[w]
                    /\ ~runningRealCpu[w]
                    /\ RealCpu[t] => CpuEnabled[w] /\ running[w] = 0)
           \cup Asserted("queue", Removable(w))
    /\ assigned' = [assigned EXCEPT ![t] = w]
    /\ UpdateWorker(w, running[w] + 1, usedRam[w] + Ram[t], RealCpu[t])
    /\ jobs' = jobs \cup {<<t, w>>}
    /\ UNCHANGED <<tasks, arrival, scheduling, contestPriority>>

\* The first branch of _scheduleOnce finds nothing.
NoVcpuOnlyMatch ==
    virtualCpu = {} \/ \E t \in Draws(virtualCpu) : BestVcpuOnly(Ram[t]) = {}

WaitingHead == {t \in waiting : \A u \in waiting : <<u, t>> \notin waitOrder}

\* The second branch of _scheduleOnce finds nothing.
NoWaitingMatch == \A t \in WaitingHead : BestForRealCpu(Ram[t]) = {}

getNumberOfBlockedAnyCpuWorkers ==
    NumberOfBlocked(minAnyCpuWorkerRam, None, waiting, Ram,
                    {w \in registered : CpuEnabled[w]}, TotalRam)

\* Gives away one worker too many (>= for >).
WrongAnyCpuAllowed ==
    Cardinality(anyCpuQueue) >= getNumberOfBlockedAnyCpuWorkers

\* Some any-cpu worker of the queue is not blocked by a reserved task.
AnyCpuAllowed ==
    Cardinality(anyCpuQueue) > getNumberOfBlockedAnyCpuWorkers

ScheduleCall ==
    /\ ~scheduling
    /\ scheduling' = TRUE
    /\ UNCHANGED <<workerVars, workerQueues, taskQueues, waitVars, taskVars,
                   jobs, contestPriority, failures>>

ScheduleVcpuOnly(t, w) ==
    /\ scheduling
    /\ t \in Draws(virtualCpu) /\ w \in BestVcpuOnly(Ram[t])
    /\ RemoveTaskFromQueues(t)
    /\ AttachTaskToWorker(t, w)
    /\ UNCHANGED waitVars

ScheduleWaiting(t, w) ==
    /\ scheduling
    /\ NoVcpuOnlyMatch
    /\ t \in WaitingHead /\ w \in BestForRealCpu(Ram[t])
    /\ waiting' = waiting \ {t}
    /\ waitOrder' = Removed(waitOrder, t)
    /\ AttachTaskToWorker(t, w)
    /\ UNCHANGED taskQueues

ScheduleAnyCpu(t, w) ==
    /\ scheduling
    /\ NoVcpuOnlyMatch /\ NoWaitingMatch /\ AnyCpuAllowed
    /\ t \in Draws(both)
    /\ w \in IF RealCpu[t] THEN BestForRealCpu(Ram[t]) ELSE BestAnyCpu(Ram[t])
    /\ RemoveTaskFromQueues(t)
    /\ AttachTaskToWorker(t, w)
    /\ UNCHANGED waitVars

\* "Reserve an any-cpu worker for this task", and go around again.
Reserve(t) ==
    /\ scheduling
    /\ NoVcpuOnlyMatch /\ NoWaitingMatch /\ AnyCpuAllowed
    /\ t \in Draws(both) /\ RealCpu[t] /\ BestForRealCpu(Ram[t]) = {}
    /\ RemoveTaskFromQueues(t)
    /\ waiting' = waiting \cup {t}
    /\ waitOrder' = Appended(waitOrder, waiting, t)
    /\ UNCHANGED <<workerVars, workerQueues, taskVars, loopVars,
                   contestPriority, failures>>

\* _scheduleOnce can return None: "Sorry, no match..."
NoMatch ==
    /\ NoVcpuOnlyMatch
    /\ NoWaitingMatch
    /\ \/ ~AnyCpuAllowed
       \/ both = {}
       \/ \E t \in Draws(both) : ~RealCpu[t] /\ BestAnyCpu(Ram[t]) = {}

\* schedule() returns the list to its caller.
ScheduleReturn ==
    /\ scheduling
    /\ NoMatch
    /\ scheduling' = FALSE
    /\ jobs' = {}
    /\ UNCHANGED <<workerVars, workerQueues, taskQueues, waitVars, taskVars,
                   contestPriority, failures>>

ScheduleOnce ==
    \/ \E t \in Tasks, w \in Workers : ScheduleVcpuOnly(t, w)
    \/ \E t \in Tasks, w \in Workers : ScheduleWaiting(t, w)
    \/ \E t \in Tasks, w \in Workers : ScheduleAnyCpu(t, w)
    \/ \E t \in Tasks : Reserve(t)

-----------------------------------------------------------------------------
(***************************************************************************)
(* The scheduler with any client that keeps to its interface: operations   *)
(* come one at a time, a task is added once and deleted once, a worker is  *)
(* deleted when nothing is attached to it.  The manager's fields may       *)
(* change, and its statistics may lag behind, between two operations.      *)
(***************************************************************************)
MinAnyCpuRam(S) ==
    LET rams == {TotalRam[w] : w \in {v \in S : CpuEnabled[v]}}
    IN  IF rams = {} THEN None ELSE Least(rams)

ManagerChanges ==
    /\ ~scheduling
    /\ registered' \in SUBSET Workers
    /\ minAnyCpuWorkerRam' \in {minAnyCpuWorkerRam, MinAnyCpuRam(registered')}
    /\ UNCHANGED <<workerVars, workerQueues, taskQueues, waitVars, taskVars,
                   loopVars, contestPriority, failures>>

SchedInit ==
    /\ workers = {}
    /\ running = [w \in Workers |-> 0]
    /\ usedRam = [w \in Workers |-> 0]
    /\ runningRealCpu = [w \in Workers |-> FALSE]
    /\ vcpuOnlyQueue = {} /\ anyCpuQueue = {}
    /\ contestPriority = [c \in Contests |-> None]
    /\ tasks = {}
    /\ assigned = [t \in Tasks |-> None]
    /\ virtualCpu = {} /\ both = {}
    /\ waiting = {}
    /\ arrival = {} /\ waitOrder = {}
    /\ scheduling = FALSE /\ jobs = {}
    /\ failures = {}
    /\ registered = {}
    /\ minAnyCpuWorkerRam = None

Operation ==
    \/ \E c \in Contests, p \in ContestPriorities : UpdateContest(c, p)
    \/ \E t \in Tasks : /\ t \notin tasks
                        /\ contestPriority[ContestOf[t]] # None
                        /\ AddTask(t)
    \/ \E t \in tasks : DelTask(t)
    \/ \E w \in registered \ workers : AddWorker(w)
    \/ \E w \in workers : running[w] = 0 /\ DelWorker(w)
    \/ ScheduleCall
    \/ ScheduleOnce
    \/ ScheduleReturn

SchedNext == /\ failures = {}
             /\ \/ Operation /\ UNCHANGED managerVars
                \/ ManagerChanges

SchedSpec == SchedInit /\ [][SchedNext]_schedVars

-----------------------------------------------------------------------------
(***************************************************************************)
(* Correctness.                                                            *)
(***************************************************************************)
\* Types of the scheduler's state.
SchedTypeOK ==
    /\ workers \subseteq Workers
    /\ running \in [Workers -> Nat]
    /\ usedRam \in [Workers -> Nat]
    /\ runningRealCpu \in [Workers -> BOOLEAN]
    /\ vcpuOnlyQueue \subseteq Workers
    /\ anyCpuQueue \subseteq [id : Workers, busy : BOOLEAN, ram : Nat]
    /\ contestPriority \in [Contests -> ContestPriorities \cup {None}]
    /\ tasks \subseteq Tasks
    /\ assigned \in [Tasks -> Workers \cup {None}]
    /\ virtualCpu \subseteq Tasks /\ both \subseteq Tasks
    /\ waiting \subseteq Tasks
    /\ arrival \subseteq Tasks \X Tasks
    /\ waitOrder \subseteq Tasks \X Tasks
    /\ scheduling \in BOOLEAN
    /\ jobs \subseteq Tasks \X Workers
    /\ registered \subseteq Workers
    /\ minAnyCpuWorkerRam \in Nat \cup {None}

\* Tasks attached to a worker.
Attached(w) == {t \in Tasks : assigned[t] = w}

\* The units of RAM that a task, or a set of tasks, declared: one element per
\* unit, so that the sum of the declared sizes is a cardinality.
Reservation(t) == {t} \X (1..Ram[t])

RamUnits(A) == UNION {Reservation(t) : t \in A}

\* Each task the scheduler knows is in exactly one place (queued, reserved or
\* attached), in both per-type queues or neither as its type asks, and
\* nothing else is anywhere: no operation loses or duplicates a task.
TaskPlacement ==
    /\ both \cup waiting \cup {t \in Tasks : assigned[t] # None} = tasks
    /\ both \cap waiting = {}
    /\ \A t \in both \cup waiting : assigned[t] = None
    /\ virtualCpu = {t \in both : ~RealCpu[t]}
    /\ \A t \in waiting : RealCpu[t]

\* The counters of a WorkerInfo equal what is attached to the worker, after
\* any sequence of attachTask and detachTask; a worker that left has nothing.
CountersMatchTasks ==
    \A w \in Workers :
        /\ running[w] = Cardinality(Attached(w))
        /\ usedRam[w] = Cardinality(RamUnits(Attached(w)))
        /\ w \notin workers => Attached(w) = {}

\* Each registered worker is in exactly the queue getQueueName gives, under
\* the sort key its current counters give: a SortedSet entry never goes stale.
WorkerQueuesMatchCounters ==
    /\ anyCpuQueue = UNION {CurrentAnyCpuEntry(w) : w \in workers}
    /\ vcpuOnlyQueue = UNION {CurrentVcpuOnlyEntry(w) : w \in workers}

\* A real-cpu task is alone on its worker, which is an any-cpu worker, and
\* is_running_real_cpu says so ("judged exclusively on a worker").
RealCpuExclusive ==
    \A w \in Workers :
        /\ runningRealCpu[w] <=> \E t \in Attached(w) : RealCpu[t]
        /\ runningRealCpu[w] => running[w] = 1 /\ CpuEnabled[w]

\* No worker is given more tasks than slots, nor more RAM than it has.
WithinCapacity ==
    \A w \in Workers : running[w] <= Concurrency[w] /\ usedRam[w] <= TotalRam[w]

\* No assertion of the scheduler fails and no sorted set raises KeyError.
AssertionsHold == failures = {}

\* What schedule() is about to return is attached to the worker it names, so
\* the list has no task twice; a call starts from an empty list.
JobsAreAttached ==
    /\ \A j \in jobs : assigned[j[1]] = j[2]
    /\ ~scheduling => jobs = {}

\* "Tasks with the same task priority within one contest are judged in arrival
\* order": when schedule() takes a task out of the queues, no older task of its
\* contest, priority and kind stays behind in them.
ArrivalOrder ==
    [][\A t, u \in both :
          /\ t \notin both' /\ t \in tasks' /\ u \in both'
          /\ ContestOf[u] = ContestOf[t] /\ Priority[u] = Priority[t]
          /\ RealCpu[u] = RealCpu[t]
          => <<u, t>> \notin arrival]_schedVars
=============================================================================
