--------------------------- MODULE SchedulerProofs ---------------------------
(***************************************************************************)
(* Proofs about PrioritizingScheduler, for every number of workers, tasks  *)
(* and contests and every size: with a client that keeps to the interface  *)
(* its counters, queues and task placement stay consistent, none of its    *)
(* assertions fails, and tasks are taken in their order.                   *)
(***************************************************************************)
EXTENDS PrioritizingScheduler, FiniteSetTheorems, WellFoundedInduction, TLAPS

(***************************************************************************)
(* Declared RAM as a cardinality.                                          *)
(***************************************************************************)
\* A task's reservation has as many units as the task declares RAM.
LEMMA ReservationSize ==
    ASSUME NEW t \in Tasks
    PROVE  /\ IsFiniteSet(Reservation(t))
           /\ Cardinality(Reservation(t)) = Ram[t]
<1>1. Ram[t] \in Nat
  BY TasksAssumption
<1>2. IsFiniteSet(1..Ram[t]) /\ Cardinality(1..Ram[t]) = Ram[t]
  BY <1>1, FS_Interval
<1>3. IsFiniteSet({t}) /\ Cardinality({t}) = 1
  BY FS_Singleton
<1>4. /\ IsFiniteSet({t} \X (1..Ram[t]))
      /\ Cardinality({t} \X (1..Ram[t])) = 1 * Ram[t]
  BY <1>2, <1>3, FS_Product
<1> QED
  BY <1>1, <1>4 DEF Reservation

\* Any set of tasks declares finitely many units.
LEMMA RamUnitsFinite ==
    ASSUME NEW A \in SUBSET Tasks
    PROVE  IsFiniteSet(RamUnits(A)) /\ Cardinality(RamUnits(A)) \in Nat
<1> DEFINE R == {Reservation(t) : t \in A}
           f == [t \in A |-> Reservation(t)]
<1>1. IsFiniteSet(A)
  BY FS_Subset, TasksAssumption
<1>2. f \in Surjection(A, R)
  BY DEF Surjection
<1>3. IsFiniteSet(R)
  BY <1>1, <1>2, FS_Surjection
<1>4. \A T \in R : IsFiniteSet(T)
  BY ReservationSize
<1>5. IsFiniteSet(UNION R)
  BY <1>3, <1>4, FS_UNION
<1> QED
  BY <1>5, FS_CardinalityType DEF RamUnits

\* One more task adds exactly what it declares.
LEMMA RamUnitsAdd ==
    ASSUME NEW A \in SUBSET Tasks, NEW t \in Tasks, t \notin A
    PROVE  Cardinality(RamUnits(A \cup {t})) = Cardinality(RamUnits(A)) + Ram[t]
<1>1. RamUnits(A \cup {t}) = RamUnits(A) \cup Reservation(t)
  BY DEF RamUnits
<1>2. RamUnits(A) \cap Reservation(t) = {}
  BY DEF RamUnits, Reservation
<1>3. /\ IsFiniteSet(RamUnits(A)) /\ IsFiniteSet(Reservation(t))
      /\ Cardinality(RamUnits(A)) \in Nat
      /\ Cardinality(Reservation(t)) = Ram[t] /\ Ram[t] \in Nat
  BY RamUnitsFinite, ReservationSize, TasksAssumption
<1>4. Cardinality(RamUnits(A) \cup Reservation(t))
        = Cardinality(RamUnits(A)) + Cardinality(Reservation(t))
             - Cardinality(RamUnits(A) \cap Reservation(t))
  BY <1>3, FS_Union
<1>5. Cardinality(RamUnits(A) \cap Reservation(t)) = 0
  BY <1>2, FS_EmptySet
<1>6. Cardinality(RamUnits(A) \cup Reservation(t)) = Cardinality(RamUnits(A)) + Ram[t]
  BY <1>3, <1>4, <1>5
<1> QED
  BY <1>1, <1>6

\* One task less removes exactly what it declared, which was there.
LEMMA RamUnitsRemove ==
    ASSUME NEW A \in SUBSET Tasks, NEW t \in A
    PROVE  /\ Cardinality(RamUnits(A)) - Ram[t] = Cardinality(RamUnits(A \ {t}))
           /\ Cardinality(RamUnits(A)) >= Ram[t]
<1>1. (A \ {t}) \cup {t} = A
  OBVIOUS
<1>2. Cardinality(RamUnits(A)) = Cardinality(RamUnits(A \ {t})) + Ram[t]
  BY <1>1, RamUnitsAdd, A \ {t} \in SUBSET Tasks, t \in Tasks, t \notin A \ {t}
<1>3. Cardinality(RamUnits(A \ {t})) \in Nat /\ Ram[t] \in Nat
  BY RamUnitsFinite, TasksAssumption, A \ {t} \in SUBSET Tasks
<1> QED
  BY <1>2, <1>3

-----------------------------------------------------------------------------
(***************************************************************************)
(* The inductive invariant: the properties the model checker checks,       *)
(* together.  None of them is inductive alone: the assertions of           *)
(* detachTask rest on the counters, the counters on the placement of the   *)
(* tasks, and what the queues offer on both.                               *)
(***************************************************************************)
SchedInv ==
    /\ SchedTypeOK
    /\ TaskPlacement
    /\ CountersMatchTasks
    /\ WorkerQueuesMatchCounters
    /\ RealCpuExclusive
    /\ WithinCapacity
    /\ AssertionsHold
    /\ JobsAreAttached

\* Workers and their counters, without the tasks that wait.
WorkersInv ==
    /\ CountersMatchTasks
    /\ WorkerQueuesMatchCounters
    /\ RealCpuExclusive
    /\ WithinCapacity
    /\ AssertionsHold

\* A worker found in a queue can take another task.
LEMMA QueuedWorkersHaveRoom ==
    ASSUME SchedTypeOK, WorkerQueuesMatchCounters, WithinCapacity
    PROVE  /\ \A w \in vcpuOnlyQueue :
                 /\ w \in workers /\ ~runningRealCpu[w]
                 /\ running[w] < Concurrency[w]
           /\ \A w \in AnyCpuIds :
                 /\ w \in workers /\ ~runningRealCpu[w] /\ CpuEnabled[w]
                 /\ running[w] < Concurrency[w]
<1>1. ASSUME NEW w \in workers, getQueueName(w, running[w], runningRealCpu[w]) # None
      PROVE  ~runningRealCpu[w] /\ running[w] < Concurrency[w]
  BY <1>1, WorkersAssumption DEF getQueueName, SchedTypeOK, WithinCapacity
<1>2. ASSUME NEW w \in vcpuOnlyQueue
      PROVE  w \in workers /\ getQueueName(w, running[w], runningRealCpu[w]) = "vcpu-only"
  BY <1>2 DEF WorkerQueuesMatchCounters, CurrentVcpuOnlyEntry, VcpuOnlyEntry
<1>3. ASSUME NEW w \in AnyCpuIds
      PROVE  w \in workers /\ getQueueName(w, running[w], runningRealCpu[w]) = "any-cpu"
  BY <1>3 DEF AnyCpuIds, WorkerQueuesMatchCounters, CurrentAnyCpuEntry, AnyCpuEntry
<1>4. ASSUME NEW w \in workers, getQueueName(w, running[w], runningRealCpu[w]) = "any-cpu"
      PROVE  CpuEnabled[w]
  BY <1>4, NoneAssumption DEF getQueueName
<1> QED
  BY <1>1, <1>2, <1>3, <1>4, NoneAssumption

\* A worker the scheduler knows is where _removeWorkerFromQueue looks for it.
LEMMA WorkersAreRemovable ==
    ASSUME WorkerQueuesMatchCounters, NEW w \in workers
    PROVE  Removable(w)
BY DEF WorkerQueuesMatchCounters, Removable

\* The entries of a worker with sensible counters are well typed.
LEMMA EntryType ==
    ASSUME NEW w \in Workers, NEW run \in Int, NEW used \in Int, NEW real,
           TotalRam[w] - used \in Nat
    PROVE  /\ AnyCpuEntry(w, run, used, real) \subseteq [id : Workers, busy : BOOLEAN, ram : Nat]
           /\ VcpuOnlyEntry(w, run, real) \subseteq Workers
<1>1. [id |-> w, busy |-> run > 0, ram |-> TotalRam[w] - used]
         \in [id : Workers, busy : BOOLEAN, ram : Nat]
  <2>1. (run > 0) \in BOOLEAN
    OBVIOUS
  <2> QED
    BY <2>1
<1> QED
  BY <1>1 DEF AnyCpuEntry, VcpuOnlyEntry

\* Remove, change the counters, insert: the queues match the counters again.
LEMMA UpdateWorkerKeepsQueues ==
    ASSUME SchedTypeOK, WorkerQueuesMatchCounters, NEW w \in workers,
           NEW run, NEW used, NEW real, UpdateWorker(w, run, used, real)
    PROVE  WorkerQueuesMatchCounters'
<1>1. /\ workers' = workers /\ w \in Workers
      /\ running'[w] = run /\ usedRam'[w] = used /\ runningRealCpu'[w] = real
      /\ \A v \in workers \ {w} : /\ running'[v] = running[v]
                                  /\ usedRam'[v] = usedRam[v]
                                  /\ runningRealCpu'[v] = runningRealCpu[v]
  BY DEF UpdateWorker, SchedTypeOK
<1>2. /\ CurrentAnyCpuEntry(w)' = AnyCpuEntry(w, run, used, real)
      /\ CurrentVcpuOnlyEntry(w)' = VcpuOnlyEntry(w, run, real)
  BY <1>1 DEF CurrentAnyCpuEntry, CurrentVcpuOnlyEntry, AnyCpuEntry, VcpuOnlyEntry, getQueueName
<1>3. \A v \in workers \ {w} :
         /\ CurrentAnyCpuEntry(v)' = CurrentAnyCpuEntry(v)
         /\ CurrentVcpuOnlyEntry(v)' = CurrentVcpuOnlyEntry(v)
  BY <1>1 DEF CurrentAnyCpuEntry, CurrentVcpuOnlyEntry, AnyCpuEntry, VcpuOnlyEntry, getQueueName
<1>4. \A v \in workers : /\ \A e \in CurrentAnyCpuEntry(v) : e.id = v
                         /\ \A e \in CurrentVcpuOnlyEntry(v) : e = v
  BY DEF CurrentAnyCpuEntry, CurrentVcpuOnlyEntry, AnyCpuEntry, VcpuOnlyEntry
<1>5. \A v \in workers \ {w} : /\ CurrentAnyCpuEntry(v) \cap CurrentAnyCpuEntry(w) = {}
                               /\ CurrentVcpuOnlyEntry(v) \cap CurrentVcpuOnlyEntry(w) = {}
  BY <1>4
<1>6. /\ anyCpuQueue' = (anyCpuQueue \ CurrentAnyCpuEntry(w)) \cup CurrentAnyCpuEntry(w)'
      /\ vcpuOnlyQueue' = (vcpuOnlyQueue \ CurrentVcpuOnlyEntry(w)) \cup CurrentVcpuOnlyEntry(w)'
  BY <1>2 DEF UpdateWorker
<1>7. anyCpuQueue' = UNION {CurrentAnyCpuEntry(v)' : v \in workers}
  BY <1>3, <1>5, <1>6 DEF WorkerQueuesMatchCounters
<1>8. vcpuOnlyQueue' = UNION {CurrentVcpuOnlyEntry(v)' : v \in workers}
  BY <1>3, <1>5, <1>6 DEF WorkerQueuesMatchCounters
<1> QED
  BY <1>1, <1>7, <1>8 DEF WorkerQueuesMatchCounters

\* Facts about the tasks attached to a worker that the counters rest on.
LEMMA AttachedIsFinite ==
    ASSUME SchedTypeOK, NEW w \in Workers
    PROVE  /\ Attached(w) \in SUBSET Tasks
           /\ IsFiniteSet(Attached(w))
           /\ Cardinality(Attached(w)) \in Nat
           /\ Cardinality(Attached(w)) = 0 <=> Attached(w) = {}
<1>1. Attached(w) \in SUBSET Tasks
  BY DEF Attached
<1>2. IsFiniteSet(Attached(w))
  BY <1>1, TasksAssumption, FS_Subset
<1> QED
  BY <1>1, <1>2, FS_CardinalityType, FS_EmptySet

\* attachTask: no assertion fails, and the worker side stays consistent.
LEMMA AttachKeepsWorkers ==
    ASSUME SchedTypeOK, WorkersInv,
           NEW t \in Tasks, NEW w \in workers, assigned[t] = None,
           ~runningRealCpu[w], running[w] < Concurrency[w],
           getAvailableRam(w) >= Ram[t],
           RealCpu[t] => CpuEnabled[w] /\ running[w] = 0,
           AttachTaskToWorker(t, w)
    PROVE  WorkersInv'
<1> USE WorkersAssumption, TasksAssumption
<1> DEFINE A == Attached(w)
<1>1. /\ w \in Workers /\ w # None
      /\ Concurrency[w] \in Nat /\ TotalRam[w] \in Nat /\ Ram[t] \in Nat
      /\ running[w] \in Nat /\ usedRam[w] \in Nat /\ RealCpu[t] \in BOOLEAN
  BY NoneAssumption DEF SchedTypeOK
<1>2. UpdateWorker(w, running[w] + 1, usedRam[w] + Ram[t], RealCpu[t])
  BY DEF AttachTaskToWorker
<1>3. /\ workers' = workers
      /\ running' = [running EXCEPT ![w] = running[w] + 1]
      /\ usedRam' = [usedRam EXCEPT ![w] = usedRam[w] + Ram[t]]
      /\ runningRealCpu' = [runningRealCpu EXCEPT ![w] = RealCpu[t]]
      /\ assigned' = [assigned EXCEPT ![t] = w]
  BY <1>2 DEF UpdateWorker, AttachTaskToWorker
<1>4. Attached(w)' = A \cup {t} /\ t \notin A
  BY <1>1, <1>3 DEF Attached, SchedTypeOK
<1>5. \A v \in Workers \ {w} : Attached(v)' = Attached(v)
  BY <1>1, <1>3, NoneAssumption DEF Attached, SchedTypeOK
<1>6. CountersMatchTasks'
  <2>1. Cardinality(A \cup {t}) = Cardinality(A) + 1
    BY <1>4, AttachedIsFinite, FS_AddElement, <1>1
  <2>2. Cardinality(RamUnits(A \cup {t})) = Cardinality(RamUnits(A)) + Ram[t]
    BY <1>1, <1>4, AttachedIsFinite, RamUnitsAdd
  <2>3. running[w] = Cardinality(A) /\ usedRam[w] = Cardinality(RamUnits(A))
    BY <1>1 DEF WorkersInv, CountersMatchTasks
  <2>4. /\ running'[w] = Cardinality(Attached(w)')
        /\ usedRam'[w] = Cardinality(RamUnits(Attached(w)'))
    BY <1>1, <1>3, <1>4, <2>1, <2>2, <2>3 DEF SchedTypeOK
  <2>5. ASSUME NEW v \in Workers \ {w}
        PROVE  /\ running'[v] = Cardinality(Attached(v)')
               /\ usedRam'[v] = Cardinality(RamUnits(Attached(v)'))
               /\ v \notin workers' => Attached(v)' = {}
    BY <1>3, <1>5, <2>5 DEF WorkersInv, CountersMatchTasks, SchedTypeOK
  <2>6. w \in workers'
    BY <1>3
  <2> QED
    BY <2>4, <2>5, <2>6 DEF CountersMatchTasks, RamUnits
<1>7. WorkerQueuesMatchCounters'
  BY <1>2, UpdateWorkerKeepsQueues DEF WorkersInv
<1>8. RealCpuExclusive'
  <2>1. ASSUME NEW v \in Workers \ {w}
        PROVE  /\ runningRealCpu'[v] <=> \E u \in Attached(v)' : RealCpu[u]
               /\ runningRealCpu'[v] => running'[v] = 1 /\ CpuEnabled[v]
    BY <1>3, <1>5, <2>1 DEF WorkersInv, RealCpuExclusive, SchedTypeOK
  <2>2. ~(\E u \in A : RealCpu[u])
    BY <1>1 DEF WorkersInv, RealCpuExclusive
  <2>3. runningRealCpu'[w] = RealCpu[t]
    BY <1>1, <1>3 DEF SchedTypeOK
  <2>4. runningRealCpu'[w] <=> \E u \in Attached(w)' : RealCpu[u]
    BY <1>1, <1>4, <2>2, <2>3
  <2>5. runningRealCpu'[w] => running'[w] = 1 /\ CpuEnabled[w]
    BY <1>1, <1>3, <2>3 DEF SchedTypeOK
  <2> QED
    BY <2>1, <2>4, <2>5 DEF RealCpuExclusive
<1>9. WithinCapacity'
  <2>1. running[w] + 1 <= Concurrency[w] /\ usedRam[w] + Ram[t] <= TotalRam[w]
    BY <1>1 DEF getAvailableRam
  <2> QED
    BY <1>1, <1>3, <2>1 DEF WithinCapacity, WorkersInv, SchedTypeOK
<1>10. AssertionsHold'
  <2>1. usedRam[w] + Ram[t] <= TotalRam[w]
    BY <1>1 DEF getAvailableRam
  <2>2. Removable(w)
    BY WorkersAreRemovable DEF WorkersInv
  <2> QED
    BY <2>1, <2>2 DEF AssertionsHold, WorkersInv, AttachTaskToWorker, Asserted
<1> QED
  BY <1>6, <1>7, <1>8, <1>9, <1>10 DEF WorkersInv

\* detachTask: no assertion fails, and the worker side stays consistent.
LEMMA DetachKeepsWorkers ==
    ASSUME SchedTypeOK, WorkersInv,
           NEW t \in Tasks, NEW w \in Workers, assigned[t] = w,
           assigned' = [assigned EXCEPT ![t] = None], DetachTask(t, w)
    PROVE  WorkersInv' /\ running'[w] \in Nat /\ usedRam'[w] \in Nat
<1> USE WorkersAssumption, TasksAssumption
<1> DEFINE A == Attached(w)
<1>1. /\ w # None /\ Concurrency[w] \in Nat /\ TotalRam[w] \in Nat /\ Ram[t] \in Nat
      /\ running[w] \in Nat /\ usedRam[w] \in Nat
  BY NoneAssumption DEF SchedTypeOK
<1>2. t \in A /\ A \in SUBSET Tasks /\ IsFiniteSet(A)
  BY AttachedIsFinite DEF Attached
<1>3. w \in workers
  BY <1>2 DEF WorkersInv, CountersMatchTasks
<1>4. UpdateWorker(w, running[w] - 1, usedRam[w] - Ram[t], FALSE)
  BY DEF DetachTask
<1>5. /\ workers' = workers
      /\ running' = [running EXCEPT ![w] = running[w] - 1]
      /\ usedRam' = [usedRam EXCEPT ![w] = usedRam[w] - Ram[t]]
      /\ runningRealCpu' = [runningRealCpu EXCEPT ![w] = FALSE]
  BY <1>4 DEF UpdateWorker
<1>6. Attached(w)' = A \ {t}
  BY <1>1 DEF Attached, SchedTypeOK
<1>7. \A v \in Workers \ {w} : Attached(v)' = Attached(v)
  BY <1>1, NoneAssumption DEF Attached, SchedTypeOK
<1>8. /\ running[w] = Cardinality(A) /\ usedRam[w] = Cardinality(RamUnits(A))
  BY DEF WorkersInv, CountersMatchTasks
<1>9. running[w] - 1 = Cardinality(A \ {t}) /\ running[w] >= 1
  <2>1. Cardinality(A \ {t}) = Cardinality(A) - 1
    BY <1>2, FS_RemoveElement
  <2>2. Cardinality(A \ {t}) \in Nat
    BY <1>2, FS_RemoveElement, FS_CardinalityType
  <2> QED
    BY <1>1, <1>8, <2>1, <2>2
<1>10. usedRam[w] - Ram[t] = Cardinality(RamUnits(A \ {t})) /\ usedRam[w] >= Ram[t]
  BY <1>2, <1>8, RamUnitsRemove
<1>11. running'[w] \in Nat /\ usedRam'[w] \in Nat
  BY <1>1, <1>5, <1>9, <1>10 DEF SchedTypeOK
<1>12. CountersMatchTasks'
  <2>1. /\ running'[w] = Cardinality(Attached(w)')
        /\ usedRam'[w] = Cardinality(RamUnits(Attached(w)'))
    BY <1>5, <1>6, <1>9, <1>10 DEF SchedTypeOK
  <2>2. ASSUME NEW v \in Workers \ {w}
        PROVE  /\ running'[v] = Cardinality(Attached(v)')
               /\ usedRam'[v] = Cardinality(RamUnits(Attached(v)'))
               /\ v \notin workers' => Attached(v)' = {}
    BY <1>5, <1>7, <2>2 DEF WorkersInv, CountersMatchTasks, SchedTypeOK
  <2> QED
    BY <1>3, <1>5, <2>1, <2>2 DEF CountersMatchTasks, RamUnits
<1>13. WorkerQueuesMatchCounters'
  BY <1>3, <1>4, UpdateWorkerKeepsQueues DEF WorkersInv
<1>14. runningRealCpu[w] => A = {t}
  <2>1. SUFFICES ASSUME runningRealCpu[w] PROVE A = {t}
    OBVIOUS
  <2>2. Cardinality(A) = 1
    BY <1>8, <2>1 DEF WorkersInv, RealCpuExclusive
  <2>3. \E x : A = {x}
    BY <1>2, <2>2, FS_Singleton
  <2> QED
    BY <1>2, <2>3
<1>15. RealCpuExclusive'
  <2>1. ASSUME NEW v \in Workers \ {w}
        PROVE  /\ runningRealCpu'[v] <=> \E u \in Attached(v)' : RealCpu[u]
               /\ runningRealCpu'[v] => running'[v] = 1 /\ CpuEnabled[v]
    BY <1>5, <1>7, <2>1 DEF WorkersInv, RealCpuExclusive, SchedTypeOK
  <2>2. ~runningRealCpu'[w]
    BY <1>5 DEF SchedTypeOK
  <2>3. ~(\E u \in A \ {t} : RealCpu[u])
    BY <1>14 DEF WorkersInv, RealCpuExclusive
  <2> QED
    BY <1>6, <2>1, <2>2, <2>3 DEF RealCpuExclusive
<1>16. WithinCapacity'
  BY <1>1, <1>5, <1>9, <1>10 DEF WithinCapacity, WorkersInv, SchedTypeOK
<1>17. AssertionsHold'
  <2>1. Removable(w)
    BY <1>3, WorkersAreRemovable DEF WorkersInv
  <2>2. running[w] = 1 \/ ~runningRealCpu[w]
    BY DEF WorkersInv, RealCpuExclusive
  <2> QED
    BY <1>9, <1>10, <2>1, <2>2 DEF AssertionsHold, WorkersInv, DetachTask, Asserted
<1> QED
  BY <1>11, <1>12, <1>13, <1>15, <1>16, <1>17 DEF WorkersInv

-----------------------------------------------------------------------------
(***************************************************************************)
(* One lemma per group of actions.                                         *)
(***************************************************************************)
\* Every task in a queue is in the list of both types, unattached.
LEMMA AttachStep ==
    ASSUME SchedInv, scheduling,
           NEW t \in Tasks, NEW w \in workers, t \in both \cup waiting,
           ~runningRealCpu[w], running[w] < Concurrency[w],
           getAvailableRam(w) >= Ram[t],
           RealCpu[t] => CpuEnabled[w] /\ running[w] = 0,
           AttachTaskToWorker(t, w), UNCHANGED managerVars,
           \/ RemoveTaskFromQueues(t) /\ UNCHANGED waitVars /\ t \in both
           \/ /\ waiting' = waiting \ {t} /\ waitOrder' = Removed(waitOrder, t)
              /\ UNCHANGED taskQueues /\ t \in waiting
    PROVE  SchedInv'
<1>1. assigned[t] = None /\ t \in tasks
  BY DEF SchedInv, TaskPlacement
<1>2. WorkersInv'
  BY <1>1, AttachKeepsWorkers DEF SchedInv, WorkersInv
<1>3. /\ w \in Workers /\ w # None
      /\ tasks' = tasks /\ assigned' = [assigned EXCEPT ![t] = w]
      /\ jobs' = jobs \cup {<<t, w>>} /\ scheduling' = scheduling
  BY NoneAssumption DEF SchedInv, SchedTypeOK, AttachTaskToWorker
<1>4. SchedTypeOK'
  <2>0. /\ running[w] \in Nat /\ usedRam[w] \in Nat /\ TotalRam[w] \in Nat
        /\ Ram[t] \in Nat /\ RealCpu[t] \in BOOLEAN
    BY <1>3, TasksAssumption, WorkersAssumption DEF SchedInv, SchedTypeOK
  <2>1. /\ running[w] + 1 \in Nat /\ usedRam[w] + Ram[t] \in Nat /\ RealCpu[t] \in BOOLEAN
    BY <2>0
  <2>2. /\ workers' \subseteq Workers /\ running' \in [Workers -> Nat]
        /\ usedRam' \in [Workers -> Nat] /\ runningRealCpu' \in [Workers -> BOOLEAN]
    BY <2>1 DEF AttachTaskToWorker, UpdateWorker, SchedInv, SchedTypeOK
  <2>3. /\ anyCpuQueue' \subseteq [id : Workers, busy : BOOLEAN, ram : Nat]
        /\ vcpuOnlyQueue' \subseteq Workers
    <3>1. TotalRam[w] - (usedRam[w] + Ram[t]) \in Nat
      BY <2>0 DEF getAvailableRam
    <3>2. /\ AnyCpuEntry(w, running[w] + 1, usedRam[w] + Ram[t], RealCpu[t])
                \subseteq [id : Workers, busy : BOOLEAN, ram : Nat]
          /\ VcpuOnlyEntry(w, running[w] + 1, RealCpu[t]) \subseteq Workers
      <4>1. running[w] + 1 \in Int /\ usedRam[w] + Ram[t] \in Int
        BY <2>0
      <4> QED
        BY <1>3, <3>1, <4>1, EntryType
    <3>3. /\ anyCpuQueue \subseteq [id : Workers, busy : BOOLEAN, ram : Nat]
          /\ vcpuOnlyQueue \subseteq Workers
      BY DEF SchedInv, SchedTypeOK
    <3> QED
      BY <3>2, <3>3 DEF AttachTaskToWorker, UpdateWorker
  <2>4. /\ tasks' \subseteq Tasks /\ assigned' \in [Tasks -> Workers \cup {None}]
        /\ jobs' \subseteq Tasks \X Workers /\ scheduling' \in BOOLEAN
        /\ arrival' \subseteq Tasks \X Tasks
        /\ contestPriority' \in [Contests -> ContestPriorities \cup {None}]
    BY <1>3 DEF AttachTaskToWorker, SchedInv, SchedTypeOK
  <2>5. /\ virtualCpu' \subseteq Tasks /\ both' \subseteq Tasks /\ waiting' \subseteq Tasks
        /\ waitOrder' \subseteq Tasks \X Tasks
    BY DEF RemoveTaskFromQueues, waitVars, taskQueues, Removed, SchedInv, SchedTypeOK
  <2>6. registered' \subseteq Workers /\ minAnyCpuWorkerRam' \in Nat \cup {None}
    BY DEF managerVars, SchedInv, SchedTypeOK
  <2> QED
    BY <2>2, <2>3, <2>4, <2>5, <2>6 DEF SchedTypeOK
<1>5. TaskPlacement'
  BY <1>1, <1>3 DEF SchedInv, SchedTypeOK, TaskPlacement, RemoveTaskFromQueues,
                    waitVars, taskQueues
<1>6. JobsAreAttached'
  <2>1. \A j \in jobs : j[1] \in Tasks /\ j[2] \in Workers /\ assigned[j[1]] = j[2]
    BY DEF SchedInv, SchedTypeOK, JobsAreAttached
  <2>2. \A j \in jobs : j[1] # t
    BY <1>1, <2>1, NoneAssumption
  <2>3. assigned \in [Tasks -> Workers \cup {None}]
    BY DEF SchedInv, SchedTypeOK
  <2>4. \A j \in jobs' : assigned'[j[1]] = j[2]
    BY <1>3, <2>1, <2>2, <2>3
  <2> QED
    BY <1>3, <2>4 DEF JobsAreAttached
<1> QED
  BY <1>2, <1>4, <1>5, <1>6 DEF SchedInv, WorkersInv

\* Each association that _scheduleOnce makes.
LEMMA AssociationStep ==
    ASSUME SchedInv, NEW t \in Tasks, NEW w \in Workers,
           ScheduleVcpuOnly(t, w) \/ ScheduleWaiting(t, w) \/ ScheduleAnyCpu(t, w),
           UNCHANGED managerVars
    PROVE  SchedInv'
<1> USE WorkersAssumption, TasksAssumption
<1>0. SchedTypeOK /\ WorkerQueuesMatchCounters /\ WithinCapacity
  BY DEF SchedInv
<1>1. CASE ScheduleVcpuOnly(t, w)
  <2>1. w \in vcpuOnlyQueue /\ getAvailableRam(w) >= Ram[t]
    BY <1>1 DEF ScheduleVcpuOnly, BestVcpuOnly, BestForVirtualCpu, Viable
  <2>2. t \in both /\ ~RealCpu[t]
    BY <1>1 DEF ScheduleVcpuOnly, Draws, SchedInv, TaskPlacement
  <2>3. w \in workers /\ ~runningRealCpu[w] /\ running[w] < Concurrency[w]
    BY <1>0, <2>1, QueuedWorkersHaveRoom
  <2> QED
    BY <1>1, <2>1, <2>2, <2>3, AttachStep DEF ScheduleVcpuOnly
<1>2. CASE ScheduleWaiting(t, w)
  <2>1. w \in AnyCpuIds /\ running[w] = 0 /\ getAvailableRam(w) >= Ram[t]
    BY <1>2 DEF ScheduleWaiting, BestForRealCpu
  <2>2. w \in workers /\ ~runningRealCpu[w] /\ CpuEnabled[w] /\ running[w] < Concurrency[w]
    BY <1>0, <2>1, QueuedWorkersHaveRoom
  <2>3. t \in waiting
    BY <1>2 DEF ScheduleWaiting, WaitingHead
  <2> QED
    BY <1>2, <2>1, <2>2, <2>3, AttachStep DEF ScheduleWaiting
<1>3. CASE ScheduleAnyCpu(t, w)
  <2>1. /\ w \in AnyCpuIds /\ getAvailableRam(w) >= Ram[t]
        /\ RealCpu[t] => running[w] = 0
    BY <1>3 DEF ScheduleAnyCpu, BestForRealCpu, BestAnyCpu, BestForVirtualCpu, Viable
  <2>2. w \in workers /\ ~runningRealCpu[w] /\ CpuEnabled[w] /\ running[w] < Concurrency[w]
    BY <1>0, <2>1, QueuedWorkersHaveRoom
  <2>3. t \in both
    BY <1>3 DEF ScheduleAnyCpu, Draws
  <2> QED
    BY <1>3, <2>1, <2>2, <2>3, AttachStep DEF ScheduleAnyCpu
<1> QED
  BY <1>1, <1>2, <1>3

\* delTask, whichever of its three branches it takes.
LEMMA DelTaskStep ==
    ASSUME SchedInv, NEW t \in tasks, DelTask(t), UNCHANGED managerVars
    PROVE  SchedInv'
<1> USE TasksAssumption, WorkersAssumption
<1>1. /\ t \in Tasks /\ ~scheduling /\ jobs = {}
      /\ tasks' = tasks \ {t} /\ assigned' = [assigned EXCEPT ![t] = None]
      /\ scheduling' = scheduling /\ jobs' = jobs
      /\ assigned \in [Tasks -> Workers \cup {None}]
  BY DEF SchedInv, SchedTypeOK, DelTask, loopVars, JobsAreAttached
<1>2. /\ tasks' \subseteq Tasks /\ assigned' \in [Tasks -> Workers \cup {None}]
      /\ arrival' \subseteq Tasks \X Tasks /\ scheduling' \in BOOLEAN
      /\ jobs' \subseteq Tasks \X Workers
      /\ contestPriority' \in [Contests -> ContestPriorities \cup {None}]
      /\ registered' \subseteq Workers /\ minAnyCpuWorkerRam' \in Nat \cup {None}
  BY <1>1 DEF SchedInv, SchedTypeOK, DelTask, Removed, managerVars
<1>3. JobsAreAttached'
  BY <1>1 DEF JobsAreAttached
<1>4. CASE assigned[t] # None
  <2> DEFINE w == assigned[t]
  <2>1. w \in Workers
    BY <1>1, <1>4
  <2>2. DetachTask(t, w) /\ UNCHANGED <<taskQueues, waitVars>>
    BY <1>4 DEF DelTask
  <2>3. t \notin both /\ t \notin waiting
    BY <1>4 DEF SchedInv, TaskPlacement
  <2>4. WorkersInv' /\ running'[w] \in Nat /\ usedRam'[w] \in Nat
    BY <1>1, <2>1, <2>2, DetachKeepsWorkers DEF SchedInv, WorkersInv
  <2>5. /\ workers' \subseteq Workers /\ running' \in [Workers -> Nat]
        /\ usedRam' \in [Workers -> Nat] /\ runningRealCpu' \in [Workers -> BOOLEAN]
    BY <2>1, <2>2, <2>4 DEF DetachTask, UpdateWorker, SchedInv, SchedTypeOK
  <2>6. /\ anyCpuQueue' \subseteq [id : Workers, busy : BOOLEAN, ram : Nat]
        /\ vcpuOnlyQueue' \subseteq Workers
    <3>1. usedRam'[w] = usedRam[w] - Ram[t] /\ usedRam'[w] <= TotalRam[w]
      BY <2>1, <2>2, <2>4 DEF DetachTask, UpdateWorker, SchedInv, SchedTypeOK,
                              WorkersInv, WithinCapacity
    <3>a. running \in [Workers -> Nat] /\ TotalRam \in [Workers -> Nat \ {0}]
      BY DEF SchedInv, SchedTypeOK
    <3>0. TotalRam[w] \in Nat /\ running[w] \in Nat
      BY <2>1, <3>a
    <3>2. TotalRam[w] - (usedRam[w] - Ram[t]) \in Nat /\ usedRam[w] - Ram[t] \in Int
      BY <2>4, <3>0, <3>1
    <3>3. /\ AnyCpuEntry(w, running[w] - 1, usedRam[w] - Ram[t], FALSE)
                \subseteq [id : Workers, busy : BOOLEAN, ram : Nat]
          /\ VcpuOnlyEntry(w, running[w] - 1, FALSE) \subseteq Workers
      <4>1. running[w] - 1 \in Int
        BY <3>0
      <4> QED
        BY <2>1, <3>2, <4>1, EntryType
    <3>4. /\ anyCpuQueue \subseteq [id : Workers, busy : BOOLEAN, ram : Nat]
          /\ vcpuOnlyQueue \subseteq Workers
      BY DEF SchedInv, SchedTypeOK
    <3> QED
      BY <2>2, <3>3, <3>4 DEF DetachTask, UpdateWorker
  <2>7. /\ virtualCpu' \subseteq Tasks /\ both' \subseteq Tasks /\ waiting' \subseteq Tasks
        /\ waitOrder' \subseteq Tasks \X Tasks
    BY <2>2 DEF taskQueues, waitVars, SchedInv, SchedTypeOK
  <2>8. SchedTypeOK'
    BY <1>2, <2>5, <2>6, <2>7 DEF SchedTypeOK
  <2>9. TaskPlacement'
    BY <1>1, <1>4, <2>2, <2>3 DEF SchedInv, TaskPlacement, taskQueues, waitVars
  <2> QED
    BY <1>3, <2>4, <2>8, <2>9 DEF SchedInv, WorkersInv
<1>5. CASE assigned[t] = None
  <2>1. UNCHANGED <<workerVars, workerQueues>>
    BY <1>5 DEF DelTask
  <2>2. \A w \in Workers : Attached(w)' = Attached(w)
    BY <1>1, <1>5, NoneAssumption DEF Attached
  <2>3. failures' = {}
    BY <1>1, <1>5 DEF DelTask, Asserted, SchedInv, TaskPlacement, AssertionsHold
  <2>4. SchedTypeOK'
    BY <1>2, <1>5, <2>1 DEF SchedInv, SchedTypeOK, DelTask, RemoveTaskFromQueues, Removed,
                            taskQueues, waitVars, workerVars, workerQueues
  <2>5. TaskPlacement'
    BY <1>1, <1>5 DEF SchedInv, TaskPlacement, DelTask, RemoveTaskFromQueues,
                      taskQueues, waitVars
  <2>6. CountersMatchTasks'
    BY <2>1, <2>2 DEF SchedInv, CountersMatchTasks, RamUnits, workerVars
  <2>7. WorkerQueuesMatchCounters'
    BY <2>1 DEF SchedInv, WorkerQueuesMatchCounters, CurrentAnyCpuEntry, CurrentVcpuOnlyEntry,
                AnyCpuEntry, VcpuOnlyEntry, getQueueName, workerVars, workerQueues
  <2>8. RealCpuExclusive' /\ WithinCapacity'
    BY <2>1, <2>2 DEF SchedInv, RealCpuExclusive, WithinCapacity, workerVars
  <2> QED
    BY <1>3, <2>3, <2>4, <2>5, <2>6, <2>7, <2>8 DEF SchedInv, AssertionsHold
<1> QED
  BY <1>4, <1>5

\* min() of a non-empty set of naturals is one of them and no larger than any.
LEMMA LeastIsMember ==
    ASSUME NEW S \in SUBSET Nat, S # {}
    PROVE  Least(S) \in S /\ \A y \in S : Least(S) <= y
<1> DEFINE R == {p \in Nat \X Nat : p[1] < p[2]}
<1>0. IsWellFoundedOn(R, Nat)
  BY NatLessThanWellFounded DEF OpToRel
<1>1. \E x \in S : \A y \in S : ~(<<y, x>> \in R)
  BY <1>0, WFMin
<1>2. PICK x \in S : \A y \in S : ~(<<y, x>> \in R)
  BY <1>1
<1>3. \A y \in S : x <= y
  <2> SUFFICES ASSUME NEW y \in S PROVE x <= y
    OBVIOUS
  <2>1. x \in Nat /\ y \in Nat
    OBVIOUS
  <2>2. ~(<<y, x>> \in R)
    BY <1>2
  <2>3. ~(y < x)
    BY <2>1, <2>2
  <2> QED
    BY <2>1, <2>3
<1> QED
  BY <1>3 DEF Least

\* The manager's statistic is a number or None.
LEMMA MinAnyCpuRamType ==
    ASSUME NEW S \in SUBSET Workers
    PROVE  MinAnyCpuRam(S) \in Nat \cup {None}
<1> DEFINE rams == {TotalRam[w] : w \in {v \in S : CpuEnabled[v]}}
<1>1. rams \in SUBSET Nat
  BY WorkersAssumption
<1>2. rams # {} => Least(rams) \in Nat
  BY <1>1, LeastIsMember
<1> QED
  BY <1>2 DEF MinAnyCpuRam

\* Steps that leave the workers and the attached tasks alone.
LEMMA WorkersUntouched ==
    ASSUME SchedInv, UNCHANGED <<workerVars, workerQueues, assigned, failures>>
    PROVE  WorkersInv'
<1>1. \A w \in Workers : Attached(w)' = Attached(w)
  BY DEF Attached
<1>2. CountersMatchTasks'
  BY <1>1 DEF SchedInv, CountersMatchTasks, RamUnits, workerVars
<1>3. WorkerQueuesMatchCounters'
  BY DEF SchedInv, WorkerQueuesMatchCounters, CurrentAnyCpuEntry, CurrentVcpuOnlyEntry,
         AnyCpuEntry, VcpuOnlyEntry, getQueueName, workerVars, workerQueues
<1>4. RealCpuExclusive' /\ WithinCapacity' /\ AssertionsHold'
  BY <1>1 DEF SchedInv, RealCpuExclusive, WithinCapacity, AssertionsHold, workerVars
<1> QED
  BY <1>2, <1>3, <1>4 DEF WorkersInv

\* addTask of a task the scheduler does not know.
LEMMA AddTaskStep ==
    ASSUME SchedInv, NEW t \in Tasks, t \notin tasks,
           contestPriority[ContestOf[t]] # None, AddTask(t), UNCHANGED managerVars
    PROVE  SchedInv'
<1>1. t \notin both /\ t \notin waiting /\ assigned[t] = None
  BY DEF SchedInv, TaskPlacement
<1>2. assigned' = assigned
  BY <1>1 DEF AddTask, SchedInv, SchedTypeOK
<1>3. failures' = failures
  BY <1>1 DEF AddTask, Asserted
<1>4. WorkersInv'
  BY <1>2, <1>3, WorkersUntouched DEF AddTask
<1>5. SchedTypeOK'
  BY <1>2 DEF SchedInv, SchedTypeOK, AddTask, AddTaskToQueues, Appended, workerVars,
              workerQueues, waitVars, loopVars, managerVars
<1>6. TaskPlacement'
  BY <1>1, <1>2, TasksAssumption DEF SchedInv, SchedTypeOK, TaskPlacement, AddTask,
                                     AddTaskToQueues, waitVars
<1>7. JobsAreAttached'
  BY <1>2 DEF SchedInv, JobsAreAttached, AddTask, loopVars
<1> QED
  BY <1>4, <1>5, <1>6, <1>7 DEF SchedInv, WorkersInv

\* Reserving a worker moves a real-cpu task to the FIFO.
LEMMA ReserveStep ==
    ASSUME SchedInv, NEW t \in Tasks, Reserve(t), UNCHANGED managerVars
    PROVE  SchedInv'
<1>1. t \in both /\ RealCpu[t]
  BY DEF Reserve, Draws
<1>2. WorkersInv'
  BY WorkersUntouched DEF Reserve, taskVars
<1>3. SchedTypeOK'
  BY DEF SchedInv, SchedTypeOK, Reserve, RemoveTaskFromQueues, Appended, workerVars,
         workerQueues, taskVars, loopVars, managerVars
<1>4. TaskPlacement'
  BY <1>1 DEF SchedInv, SchedTypeOK, TaskPlacement, Reserve, RemoveTaskFromQueues, taskVars
<1>5. JobsAreAttached'
  BY DEF SchedInv, JobsAreAttached, Reserve, loopVars, taskVars
<1> QED
  BY <1>2, <1>3, <1>4, <1>5 DEF SchedInv, WorkersInv

\* The steps that touch neither workers nor tasks.
LEMMA OtherSteps ==
    ASSUME SchedInv,
           \/ /\ \/ \E c \in Contests, p \in ContestPriorities : UpdateContest(c, p)
                 \/ ScheduleCall
                 \/ ScheduleReturn
              /\ UNCHANGED managerVars
           \/ ManagerChanges
           \/ UNCHANGED schedVars
    PROVE  SchedInv'
<1>1. UNCHANGED <<workerVars, workerQueues, taskQueues, waitVars, taskVars, failures>>
  BY DEF UpdateContest, ScheduleCall, ScheduleReturn, ManagerChanges, schedVars
<1>2. WorkersInv'
  BY <1>1, WorkersUntouched DEF taskVars
<1>3. registered' \subseteq Workers /\ minAnyCpuWorkerRam' \in Nat \cup {None}
  BY MinAnyCpuRamType DEF ManagerChanges, managerVars, schedVars, SchedInv, SchedTypeOK
<1>4. /\ contestPriority' \in [Contests -> ContestPriorities \cup {None}]
      /\ scheduling' \in BOOLEAN /\ jobs' \subseteq Tasks \X Workers
      /\ jobs' \subseteq jobs /\ (~scheduling' => jobs' = {})
  BY DEF UpdateContest, ScheduleCall, ScheduleReturn, ManagerChanges, loopVars, schedVars,
         SchedInv, SchedTypeOK, JobsAreAttached
<1>5. SchedTypeOK'
  BY <1>1, <1>3, <1>4 DEF SchedInv, SchedTypeOK, workerVars, workerQueues, taskQueues,
                          waitVars, taskVars
<1>6. TaskPlacement'
  BY <1>1 DEF SchedInv, TaskPlacement, taskQueues, waitVars, taskVars
<1>7. JobsAreAttached'
  BY <1>1, <1>4 DEF SchedInv, JobsAreAttached, taskVars
<1> QED
  BY <1>2, <1>5, <1>6, <1>7 DEF SchedInv, WorkersInv

\* addWorker of a name that is registered and that the scheduler does not have.
LEMMA AddWorkerStep ==
    ASSUME SchedInv, NEW w \in registered \ workers, AddWorker(w), UNCHANGED managerVars
    PROVE  SchedInv'
<1> USE WorkersAssumption
<1>1. /\ w \in Workers /\ workers' = workers \cup {w}
      /\ running' = [running EXCEPT ![w] = 0]
      /\ usedRam' = [usedRam EXCEPT ![w] = 0]
      /\ runningRealCpu' = [runningRealCpu EXCEPT ![w] = FALSE]
      /\ assigned' = assigned /\ tasks' = tasks
      /\ failures' = failures
  BY DEF SchedInv, SchedTypeOK, AddWorker, taskVars, Asserted
<1>2. \A v \in Workers : Attached(v)' = Attached(v)
  BY <1>1 DEF Attached
<1>3. Attached(w) = {} /\ running[w] = 0 /\ usedRam[w] = Cardinality(RamUnits({}))
  BY <1>1, FS_EmptySet DEF SchedInv, CountersMatchTasks
<1>4. usedRam[w] = 0
  BY <1>3, FS_EmptySet DEF RamUnits
<1>5. ~runningRealCpu[w]
  BY <1>1, <1>3 DEF SchedInv, RealCpuExclusive
<1>6. running' = running /\ usedRam' = usedRam /\ runningRealCpu' = runningRealCpu
  BY <1>1, <1>3, <1>4, <1>5 DEF SchedInv, SchedTypeOK
<1>7. CountersMatchTasks'
  BY <1>1, <1>2, <1>6 DEF SchedInv, CountersMatchTasks, RamUnits
<1>8. WorkerQueuesMatchCounters'
  <2>1. \A v \in Workers : /\ CurrentAnyCpuEntry(v)' = CurrentAnyCpuEntry(v)
                           /\ CurrentVcpuOnlyEntry(v)' = CurrentVcpuOnlyEntry(v)
    BY <1>6 DEF CurrentAnyCpuEntry, CurrentVcpuOnlyEntry, AnyCpuEntry, VcpuOnlyEntry, getQueueName
  <2>2. /\ CurrentAnyCpuEntry(w) = AnyCpuEntry(w, 0, 0, FALSE)
        /\ CurrentVcpuOnlyEntry(w) = VcpuOnlyEntry(w, 0, FALSE)
    BY <1>3, <1>4, <1>5 DEF CurrentAnyCpuEntry, CurrentVcpuOnlyEntry, AnyCpuEntry,
                            VcpuOnlyEntry, getQueueName
  <2>3. /\ anyCpuQueue' = anyCpuQueue \cup CurrentAnyCpuEntry(w)'
        /\ vcpuOnlyQueue' = vcpuOnlyQueue \cup CurrentVcpuOnlyEntry(w)'
    BY <1>1, <2>1, <2>2 DEF AddWorker
  <2>4. workers \subseteq Workers
    BY DEF SchedInv, SchedTypeOK
  <2>5. anyCpuQueue' = UNION {CurrentAnyCpuEntry(v)' : v \in workers'}
    BY <1>1, <2>1, <2>3, <2>4 DEF SchedInv, WorkerQueuesMatchCounters
  <2>6. vcpuOnlyQueue' = UNION {CurrentVcpuOnlyEntry(v)' : v \in workers'}
    BY <1>1, <2>1, <2>3, <2>4 DEF SchedInv, WorkerQueuesMatchCounters
  <2> QED
    BY <2>5, <2>6 DEF WorkerQueuesMatchCounters
<1>9. RealCpuExclusive' /\ WithinCapacity' /\ AssertionsHold'
  BY <1>1, <1>2, <1>6 DEF SchedInv, RealCpuExclusive, WithinCapacity, AssertionsHold
<1>10. SchedTypeOK'
  <2>1. /\ AnyCpuEntry(w, 0, 0, FALSE) \subseteq [id : Workers, busy : BOOLEAN, ram : Nat]
        /\ VcpuOnlyEntry(w, 0, FALSE) \subseteq Workers
    <3>1. TotalRam[w] \in Nat
      BY <1>1
    <3>2. TotalRam[w] - 0 \in Nat
      BY <3>1
    <3>3. 0 \in Int /\ w \in Workers
      BY <1>1
    <3> QED
      BY ONLY <3>2, <3>3, EntryType
  <2> QED
    BY <1>1, <1>6, <2>1 DEF SchedInv, SchedTypeOK, AddWorker, taskQueues, waitVars, taskVars,
                            loopVars, managerVars
<1>11. TaskPlacement' /\ JobsAreAttached'
  BY <1>1 DEF SchedInv, TaskPlacement, JobsAreAttached, AddWorker, taskQueues, waitVars, loopVars
<1> QED
  BY <1>7, <1>8, <1>9, <1>10, <1>11 DEF SchedInv

\* delWorker of a worker with nothing attached.
LEMMA DelWorkerStep ==
    ASSUME SchedInv, NEW w \in workers, running[w] = 0, DelWorker(w), UNCHANGED managerVars
    PROVE  SchedInv'
<1>1. /\ w \in Workers /\ workers' = workers \ {w}
      /\ UNCHANGED <<running, usedRam, runningRealCpu, assigned, tasks>>
  BY DEF SchedInv, SchedTypeOK, DelWorker, taskVars
<1>2. \A v \in Workers : Attached(v)' = Attached(v)
  BY <1>1 DEF Attached
<1>3. Attached(w) = {}
  BY <1>1, AttachedIsFinite DEF SchedInv, CountersMatchTasks
<1>4. failures' = {}
  BY WorkersAreRemovable DEF SchedInv, AssertionsHold, DelWorker, Asserted
<1>5. CountersMatchTasks'
  BY <1>1, <1>2, <1>3 DEF SchedInv, CountersMatchTasks, RamUnits
<1>6. WorkerQueuesMatchCounters'
  <2>1. \A v \in Workers : /\ CurrentAnyCpuEntry(v)' = CurrentAnyCpuEntry(v)
                           /\ CurrentVcpuOnlyEntry(v)' = CurrentVcpuOnlyEntry(v)
    BY <1>1 DEF CurrentAnyCpuEntry, CurrentVcpuOnlyEntry, AnyCpuEntry, VcpuOnlyEntry, getQueueName
  <2>2. \A v \in workers : /\ \A e \in CurrentAnyCpuEntry(v) : e.id = v
                           /\ \A e \in CurrentVcpuOnlyEntry(v) : e = v
    BY DEF CurrentAnyCpuEntry, CurrentVcpuOnlyEntry, AnyCpuEntry, VcpuOnlyEntry
  <2>3. \A v \in workers \ {w} : /\ CurrentAnyCpuEntry(v) \cap CurrentAnyCpuEntry(w) = {}
                                 /\ CurrentVcpuOnlyEntry(v) \cap CurrentVcpuOnlyEntry(w) = {}
    BY <2>2
  <2>4. workers \subseteq Workers
    BY DEF SchedInv, SchedTypeOK
  <2>5. /\ anyCpuQueue' = anyCpuQueue \ CurrentAnyCpuEntry(w)
        /\ vcpuOnlyQueue' = vcpuOnlyQueue \ CurrentVcpuOnlyEntry(w)
    BY DEF DelWorker
  <2>6. anyCpuQueue' = UNION {CurrentAnyCpuEntry(v)' : v \in workers'}
    BY <1>1, <2>1, <2>3, <2>4, <2>5 DEF SchedInv, WorkerQueuesMatchCounters
  <2>7. vcpuOnlyQueue' = UNION {CurrentVcpuOnlyEntry(v)' : v \in workers'}
    BY <1>1, <2>1, <2>3, <2>4, <2>5 DEF SchedInv, WorkerQueuesMatchCounters
  <2> QED
    BY <2>6, <2>7 DEF WorkerQueuesMatchCounters
<1>7. RealCpuExclusive' /\ WithinCapacity' /\ AssertionsHold'
  BY <1>1, <1>2, <1>4 DEF SchedInv, RealCpuExclusive, WithinCapacity, AssertionsHold
<1>8. SchedTypeOK'
  BY <1>1 DEF SchedInv, SchedTypeOK, DelWorker, taskQueues, waitVars, taskVars,
              loopVars, managerVars
<1>9. TaskPlacement' /\ JobsAreAttached'
  BY <1>1 DEF SchedInv, TaskPlacement, JobsAreAttached, DelWorker, taskQueues, waitVars, loopVars
<1> QED
  BY <1>5, <1>6, <1>7, <1>8, <1>9 DEF SchedInv

-----------------------------------------------------------------------------
\* The initial state is consistent.
LEMMA SchedInitInv == SchedInit => SchedInv
<1> SUFFICES ASSUME SchedInit PROVE SchedInv
  OBVIOUS
<1> USE DEF SchedInit
<1>1. \A w \in Workers : Attached(w) = {}
  BY NoneAssumption DEF Attached
<1>2. Cardinality({}) = 0 /\ RamUnits({}) = {}
  BY FS_EmptySet DEF RamUnits
<1>3. SchedTypeOK
  BY DEF SchedTypeOK
<1>4. TaskPlacement /\ AssertionsHold /\ JobsAreAttached
  BY DEF TaskPlacement, AssertionsHold, JobsAreAttached
<1>5. CountersMatchTasks
  BY <1>1, <1>2 DEF CountersMatchTasks
<1>6. WorkerQueuesMatchCounters
  BY DEF WorkerQueuesMatchCounters
<1>7. RealCpuExclusive /\ WithinCapacity
  BY <1>1, WorkersAssumption DEF RealCpuExclusive, WithinCapacity
<1> QED
  BY <1>3, <1>4, <1>5, <1>6, <1>7 DEF SchedInv

\* Every step of the scheduler under its interface keeps it consistent.
LEMMA SchedNextInv == SchedInv /\ [SchedNext]_schedVars => SchedInv'
<1> SUFFICES ASSUME SchedInv, [SchedNext]_schedVars PROVE SchedInv'
  OBVIOUS
<1>1. CASE UNCHANGED schedVars \/ ManagerChanges
  BY <1>1, OtherSteps
<1>2. CASE Operation /\ UNCHANGED managerVars
  <2>1. CASE \E c \in Contests, p \in ContestPriorities : UpdateContest(c, p)
    BY <1>2, <2>1, OtherSteps
  <2>2. CASE \E t \in Tasks : /\ t \notin tasks /\ contestPriority[ContestOf[t]] # None
                             /\ AddTask(t)
    BY <1>2, <2>2, AddTaskStep
  <2>3. CASE \E t \in tasks : DelTask(t)
    BY <1>2, <2>3, DelTaskStep
  <2>4. CASE \E w \in registered \ workers : AddWorker(w)
    BY <1>2, <2>4, AddWorkerStep
  <2>5. CASE \E w \in workers : running[w] = 0 /\ DelWorker(w)
    BY <1>2, <2>5, DelWorkerStep
  <2>6. CASE ScheduleCall \/ ScheduleReturn
    BY <1>2, <2>6, OtherSteps
  <2>7. CASE ScheduleOnce
    BY <1>2, <2>7, AssociationStep, ReserveStep DEF ScheduleOnce
  <2> QED
    BY <1>2, <2>1, <2>2, <2>3, <2>4, <2>5, <2>6, <2>7 DEF Operation
<1> QED
  BY <1>1, <1>2 DEF SchedNext

\* With any client that keeps to the interface, in any order of operations,
\* the scheduler's state stays consistent.
THEOREM SchedulerConsistent == SchedSpec => []SchedInv
<1>1. SchedInit => SchedInv
  BY SchedInitInv
<1>2. SchedInv /\ [SchedNext]_schedVars => SchedInv'
  BY SchedNextInv
<1> QED
  BY <1>1, <1>2, PTL DEF SchedSpec

\* The state keeps its types.
THEOREM SchedulerTypes == SchedSpec => []SchedTypeOK
BY SchedulerConsistent, PTL DEF SchedInv

\* No assertion of WorkerInfo, TaskInfo or PrioritizingScheduler fails, and
\* no SortedSet.remove misses its element.
THEOREM SchedulerNeverAsserts == SchedSpec => []AssertionsHold
BY SchedulerConsistent, PTL DEF SchedInv

\* A real-cpu task is judged alone, on an any-cpu worker.
THEOREM RealCpuIsExclusive == SchedSpec => []RealCpuExclusive
BY SchedulerConsistent, PTL DEF SchedInv

\* Tasks are neither lost nor duplicated between the queues.
THEOREM TasksStayInOnePlace == SchedSpec => []TaskPlacement
BY SchedulerConsistent, PTL DEF SchedInv

\* The counters of a worker match the tasks attached to it.
THEOREM CountersMatch == SchedSpec => []CountersMatchTasks
BY SchedulerConsistent, PTL DEF SchedInv

\* The queues sorted by the counters hold each worker under its current key.
THEOREM WorkerQueuesMatch == SchedSpec => []WorkerQueuesMatchCounters
BY SchedulerConsistent, PTL DEF SchedInv

\* No worker is given more tasks than it has slots, or more RAM than it has.
THEOREM CapacityIsRespected == SchedSpec => []WithinCapacity
BY SchedulerConsistent, PTL DEF SchedInv

-----------------------------------------------------------------------------
(***************************************************************************)
(* The order in which tasks leave.  The two FIFOs rest on one more         *)
(* invariant: the arrival order holds tasks the scheduler knows and never  *)
(* puts two of them each before the other, although a retried task is      *)
(* taken out of it and enters it again.                                    *)
(***************************************************************************)
OrderInv ==
    /\ arrival \subseteq tasks \X tasks
    /\ \A t, u \in tasks : <<t, u>> \in arrival => <<u, t>> \notin arrival

LEMMA OrderInitInv == SchedInit => OrderInv
BY DEF SchedInit, OrderInv

\* What schedule() and the operations that are not about tasks do to the order:
\* nothing.
LEMMA OrderUntouched ==
    ASSUME [SchedNext]_schedVars,
           ~ \E t \in Tasks : t \notin tasks /\ AddTask(t),
           ~ \E t \in tasks : DelTask(t)
    PROVE  UNCHANGED <<tasks, arrival>>
<1>1. CASE UNCHANGED schedVars \/ ManagerChanges
  BY <1>1 DEF schedVars, ManagerChanges, taskVars
<1>2. CASE ScheduleOnce
  BY <1>2 DEF ScheduleOnce, ScheduleVcpuOnly, ScheduleWaiting, ScheduleAnyCpu, Reserve,
              AttachTaskToWorker, taskVars
<1>3. CASE ScheduleCall \/ ScheduleReturn \/ \E c \in Contests, p \in ContestPriorities : UpdateContest(c, p)
  BY <1>3 DEF ScheduleCall, ScheduleReturn, UpdateContest, taskVars
<1>4. CASE \/ \E w \in registered \ workers : AddWorker(w)
           \/ \E w \in workers : running[w] = 0 /\ DelWorker(w)
  BY <1>4 DEF AddWorker, DelWorker, taskVars
<1> QED
  BY <1>1, <1>2, <1>3, <1>4 DEF SchedNext, Operation

LEMMA OrderNextInv == OrderInv /\ [SchedNext]_schedVars => OrderInv'
<1> SUFFICES ASSUME OrderInv, [SchedNext]_schedVars PROVE OrderInv'
  OBVIOUS
<1>1. ASSUME NEW t \in Tasks, t \notin tasks, AddTask(t) PROVE OrderInv'
  <2>1. tasks' = tasks \cup {t} /\ arrival' = arrival \cup (tasks \X {t})
    BY <1>1 DEF AddTask, Appended
  <2> QED
    BY <1>1, <2>1 DEF OrderInv
<1>2. ASSUME NEW t \in tasks, DelTask(t) PROVE OrderInv'
  <2>1. tasks' = tasks \ {t} /\ arrival' = {p \in arrival : p[1] # t /\ p[2] # t}
    BY <1>2 DEF DelTask, Removed
  <2> QED
    BY <2>1 DEF OrderInv
<1>3. ASSUME UNCHANGED <<tasks, arrival>> PROVE OrderInv'
  BY <1>3 DEF OrderInv
<1> QED
  BY <1>1, <1>2, <1>3, OrderUntouched

\* Tasks of one contest, priority and kind are taken out of the queues by
\* schedule() in the order in which they arrived.
THEOREM TasksLeaveInArrivalOrder == SchedSpec => ArrivalOrder
<1>1. OrderInv /\ SchedInv /\ [SchedNext]_schedVars =>
          [\A t, u \in both :
              /\ t \notin both' /\ t \in tasks' /\ u \in both'
              /\ ContestOf[u] = ContestOf[t] /\ Priority[u] = Priority[t]
              /\ RealCpu[u] = RealCpu[t]
              => <<u, t>> \notin arrival]_schedVars
  <2> SUFFICES ASSUME OrderInv, SchedInv, SchedNext,
                      NEW t \in both, NEW u \in both,
                      t \notin both', t \in tasks', u \in both', u # t,
                      ContestOf[u] = ContestOf[t], Priority[u] = Priority[t],
                      RealCpu[u] = RealCpu[t]
               PROVE  <<u, t>> \notin arrival
    OBVIOUS
  <2>1. t \in Tasks /\ u \in Tasks /\ t \in tasks /\ u \in tasks /\ Priority[t] \in Int
    BY TasksAssumption DEF SchedInv, SchedTypeOK, TaskPlacement
  <2>2. ASSUME NEW queue, t \in Draws(queue), u \in queue PROVE <<u, t>> \notin arrival
    <3>1. <<t, u>> \in arrival
      BY <2>1, <2>2 DEF Draws
    <3> QED
      BY <2>1, <3>1 DEF OrderInv
  <2>3. ASSUME NEW v \in Tasks, RemoveTaskFromQueues(v) PROVE v = t
    BY <2>3 DEF RemoveTaskFromQueues
  <2>4. CASE ScheduleOnce
    <3>1. ASSUME NEW v \in Tasks, NEW w \in Workers, ScheduleVcpuOnly(v, w)
          PROVE  <<u, t>> \notin arrival
      <4>1. v = t /\ t \in Draws(virtualCpu)
        BY <2>3, <3>1 DEF ScheduleVcpuOnly
      <4>2. ~RealCpu[t]
        BY <4>1 DEF Draws, SchedInv, TaskPlacement
      <4>3. u \in virtualCpu
        BY <4>2 DEF SchedInv, TaskPlacement
      <4> QED
        BY <2>2, <4>1, <4>3
    <3>2. ASSUME NEW v \in Tasks, NEW w \in Workers, ScheduleAnyCpu(v, w)
          PROVE  <<u, t>> \notin arrival
      BY <2>2, <2>3, <3>2 DEF ScheduleAnyCpu
    <3>3. ASSUME NEW v \in Tasks, Reserve(v) PROVE <<u, t>> \notin arrival
      BY <2>2, <2>3, <3>3 DEF Reserve
    <3>4. ASSUME NEW v \in Tasks, NEW w \in Workers, ScheduleWaiting(v, w) PROVE FALSE
      BY <3>4 DEF ScheduleWaiting, taskQueues
    <3> QED
      BY <2>4, <3>1, <3>2, <3>3, <3>4 DEF ScheduleOnce
  <2>5. ASSUME NEW v \in tasks, DelTask(v) PROVE FALSE
    BY <2>1, <2>5 DEF DelTask, RemoveTaskFromQueues, taskQueues
  <2>6. ASSUME NEW v \in Tasks, AddTask(v) PROVE FALSE
    BY <2>6 DEF AddTask, AddTaskToQueues
  <2>7. ASSUME UNCHANGED taskQueues PROVE FALSE
    BY <2>7 DEF taskQueues
  <2> QED
    BY <2>4, <2>5, <2>6, <2>7 DEF SchedNext, Operation, ManagerChanges, ScheduleCall,
       ScheduleReturn, UpdateContest, AddWorker, DelWorker
<1> QED
  BY <1>1, OrderInitInv, OrderNextInv, SchedulerConsistent, PTL DEF SchedSpec, ArrivalOrder
=============================================================================
