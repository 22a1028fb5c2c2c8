# A TLA+ verification of sioworkers

sioworkers judges programming contests. A daemon, `sioworkersd`, accepts groups
of jobs over XML-RPC, schedules them on worker machines that connect to it over
TCP, and posts the results back; a worker runs each job in a thread, with tools
from "sandboxes" (directories of unpacked software that all worker processes of
a machine share). This directory holds models of the parts in which concurrency,
failure or a long history of calls decide whether the system is right, the TLC
configurations that check them, and TLAPS proofs of every safety property,
for any number of workers, tasks, connections, processes and calls.

Run `tlc -config X.cfg M` for the runs of `PROJECT.json`, and `tlapm` on the
modules called ...Proofs for the proofs.

## 1. Inventory

| Component | Source | State | Operations | What is hard | What makes it correct |
|---|---|---|---|---|---|
| Scheduler | `sioworkersd/scheduler/prioritizing.py` | WorkerInfo counters, two sorted worker queues, per-contest task queues, FIFO of reserved real-cpu tasks | add/del worker, add/del task, updateContest, schedule | redundant views that must move together, sort keys that change, starvation | no assertion fails, counters match tasks, real-cpu tasks alone, order of service, reserved tasks served |
| Task manager | `sioworkersd/taskmanager.py` | inProgress, group Deferreds | addTaskGroup, _tryExecute, _taskDone, retries on WorkerGone | re-entrant handlers, wake-ups | groups end, nothing stays queued next to free workers |
| Job database, returning results | same file | Berkeley DB, retry counters | update, delete, sync, startService, returnToSio | crashes between unsynced writes, retries | accepted groups survive and are settled |
| Worker manager | `sioworkersd/workermanager.py` | workers, workerData, deferreds, cached RAM statistics | newWorker, workerLost, runOnWorker | a yield inside newWorker, keyed by name | agrees with the scheduler, registered means connected |
| Worker server | `sioworkersd/server.py` | connections by address, ignore_set | connect, established, disconnect | duplicates, rejected workers | ignore_set only has open connections |
| RPC | `protocol/rpc.py` | state, pendingCalls, timers | call, receive, reply, timeout, loss | timer against late reply, calls around the handshake | a call ends once, ends stay in step |
| Worker process | `protocol/worker.py` | running, threads | cmd_run, cmd_get_running, reconnect | threads outlive connections | never refuses, exclusive jobs alone |
| XML-RPC front end | `sioworkersd/siorpc.py` | - | run_group, sync_run_group, queries | - | - |
| Sandboxes | `workers/sandbox.py` | directory, marker files, flock, per-process counter | enter, exit, check, install | two kinds of locks, lock upgrades, killed processes | users see whole directories, no deadlock |
| Executors | `workers/executors.py`, `file_runners.py` | entered sandboxes, a subprocess, its kill timer, ret_env | enter, exit, execute | lock order, the timer's thread against the end of the process | result matches what happened |
| Interactive jobs | `executors/interactive_common.py` | threads, pipes, one environ for all threads | start, join, verdict | descriptors in several processes, mutual waits, a race on the environ | the end of one side reaches the other, the job ends, the verdict has a basis |
| Job runner, ft, util | `workers/runner.py`, `ft.py`, `util.py` | thread-local directories and client | run, upload, download | - | - |
| Other execution jobs, compilers | `executors/`, `compilers/` | - | sequential pipelines | - | - |
| Plugins | `twisted/plugins/` | - | wiring | - | - |

The daemon is one reactor thread. The front end calls the task manager, which
calls the scheduler and `runOnWorker`; the worker manager calls back into the task
manager when workers come and go, and the scheduler reads the worker manager's
cached statistics. Daemon and worker talk through RPC. Sandboxes are shared by
all processes of one machine through files only.

The hazards, each at its line, are listed in `PROJECT.json`.

## 2. Modules

`Wrong...` operators in the modules are faulty variants of the definition after
them. No specification uses them; substituting one for the original must make
the property named with it in `PROJECT.json` fail, which is how each property is
known to be sensitive to the code it is about.

**BlockedWorkers** is `_getNumberOfBlockedAnyCpuWorkers` as a function of RAM
sizes. The two-pointer loop is a recursive function.

**PrioritizingScheduler** is the scheduler with any client that keeps to its
interface. One operation of `scheduler/__init__.py` is one action, except
`schedule()`, whose loop is one step for each iteration of `_scheduleOnce`
(`ScheduleVcpuOnly`, `ScheduleWaiting`, `ScheduleAnyCpu`, `Reserve`,
`ScheduleReturn`). Any-cpu queue entries carry the sort key they were inserted
with, so that a key that changed in place is a missing element as in SortedSet.
An assertion that fails, or a KeyError, puts its label into `failures`. Sequence
numbers and FIFO positions are order relations; contest weights are abstracted to
a draw among the contests of highest priority (`Draws`). RAM is a number of units:
the code's floats are multiples of 1/1024, on which its sums are exact.

**Sioworkersd** extends it with the task manager and the worker manager. A
handler of the reactor runs to its end before another starts, but each call it
makes to the scheduler is a step, and `handler` is its program counter; all
handlers' trailing `_tryExecute` calls are part of them. A worker that is lost
fails its tasks one by one, each of which is deleted and added again, before the
statistics are recomputed, as in `workerLost`.

**TaskService** is what the daemon promises, without queues, managers, connections
and handlers: an accepted group is answered once, when each of its tasks has ended;
a task is with one worker at a time, goes to a worker again only after it was lost
there, and a worker is never given more than it can take. `Sioworkersd` instantiates
it (`Service == INSTANCE TaskService WITH ...`): a group is pending from its first
`addTask` until the group's Deferred fires, a task is at the worker whose manager
entry has it (`At`), and its result is the outcome its Deferred fired with.

**ResultStore** is one asynchronous group across crashes: `db` is what the
process sees, `disk` what a crash leaves; `update(sync=True)` copies everything,
unsynced pages may be written at any time. Judging is one step here.

**WorkerRegistration** has connections with names, split where newWorker yields.
`clashed` is a history variable: the names of which two handshakes were under way at
once. `sched` is the scheduler's `workers` dict; `leftover` has the names of which the
worker queues keep a WorkerInfo that the dict no longer has: when two such handshakes
are both accepted, the second addWorker replaces the entry in the dict and leaves the
first WorkerInfo in its queue, and delWorker takes only the second one out. schedule()
can then hand a task to a name that is gone, which is why Sioworkersd, whose NewWorker
checks and registers in one step, is about names that do not clash.

**WorkerProcess** composes it with runOnWorker, the calls and replies on each
connection and the worker's side. Every step conjoins a registration step, or leaves
the registration alone. Either end can lose a connection first, so the daemon can
have two connections of one worker; the threads belong to the machine, and those of
a lost connection are its orphans. A reply to a call whose task the connection no
longer has (`UnclaimedReply`: workerLost ended it when another connection of the name
was lost) closes the connection, by an AlreadyCalledError or, when the call has timed
out, as a reply to an unknown call.

**WorkerRPC** has both ends of a connection, with calls before and after the
handshake, timers and losses. An end that is closing may go on handling what it had
read, as NetstringReceiver does with the rest of a chunk, but nothing makes it.

**Sandbox** has threads of several processes entering sandboxes through the
process-wide `local_lock` and counter and the machine-wide flock. flock is
modelled as Linux documents it: a conversion first gives the old lock up. The
installation is removal (in two steps, since a kill in between matters),
extraction (two steps), `.fixups_applied`, `.fixups_operative`, marking. A process can
be killed anywhere.
On Python 3 the stored hash (bytes) never equals the expected one (str), so a
check that gets an answer always asks for an installation; the model does so too,
and needs no versions. The docstring of `_get` speaks of a `.lock` file inside
the directory; the code's lock file is next to it, which is what is modelled.

**ExecuteCommand** is one command: Popen, closing of descriptors, the timer with its
thread (expire, set `real_time_killed`, killpg, as three steps that interleave with
the end of the process and with cancel()), and what `DetailedUnprotectedExecutor` and
the supervised executors make of it. Outcomes are classes (`zero`, `slow`, `sigpipe`,
`error`, `lost`, `killed`); MLE, OLE and RV are under RE.

**Interactive** composes as many of them as an interactive job has programs, with
the pipes between them. For each command `holders` says who has its pipe ends open:
the worker from os.pipe() until the thread closes them, the process until it ends or
closes them (`Shuts`; a process is the shell and whatever it starts). What flows through
the pipes is left open, and so is how a program ends: by SIGPIPE too, whoever holds the
other side. The time limit of the interactor is `interactor_time_limit` of the environ or
twice that of the solution. The key that
`_download_extra_execution_files` sets and deletes in the shared environ takes three
steps, so that two threads can interfere. The verdict is `_fill_result`, in its order.

**...Proofs** modules hold the proofs; **MC...** modules only give values to
constants (MCStarvation also restricts the environment, MCBlockedWorkers is a
driver for a function).

## 3. Runs

| Run | Shows | Bounds |
|---|---|---|
| scheduler | the scheduler's views agree, no assertion fails, capacity and exclusiveness hold, tasks of a contest are taken in order | 3 workers (one vcpu-only, two any-cpu of different RAM), 4 tasks (2 real-cpu, one of which fits one worker), 2 contests; statistics may lag |
| daemon | nothing "impossible" is raised, both managers agree between handlers, the statistics are fresh when read, no wake-up is missed; an any-cpu worker is given to a task without a reservation only if the others suffice for the reserved tasks (`ReservationsProtected`); the daemon implements TaskService (`ImplementsService`), and every step is a step of the scheduler's interface (`SchedSpec`): two refinements | as above, two groups of two |
| daemon_liveness | groups are answered and a reserved task is served with one any-cpu worker | 2 workers, 3 groups |
| starvation | *violation*: with two any-cpu workers a reserved task waits forever | 2 workers, 5 tasks |
| blocked_workers | the number of blocked workers is the docstring's minimum | all lists of up to 3 tasks and 4 workers of 3 sizes |
| results | accepted groups survive crashes, are pursued, deleted when finished and, when judged and answered, settled in the end | 3 groups (one rejected), 1 retry, 2 crashes |
| restart | *violation*: a record without timestamp stops startService | 2 groups |
| worker_process | the registered connection is live and accepted, accepted workers stay registered, a task the daemon waits for is on a registered connection, both ends agree, no job is refused, exclusive jobs are alone | one worker with 2 connections, both at the daemon at once; 4 jobs, 2 slots, at most 3 calls not dealt with on a closing connection, 2 orphans; symmetry of connections and of the two ordinary jobs |
| rpc | calls end once, and end; replies are expected; only a timeout can close the connection for a protocol error | 2 calls of each end |
| sandbox | an installer is alone, users see whole directories, no deadlock, with one order of entering | 2 processes, 3 threads, 2 sandboxes, 1 kill |
| sandbox_deadlock | *violation*: both orders of CompoundSandboxExecutor deadlock | as above, no kill |
| interactive | the end of a process reaches its peers, descriptors come back, the worker takes no pipe end from a command, a killed process is reported as such, a verdict has a basis, the job ends | interactor and one or two processes of the solution, 5 jobs: all kinds of executors, limits given, missing and switched off, with and without extra files |

The bounds are the least at which the interesting cases occur: two real-cpu tasks
make a FIFO, two any-cpu workers of different RAM make blocking count more
workers than tasks, two tasks in a group make partial failure, two crashes allow
a crash during recovery, two connections of a name overlap, two threads in one
process share a file lock that a third competes for, two connections of one worker
leave one that the worker has forgotten, two processes of a solution race on the
environ and close different pipes of one interactor. On a closing connection the
daemon may go on sending (its timers free the slots again); MaxLate = 3 is more than
the slots, so that the worker sees calls it must refuse.

### Violations

* **starvation**. Blocking compares the number of any-cpu workers with the number
  the reserved tasks need, but keeps virtual-cpu tasks off no particular worker.
  Two busy workers can take turns: there is always one that is not blocked, and
  it is never the one that becomes idle. The docstring promises protection.
* **restart**. A rejected group is not saved, but a failed return of its error
  creates a record with only `retry_cnt`; `startService` sorts by `timestamp`.
* **sandbox_deadlock**. `__init__` enters chroot, then tool; `__enter__` the
  reverse. Each holds one shared lock while it waits for the other exclusively.

### Conditions in properties

Some properties carry a condition that the code needs and does not enforce.
`AcceptedIsRegistered`, `PendingIsRegistered` and `EndsAgree` assume that connections
of one name do not overlap in the handshake (the name is not in `clashed`): newWorker checks the name before its yield and registers after it, so
two that overlap are both registered, and the loss of either unregisters the name
(workerLost is keyed by name). A task on the other one is then left for good: its
timer goes with the connection, and only workerLost ends it. `ExclusiveWhileConnected` assumes that no thread of
an earlier connection is left: a new connection answers get_running with an empty
list whatever the machine still executes. `CallsEnd` is about calls that are
pending: a call made before the handshake whose timer fires before it is over
has lost its timer. `RegisteredIsConnected` holds for all names, but excepts clashed
ones from the claim that the worker queues have nothing of a worker that is gone
(`leftover`). `UsersSeeWhole` excepts three kinds of
sandboxes: those whose removal was interrupted, since rmtree may leave
`.fixups_applied`; those whose installation broke off between `.fixups_applied` and
`.fixups_operative`, which pass the check while has_fixup raises; and those whose
installation failed while another process was
converting its exclusive lock into a shared one, since flock gives the lock up in
between and `_get` does not check again. `ArrivalOrder` is about arrival at
the scheduler: a task retried after its worker was lost arrives anew.
`OwedIsSettled` is relative to what the daemon cannot bring about (`Attended`): the
judging of the group ends, its return_url answers or fails each POST, and the daemon is
up again and again. Judging need not end (*starvation*), `do_return` sets no timeout
for an answer, and a restart may fail (*restart*).
`DescriptorsReturned` excepts the pipe ends of commands that were never started:
only execute_command closes them, after Popen. `KilledIsReported` says that what
was killed is reported so, and not the converse: a timer that expires after the
process has ended and before cancel() still sets `real_time_killed`.
`VerdictHasABasis` asks for SE only when the process that could not be started is the
only one of the solution; otherwise the verdict is that of the first one that failed.
`InteractionEnds` is about jobs whose limits are not 0: `exec_real_time_limit` 0 means
no timer.

## 4. Fairness

* Sioworkersd: weak fairness of the handler the reactor is in (it runs to its
  end); strong fairness of the end of each call (RPC timers, TASK_TIMEOUT), of
  closing a connection after loseConnection, and of reconnecting
  (ReconnectingClientFactory). The reactor serves each event that stays pending,
  however many others come in between. Losing workers is never forced, and the
  liveness properties assume that it stops.
* ResultStore: weak fairness of the timer of a retry, which the reactor fires. None for
  judging, for the end of a POST or for restarting: `OwedIsSettled` has them as a
  hypothesis. Crashes are bounded by `MaxCrashes`.
* WorkerRPC: weak fairness of delivery to ends that are not closing, of timers, and of the loss of connections that
  are closing or whose peer is gone. None for the peer's method: it may run forever.
* Interactive: weak fairness of each thread of the worker and of each timer. None for
  the programs: they may compute, read or write for ever, until they are killed.
* The other specifications state safety only.

## 5. Proofs

`SchedulerProofs` proves, for any finite sets of workers and tasks and any RAM,
concurrency and priorities that satisfy the ASSUMEs of PrioritizingScheduler,

    SchedSpec => []SchedInv

and from it the type invariant, `AssertionsHold`, `RealCpuExclusive`,
`TaskPlacement`, `CountersMatchTasks`, `WorkerQueuesMatchCounters` and
`WithinCapacity`, and the action property `ArrivalOrder` (with `OrderInv`: `arrival`
never puts two tasks each before the other). The
assumptions are the code's own: positive concurrency and RAM (asserted by
WorkerInfo), task priorities that are integers (asserted by TaskInfo).

None of the conjuncts of `SchedInv` is inductive alone. detachTask's assertions
need the counters to be those of the attached tasks; the counters need a task to
be attached at most once, hence the placement; capacity needs what the worker
queues offer to be up to date, hence the queues; and the type invariant (counters
are natural numbers) needs all of them.

The argument: RAM in use is the cardinality of a set of units
(`RamUnits`), so that it changes by exactly one task's requirement
(`RamUnitsAdd`, `RamUnitsRemove`) without a recursive sum.
`UpdateWorkerKeepsQueues` shows that removing the old entry before the counters
change and inserting the new one after it keeps the queues right.
`AttachKeepsWorkers` and `DetachKeepsWorkers` are the two ways counters change,
`AttachStep`, `DelTaskStep`, `ReserveStep`, `AddTaskStep`, `AddWorkerStep`,
`DelWorkerStep`, `OtherSteps` the operations, and `SchedNextInv` puts them together.

`DaemonProofs` proves `Spec => []DaemonInv` of Sioworkersd, for any number of workers,
tasks, contests and groups, and from it both refinements of the daemon and its four
invariants. `ManagersAgree` says nothing while a handler runs, so it cannot be shown by
itself: `DaemonInv` says for each place the reactor thread can be in (`handler`) by how
much the scheduler, the worker manager and the task manager differ there. schedule()
is ahead of the worker manager by the jobs it has not returned (`LoadsAgree`); the
worker manager has one worker more while a worker is added, one less while one is lost,
and the statistics are stale only while the tasks of a lost worker are being failed
(`WorkersAgree`); the task manager has one task more while a task is retried
(`TasksAgree`); each task in progress has a group that waits for it (`GroupsInv`).

* `Spec => SchedSpec` (`ImplementsScheduler`): every call a handler makes satisfies the
  guard of the scheduler's operation. `SchedInv` is therefore an invariant of the daemon,
  and the proof uses it.
* `Spec => Service!ServiceSpec` (`DaemonImplementsService`): one lemma for each step says
  which step of TaskService it is, or that it is a stutter. What needs an argument is
  that `At`, which chooses the worker whose entry has the task, has one to choose
  (`LoadFacts`), that a group is collected when its last member fires, and that workers
  have room for what they are given (`WithinCapacity` and `LoadsAgree`).

The assumptions are that groups have disjoint members of one contest, which
the identifiers that `siorpc` draws (uuid4) give, and that None is no group, task or outcome.

`StoreProofs` proves `StoreSpec => []StoreInv` for any set of groups and any number
of retries and crashes, and from it `AcceptedIsDurable`, `FinishedIsDeleted` and
`OwedIsPursued`. It assumes only that Python's None is no status and no record.
Durability is not inductive by itself: a sync makes the disk what the
process sees, so that has to be whole as well (`OwedIsRecorded`); a group that is
judged must have a record to update, since `DBWrapper.update` would otherwise create
a partial one (`FinishedIsDeleted`, and `RejectedIsNotRecorded`, which says that the
groups without a record are never judged); and a record that is resumed must have
a count (`CountsAreKnown`, `RetriesAreCounted`). `OneRecordStep` is the common part
of the steps that change the record of one group; each action has its lemma.

Its last section delimits the violation that *restart* shows. `RestartResumes` is false
because `_updateCount` can create a record of a group that was never saved;
`OnlyRejectedSpoils` says that startService raises over nothing else,
`RestartResumesUnlessRejected` that `RestartResumes` holds when no group is rejected, and
`FailureIsPermanent` that a daemon whose startService failed once is never up again: the
record stays. The invariant is `SpoilInv`: records without a status belong to
rejected groups (which rests on `FinishedIsDeleted`: a group whose result is being
returned by a daemon that is up has a whole record); a process that failed to start
judges nothing and returns only the errors of rejected groups; and the record it failed
over is on the disk, seen by the process, and has no work that could remove it (`Poisoned`).
`FailureIsPermanent` uses that identifiers are not drawn twice (uuid4), which the guards
of RunGroup and RejectGroup say.

`BlockedProofs` proves `BlockedIsMinimal` for any RAM sizes and any number of tasks and
workers (MCBlockedWorkers, assuming only that sizes are natural numbers and that the cached
minimum of no workers is none), and then what the number is for. It needs induction over data, which the library's
theorems cannot be used for; `InductiveSet` states induction for a set of numbers
(everything outside it would have a least element) and is applied to sets such as the
lengths for which a list can be sorted or the loop has a result. The argument:

* `SortedSizes` is the list of sizes of an enumeration that sorts the set (`SortExists`,
  `SortedSizesIs`), and the recursive
  function of `GreedyIndex` is the one that satisfies the equations of the loop (`Loop`,
  `LoopExists`, `GreedyIndexIs`): the k-th task takes the first worker after the one its
  predecessor took that has the RAM for it, or all workers are used up.
* The result is not too large. If any N workers suffice, so do the N smallest (`FirstN`).
  If these can process the tasks in any way, they can also with larger tasks on workers
  further up (`Rearranged`), and the loop never goes further up than such an assignment
  (`LoopStaysBehind`).
* It is not too small. Where the loop ends before the last worker, every task took a
  worker of its own (`LoopTakes`), and any set of as many workers as the loop went
  through suffices, since its k-th worker is no smaller than the k-th of all
  (`TakenIsEnough`).
* The early exit for tasks that fit everywhere returns their number, which is then the
  least one (`SmallTasksNeedTheirNumber`). `BlockedIsLeast` puts the cases together.

`ReservationsAlwaysProtected` is the consequence for the daemon, an action property: a
task that has no reservation is given to an any-cpu worker only if the other workers of
the any-cpu queue have the RAM to process all reserved tasks at the same time. It is a
theorem of Sioworkersd and not of the scheduler alone: the number is computed from the
worker manager's cached statistics, which are right where schedule() runs because of
`DaemonInv`. The property is about total RAM, as the code's number is: it does not say that
those workers become idle, and *starvation* shows that they need not.

`RegistrationProofs` proves `RegSpec => []RegInv` for any sets of connections and
names, and that the composition implements the registration,
`ProcessSpec => RegSpec`, so that the invariant holds there too; from both follow
`RegisteredIsConnected` and `AcceptedIsRegistered` of the composition, and
`PendingIsRegistered` with one more invariant (what a connection's Worker counts).
`AcceptedIsRegistered` needs to know that a name with no clash has at most one
connection between its check and its registration, and none when the name is taken
(`UndecidedIsAlone`); this is what the history variable is for.

Its second part goes on from there to what the two ends of a connection think of each
other: `ProcessSpec => []ProcessInv`, and from it `NeverRefused`, `EndsAgree` and
`ExclusiveWhileConnected`, for any number of workers, connections, tasks and slots. The
daemon decides by its own count of a worker's tasks, the worker by `running`, and calls
and replies are under way in between. So the invariant follows each call: it is on its
way, executing or answered, one at a time (`OnePlace`); on a connection the daemon reads,
an exclusive call is the only one and no reply is a refusal, and on the registered one
the daemon counts at least all that is under way, and exactly that while the worker is
connected (`UsedInv`). `NeverRefused` needs no hypothesis on names; a refusal can only
come on a connection that the daemon is closing, and there nobody reads it.

`RPCProofs` proves, for any number of calls from both ends, `FiresOnce`,
`ClosedOnlyAfterTimeout` and `RepliesAreExpected`. For the first: replies and timers take
the call out of pendingCalls when they fire its Deferred; what is left to show is that no
identifier is ever put back. `PlacesInv` says where an identifier is: not used yet,
waiting for `ready`, pending, or gone, and that its Deferred has not fired in the
first three. The other two follow a call through the peer (`ProtocolInv`): it is a
message, being executed or a reply, one of them at a time and once, and its caller has it
pending or let it time out (`OpenInv`); a pending call has a timer (`TimerInv`); hello is
all there is before the server is established, and hello_ack the first that the client
reads (`HandshakeInv`). `ClosesOverLateReplies` says more than the run's invariant: the
message that closes a connection is a reply to a call that timed out, and no other.

`SandboxProofs` proves `SandboxSpec => []SandboxInv` for any number of processes, threads,
sandboxes and deaths, with any orders of entering, and from it `InstallerIsAlone` and
`UsersSeeWhole`. The invariant says that `local_lock` names the one thread of the process
in `_get` (`LocalInv`), that `_in_context` is the number of entries its threads have made
and not left (`CountInv`, a cardinality of a set of slots), which flock the process has as a
consequence (`LockInv`), and what the directory holds by its marker and by who installs
(`ContentInv`). `UsersSeeWhole` is not inductive without the last: a thread that comes
in trusts `.fixups_applied`.

`OneOrderNeverDeadlocks` is `NoDeadlock` under the hypothesis `OneOrder`: the sandboxes
have ranks that rise along every order in which threads enter them. In a set of threads
that all wait for each other take the one with the greatest `Progress` (the rank of the
sandbox it waits for, then whether it is in `_get`): whom it waits for holds that sandbox
or its local lock, so is further on. Without the hypothesis the property is false, which
is what *sandbox_deadlock* shows; CompoundSandboxExecutor has no such ranks.

`InteractiveProofs` proves `InteractiveSpec => []InteractiveInv` for any number of
processes of the solution and any set of jobs, and from it the five invariants of the
run. For each command the invariant ties where its thread is to whether its process
exists (`ThreadMatchesProcess`), who has its pipe ends (`HoldersMatch`), whether its
timer has fired (`FlagBeforeKill`) and what its renv may be (`ReportMatches`).
`EndReachesPeer` and `EndsStayOpen`, which are each other's counterpart (no copy of an
end too many, none too few), rest on `HoldersMatch`; `KilledIsReported` on the order of oot_killer's two statements;
`VerdictHasABasis` on `ReportMatches` and on the order of the tests in `_fill_result`.
`Framed` is the common part of the steps of one command while the job runs. The
assumptions are that commands are numbered from 0 and that None is no result.

`DaemonInv`, `ProcessInv`, `ProtocolInv` and `SandboxInv` were checked by TLC on the
instances of the runs before they were proved.

Only model-checked:

* liveness (`GroupsAnswered`, `RealCpuServed`, `OwedIsSettled`, `CallsEnd`,
  `InteractionEnds`): fairness and ENABLED are out of the prover's reach.

## 6. Not modelled

The body of POSTs, JSON and netstrings; contest weights; the three cached
statistics that are only displayed; synchronous groups after a crash (the client
sees the connection go); a worker that announces no concurrency or RAM; command
lines, memory and output limits; the MAX_LENGTH of a netstring; downloads that never
end; descendants of a shell that outlive it; PRootExecutor; compilers and the jobs that run one
program after another in one thread; the filetracker; ELF patching;
`get_required_ram_for_job` (a constant of the models).

Interactive jobs enter and leave the executor of the solution before they start
their threads, so their programs run in sandboxes that are not locked; `Sandbox` has
only uses that stay inside the with statement. The composition of the two is left out.

## 7. Plan

Done: the modules above, in that order, and the proofs of section 5.

1. Model next: an interactive job inside Sandbox (the lock is given up before the
   programs start); the lock and the thread-local client of `ft.py` with the job
   runner; the names that clash while tasks run, composed with Sioworkersd, to see
   which groups are lost.
2. Prove next: for the models of 1, what they will check.
