---------------------------- MODULE WorkerProcess -----------------------------
(***************************************************************************)
(* Worker processes (protocol/worker.py) and what the daemon knows of them *)
(* (runOnWorker and workerLost in workermanager.py), composed with the     *)
(* registration of their connections.  A connection carries calls and      *)
(* replies in order; either end can lose it first, and                     *)
(* ReconnectingClientFactory makes another one, so that the daemon can     *)
(* have two connections of one worker, of which the worker knows one.      *)
(* Here each name is the name of one worker process.                       *)
(*                                                                         *)
(* WorkerProtocol.running belongs to one connection, but the threads that  *)
(* execute the jobs belong to the machine: "remote tasks can not be        *)
(* cancelled and will keep executing even if connection is dropped".       *)
(*                                                                         *)
(* Operators called Wrong... are faulty variants of the definition that    *)
(* follows them, used only by the sensitivity checks.                      *)
(***************************************************************************)
EXTENDS WorkerRegistration, Integers, FiniteSets, Sequences

CONSTANTS
    Tasks,              \* task ids
    JobType,            \* [Tasks -> JobTypes]
    Concurrency,        \* slots of a worker
    MaxLate,            \* bound on the calls of a closing connection that the
                        \* worker has not dealt with
    MaxOrphans          \* bound on the orphans of a worker

JobTypes == {"cpu-exec", "cpu-interactive-exec", "other"}

ASSUME ProcessAssumption ==
    /\ JobType \in [Tasks -> JobTypes]
    /\ Concurrency \in Nat \ {0}
    /\ MaxLate \in Nat /\ MaxOrphans \in Nat

VARIABLES
    \* The daemon.
    tasks,          \* [Connections -> SUBSET Tasks]: tasks of the Worker that was
                    \* made for the connection
    cpuExec,        \* connections whose Worker has is_running_cpu_exec
    busyErrors,     \* tasks that failed in the daemon because cmd_run refused
    \* The connections.
    toWorker,       \* [Connections -> Seq(Tasks)]: calls on their way
    toDaemon,       \* [Connections -> Seq([task, refused])]: replies on their way
    \* The workers.
    connected,      \* connections whose end at the worker is open
    running,        \* [Connections -> SUBSET Tasks]: WorkerProtocol.running, and
                    \* the jobs the worker executes for the connection
    orphans         \* [Names -> Nat]: jobs it executes for connections it lost

managerVars == <<tasks, cpuExec, busyErrors>>
channelVars == <<toWorker, toDaemon>>
machineVars == <<connected, running, orphans>>
processVars == <<regVars, managerVars, channelVars, machineVars>>

Exclusive(t) == JobType[t] \in {"cpu-exec", "cpu-interactive-exec"}

-----------------------------------------------------------------------------
\* ReconnectingClientFactory builds a WorkerProtocol whose `running' is empty.
Connect(c) ==
    /\ \A d \in connected : NameOf[d] # NameOf[c]
    /\ ConnectionMade(c)
    /\ connected' = connected \cup {c}
    /\ running' = [running EXCEPT ![c] = {}]
    /\ toWorker' = [toWorker EXCEPT ![c] = <<>>]
    /\ toDaemon' = [toDaemon EXCEPT ![c] = <<>>]
    /\ UNCHANGED <<managerVars, orphans>>

\* get_running answered []: newWorker makes a Worker without tasks.
Register(c) ==
    /\ running[c] = {}
    /\ Accept(c)
    /\ tasks' = [tasks EXCEPT ![c] = {}]
    /\ cpuExec' = cpuExec \ {c}
    /\ UNCHANGED <<busyErrors, channelVars, machineVars>>

\* The other ends of newWorker touch neither tasks nor workers.
Handshake(c) ==
    /\ Hello(c) \/ Reject(c) \/ GetRunningFails(c) \/ LateReply(c)
    /\ UNCHANGED <<managerVars, channelVars, machineVars>>

\* Keeps the tasks of the worker.
WrongLoseConnection(c) ==
    /\ ConnectionLost(c)
    /\ UNCHANGED <<managerVars, channelVars, machineVars>>

\* The daemon's connectionLost.  workerLost fails the tasks of the Worker that is
\* registered for the name, which are retried on this worker or another.
LoseConnection(c) ==
    /\ ConnectionLost(c)
    /\ LET lost == {d \in Connections : proto[NameOf[d]] = d /\ proto'[NameOf[d]] = None}
       IN  /\ tasks' = [d \in Connections |-> IF d \in lost THEN {} ELSE tasks[d]]
           /\ cpuExec' = cpuExec \ lost
    /\ toDaemon' = [toDaemon EXCEPT ![c] = <<>>]
    /\ UNCHANGED <<busyErrors, toWorker, machineVars>>

-----------------------------------------------------------------------------
\* The scheduler has one place for a task, and gives it to a worker again only on
\* a new connection.
Unseen(t, c) ==
    /\ \A d \in Connections : t \notin tasks[d]
    /\ t \notin running[c]
    /\ \A i \in DOMAIN toWorker[c] : toWorker[c][i] # t
    /\ \A i \in DOMAIN toDaemon[c] : toDaemon[c][i].task # t

\* Calls of a connection that the worker or the daemon has not dealt with.
Unsettled(c) == Len(toWorker[c]) + Cardinality(running[c]) + Len(toDaemon[c])

\* runOnWorker once its checks are passed.  What is written after
\* loseConnection() may still be sent before the transport closes; what is written
\* to a worker that has lost the connection goes nowhere.
Send(t, c) ==
    /\ tasks' = [tasks EXCEPT ![c] = @ \cup {t}]
    /\ cpuExec' = IF Exclusive(t) THEN cpuExec \cup {c} ELSE cpuExec
    /\ \/ /\ c \in connected
          /\ c \in closing => Unsettled(c) < MaxLate
          /\ toWorker' = [toWorker EXCEPT ![c] = Append(@, t)]
       \/ (c \in closing \/ c \notin connected) /\ UNCHANGED toWorker
    /\ UNCHANGED <<regVars, busyErrors, toDaemon, machineVars>>

\* Sends an exclusive job to a busy worker.
WrongRunOnWorker(t, c) ==
    /\ proto[NameOf[c]] = c /\ Unseen(t, c)
    /\ c \notin cpuExec /\ Cardinality(tasks[c]) < Concurrency
    /\ Send(t, c)

\* runOnWorker, for a task that passes its checks.
RunOnWorker(t, c) ==
    /\ proto[NameOf[c]] = c /\ Unseen(t, c)
    /\ c \notin cpuExec /\ Cardinality(tasks[c]) < Concurrency
    /\ Exclusive(t) => tasks[c] = {}
    /\ Send(t, c)

\* runOnWorker._free.
Free(t, c) ==
    /\ tasks' = [tasks EXCEPT ![c] = @ \ {t}]
    /\ cpuExec' = cpuExec \ {c}

\* The daemon reads the connection and there is a reply; a transport that is closing
\* is not read.
Readable(c) == phase[c] = "accepted" /\ c \notin closing /\ toDaemon[c] # <<>>

\* The daemon receives a reply.
Reply(c) ==
    /\ Readable(c)
    /\ toDaemon' = [toDaemon EXCEPT ![c] = Tail(@)]
    /\ LET reply == Head(toDaemon[c])
       IN  /\ reply.task \in tasks[c]
           /\ Free(reply.task, c)
           /\ busyErrors' = IF reply.refused THEN busyErrors \cup {reply.task}
                            ELSE busyErrors
    /\ UNCHANGED <<regVars, toWorker, machineVars>>

\* The daemon receives the reply of a task that it has given up: workerLost ended
\* the task when another connection of the name was lost.  The Deferred raises
\* AlreadyCalledError, which stringReceived passes on and the reactor answers by
\* dropping the connection; or, if the timer of the call ran out too, the call is
\* unknown, a ProtocolError.
UnclaimedReply(c) ==
    /\ Readable(c)
    /\ Head(toDaemon[c]).task \notin tasks[c]
    /\ \/ LoseConnection(c)
       \/ /\ CallTimesOut(c)
          /\ toDaemon' = [toDaemon EXCEPT ![c] = Tail(@)]
          /\ UNCHANGED <<managerVars, toWorker, machineVars>>

\* TASK_TIMEOUT: "TODO kill the task on the worker".
Timeout(t, c) ==
    /\ t \in tasks[c]
    /\ CallTimesOut(c)
    /\ Free(t, c)
    /\ UNCHANGED <<busyErrors, channelVars, machineVars>>

-----------------------------------------------------------------------------
\* cmd_run raises RuntimeError.
Refused(t, c) ==
    \/ JobType[t] = "cpu-exec" /\ running[c] # {}
    \/ \E u \in running[c] : JobType[u] = "cpu-exec"

\* What the worker writes reaches a daemon that has the connection.
Respond(c, t, refused) ==
    toDaemon' = IF phase[c] = "closed" THEN toDaemon
                ELSE [toDaemon EXCEPT ![c] = Append(@, [task |-> t, refused |-> refused])]

\* The worker handles a run call.
CmdRun(c) ==
    /\ c \in connected /\ toWorker[c] # <<>>
    /\ toWorker' = [toWorker EXCEPT ![c] = Tail(@)]
    /\ LET t == Head(toWorker[c])
       IN  \/ /\ Refused(t, c)
              /\ Respond(c, t, TRUE)
              /\ UNCHANGED running
           \/ /\ ~Refused(t, c)
              /\ running' = [running EXCEPT ![c] = @ \cup {t}]
              /\ UNCHANGED toDaemon
    /\ UNCHANGED <<regVars, managerVars, connected, orphans>>

\* Does not take the job out of `running'.
WrongThreadDone(t, c) ==
    /\ c \in connected /\ t \in running[c]
    /\ Respond(c, t, FALSE)
    /\ UNCHANGED <<running, regVars, managerVars, toWorker, connected, orphans>>

\* The thread of a job ends: _done, then the reply.
ThreadDone(t, c) ==
    /\ c \in connected /\ t \in running[c]
    /\ running' = [running EXCEPT ![c] = @ \ {t}]
    /\ Respond(c, t, FALSE)
    /\ UNCHANGED <<regVars, managerVars, toWorker, connected, orphans>>

\* The worker's connectionLost; its threads go on.
WorkerLosesConnection(c) ==
    /\ c \in connected
    /\ orphans[NameOf[c]] + Cardinality(running[c]) <= MaxOrphans
    /\ connected' = connected \ {c}
    /\ orphans' = [orphans EXCEPT ![NameOf[c]] = @ + Cardinality(running[c])]
    /\ running' = [running EXCEPT ![c] = {}]
    /\ toWorker' = [toWorker EXCEPT ![c] = <<>>]
    /\ UNCHANGED <<regVars, managerVars, toDaemon>>

\* An orphan ends; its reply goes nowhere.
OrphanDone(n) ==
    /\ orphans[n] > 0
    /\ orphans' = [orphans EXCEPT ![n] = @ - 1]
    /\ UNCHANGED <<regVars, managerVars, channelVars, connected, running>>

-----------------------------------------------------------------------------
ProcessInit ==
    /\ RegInit
    /\ tasks = [c \in Connections |-> {}]
    /\ cpuExec = {} /\ busyErrors = {}
    /\ toWorker = [c \in Connections |-> <<>>]
    /\ toDaemon = [c \in Connections |-> <<>>]
    /\ connected = {}
    /\ running = [c \in Connections |-> {}]
    /\ orphans = [n \in Names |-> 0]

ProcessNext ==
    \/ \E c \in Connections :
          \/ Connect(c) \/ Handshake(c) \/ Register(c) \/ LoseConnection(c)
          \/ Reply(c) \/ UnclaimedReply(c) \/ CmdRun(c) \/ WorkerLosesConnection(c)
    \/ \E t \in Tasks, c \in Connections :
          RunOnWorker(t, c) \/ Timeout(t, c) \/ ThreadDone(t, c)
    \/ \E n \in Names : OrphanDone(n)

ProcessSpec == ProcessInit /\ [][ProcessNext]_processVars

-----------------------------------------------------------------------------
(***************************************************************************)
(* Correctness.                                                            *)
(***************************************************************************)
\* No task fails because its worker was busy: cmd_run refuses a job only when the
\* daemon has already given up the connection, and never reads the refusal.
NeverRefused == busyErrors = {}

\* While both ends use a connection, each task the daemon counts is in exactly one
\* of the places the other end gives it: on its way, executing, or answered; and
\* the worker executes nothing for it that the daemon does not count.
EndsAgree ==
    \A c \in connected \ closing :
        phase[c] = "accepted" /\ NameOf[c] \notin clashed =>
            /\ tasks[c] = {toWorker[c][i] : i \in DOMAIN toWorker[c]} \cup running[c]
                           \cup {toDaemon[c][i].task : i \in DOMAIN toDaemon[c]}
            /\ Cardinality(tasks[c]) = Unsettled(c)

\* A task that the daemon waits for is on the connection that is registered for its
\* worker, so that the loss of this connection ends it (connectionLost cancels its
\* timer, and nothing but workerLost ends it then).  After a clash of names a task
\* can be left on a connection that is gone, and its group never ends.
PendingIsRegistered ==
    \A c \in Connections :
        tasks[c] # {} /\ NameOf[c] \notin clashed => proto[NameOf[c]] = c

\* A cpu-exec or cpu-interactive-exec job executes alone on its machine, as long as
\* no job of an earlier connection is left and no call of this one has timed out.
ExclusiveWhileConnected ==
    \A c \in connected \ closing :
        phase[c] = "accepted" /\ orphans[NameOf[c]] = 0 =>
            \A t \in running[c] : Exclusive(t) => running[c] = {t}
=============================================================================
