----------------------------- MODULE Interactive ------------------------------
(***************************************************************************)
(* One interactive job (sio/executors/interactive_common.py): an           *)
(* interactor and one or more processes of the solution, each executed by  *)
(* a thread of its own, joined by two pipes per process of the solution.   *)
(*                                                                         *)
(* The ends of the pipes that belong to a command are open in the worker   *)
(* from os.pipe() until the command's thread closes them, and in each      *)
(* process that got them, until it closes them or ends.  A process is the  *)
(* shell of a command with all it starts.  What a program does is left     *)
(* open: it may read, write or compute, close its ends of the pipes, and   *)
(* end in any way and at any time, by SIGPIPE too, which _fill_result sees *)
(* only as a signal.                                                       *)
(***************************************************************************)
EXTENDS ExecuteCommand

CONSTANTS
    MaxProcesses,   \* bound on num_processes
    Jobs            \* the jobs that are tried

Interactor == 0
Worker == -1

Job == [num : 1..MaxProcesses,      \* num_processes
        executor : Executors,       \* the executor of the solution
        extra : BOOLEAN,            \* there are extra_execution_files
        execTimeLimit : Nat \ {0},  \* exec_time_limit
        execReal : Nat \cup {None},         \* exec_real_time_limit
        interactorTime : Nat \cup {None},   \* interactor_time_limit
        interactorReal : Nat \cup {None}]   \* interactor_real_time_limit

ASSUME InteractiveAssumption ==
    /\ MaxProcesses \in Nat \ {0}
    /\ Commands = 0..MaxProcesses
    /\ Jobs \subseteq Job
    /\ None \notin Nat

VARIABLES
    job,        \* the environ
    holders,    \* [Commands -> who has the command's ends of the pipes open]
    shut,       \* commands whose process runs and has closed its own ends
    extraKey,   \* '_extra_execution_file' is in the environ all threads share
    out,        \* the first line of the interactor's output
    result      \* "none", "running", the result of _run, or "raised"

jobVars == <<job, holders, shut, extraKey, out, result>>
interactiveVars == <<commandVars, jobVars>>

Active == 0..job.num
Solutions == 1..job.num

ExecutorOf(c) == IF c = Interactor THEN "detailed" ELSE job.executor

\* Twice the limit of the solution, unless the environ has one for the interactor.
InteractorTimeLimit ==
    IF job.interactorTime = None THEN 2 * job.execTimeLimit ELSE job.interactorTime

Limit(c) == IF c = Interactor
            THEN RealTimeLimit(ExecutorOf(c), InteractorTimeLimit, job.interactorReal)
            ELSE RealTimeLimit(ExecutorOf(c), job.execTimeLimit, job.execReal)

\* Whom a command writes to.
Peers(c) == IF c = Interactor THEN Solutions ELSE {Interactor}

-----------------------------------------------------------------------------
\* _run up to the start of the threads: downloads, pipes, wrappers.
StartThreads ==
    /\ result = "none"
    /\ holders' = [c \in Commands |-> IF c \in Active THEN {Worker} ELSE {}]
    /\ thread' = [c \in Commands |-> IF c \notin Active THEN "none"
                                     ELSE IF c = Interactor \/ ~job.extra THEN "ready"
                                     ELSE "check"]
    /\ result' = "running"
    /\ UNCHANGED <<process, timer, killed, value, job, shut, extraKey, out>>

\* Something raises once the pipes are there, or before.
SetupFails ==
    /\ result = "none"
    /\ holders' \in {holders, [c \in Commands |-> IF c \in Active THEN {Worker} ELSE {}]}
    /\ result' = "raised"
    /\ UNCHANGED <<commandVars, job, shut, extraKey, out>>

\* _download_extra_execution_files: the assertion ...
CheckKey(c) ==
    /\ thread[c] = "check"
    /\ Goto(c, IF extraKey THEN "raised" ELSE "set")
    /\ UNCHANGED <<process, timer, killed, value, jobVars>>

\* ... the key ...
SetKey(c) ==
    /\ thread[c] = "set"
    /\ extraKey' = TRUE
    /\ Goto(c, "download")
    /\ UNCHANGED <<process, timer, killed, value, job, holders, shut, out, result>>

\* ... the download and `del', a KeyError when another thread has deleted it.
DelKey(c) ==
    /\ thread[c] = "download"
    /\ extraKey' = FALSE
    /\ Goto(c, IF extraKey THEN "ready" ELSE "raised")
    /\ UNCHANGED <<process, timer, killed, value, job, holders, shut, out, result>>

DownloadFails(c) ==
    /\ thread[c] = "download"
    /\ Goto(c, "raised")
    /\ UNCHANGED <<process, timer, killed, value, jobVars>>

\* Without close_fds the process gets whatever is open in the worker.
WrongStart(c) ==
    /\ Popen(c)
    /\ holders' = [d \in Commands |-> IF Worker \in holders[d] THEN holders[d] \cup {c}
                                      ELSE holders[d]]
    /\ UNCHANGED <<job, shut, extraKey, out, result>>

\* Popen with pass_fds, or with the ends as stdin and stdout; close_fds keeps the
\* others out of the process.
Start(c) ==
    /\ Popen(c)
    /\ holders' = [holders EXCEPT ![c] = @ \cup {c}]
    /\ UNCHANGED <<job, shut, extraKey, out, result>>

StartFails(c) ==
    /\ PopenFails(c, ExecutorOf(c))
    /\ UNCHANGED jobVars

\* Each thread closes both sides of its pipes.
WrongCloseAndArm(c) ==
    /\ Arm(c, Limit(c))
    /\ holders' = [d \in Commands |-> IF d \in {c} \cup Peers(c)
                                      THEN holders[d] \ {Worker} ELSE holders[d]]
    /\ UNCHANGED <<job, shut, extraKey, out, result>>

\* The solution's thread leaves its ends open.
WrongLeavesOpen(c) ==
    /\ Arm(c, Limit(c))
    /\ holders' = [holders EXCEPT ![c] = IF c = Interactor THEN @ \ {Worker} ELSE @]
    /\ UNCHANGED <<job, shut, extraKey, out, result>>

\* fds_to_close, and the timer.
CloseAndArm(c) ==
    /\ Arm(c, Limit(c))
    /\ holders' = [holders EXCEPT ![c] = @ \ {Worker}]
    /\ UNCHANGED <<job, shut, extraKey, out, result>>

Finish(c) == Wait(c, ExecutorOf(c)) /\ UNCHANGED jobVars

-----------------------------------------------------------------------------
\* The processes.  The program closes its ends of the pipes and goes on.
Shuts(c) ==
    /\ process[c] = "running" /\ c \in holders[c]
    /\ holders' = [holders EXCEPT ![c] = @ \ {c}]
    /\ shut' = shut \cup {c}
    /\ UNCHANGED <<commandVars, job, extraKey, out, result>>

\* What the end of a process does to descriptors.
Close(c) ==
    /\ holders' = [d \in Commands |-> holders[d] \ {c}]
    /\ shut' = shut \ {c}

Exits(c) ==
    /\ \E how \in ByItself : Exit(c, how)
    /\ Close(c)
    /\ UNCHANGED <<job, extraKey, out, result>>

Announce(line) ==
    /\ process[Interactor] = "running" /\ out = ""
    /\ out' = line
    /\ UNCHANGED <<commandVars, job, holders, shut, extraKey, result>>

Tick(c) ==
    /\ TimerStep(c)
    /\ IF process'[c] # process[c] THEN Close(c) ELSE UNCHANGED <<holders, shut>>
    /\ UNCHANGED <<job, extraKey, out, result>>

-----------------------------------------------------------------------------
\* The renv of the solution: the first one that is not OK, or the first one.
SolutionRenv ==
    LET failed == {s \in Solutions : value[s].code # "OK"}
        first == IF failed = {} THEN 1 ELSE CHOOSE s \in failed : \A u \in failed : s <= u
    IN  value[first]

Failed(renv) == renv.code # "OK" /\ ~renv.sigpipe
Faulty(irenv) == irenv.code \notin {"OK", "TLE"} /\ ~irenv.sigpipe

\* Blames the solution whenever it failed.
WrongFillResult ==
    IF out # "" THEN {out}
    ELSE IF Failed(SolutionRenv) THEN {SolutionRenv.code}
    ELSE IF Faulty(value[Interactor]) THEN {"raised"}
    ELSE IF value[Interactor].sigpipe THEN {"premature"}
    ELSE IF Interactor \in killed THEN {"TLE"} ELSE {"raised"}

\* _fill_result.  A percentage that output_to_fraction does not understand is a
\* CheckerError.
FillResult ==
    IF out # "" THEN {out} \cup (IF out = "OK" THEN {"raised"} ELSE {})
    ELSE IF Faulty(value[Interactor]) THEN {"raised"}
    ELSE IF Failed(SolutionRenv) THEN {SolutionRenv.code}
    ELSE IF value[Interactor].sigpipe THEN {"premature"}
    ELSE IF Interactor \in killed THEN {"TLE"} ELSE {"raised"}

\* All threads are joined; what one of them raised is raised again.
Judge ==
    /\ result = "running"
    /\ \A c \in Active : thread[c] \in {"done", "raised"}
    /\ result' \in IF \E c \in Active : thread[c] = "raised" THEN {"raised"}
                   ELSE FillResult
    /\ UNCHANGED <<commandVars, job, holders, shut, extraKey, out>>

-----------------------------------------------------------------------------
InteractiveInit ==
    /\ job \in Jobs
    /\ thread = [c \in Commands |-> "none"]
    /\ process = [c \in Commands |-> "none"]
    /\ timer = [c \in Commands |-> "off"]
    /\ killed = {}
    /\ value = [c \in Commands |-> None]
    /\ holders = [c \in Commands |-> {}]
    /\ shut = {} /\ extraKey = FALSE /\ out = "" /\ result = "none"

ThreadStep(c) ==
    \/ CheckKey(c) \/ SetKey(c) \/ DelKey(c) \/ DownloadFails(c)
    \/ Start(c) \/ StartFails(c) \/ CloseAndArm(c) \/ Finish(c)

InteractiveNext ==
    \/ StartThreads \/ SetupFails \/ Judge
    \/ \E c \in Active : ThreadStep(c) \/ Tick(c) \/ Exits(c) \/ Shuts(c)
    \/ \E line \in {"OK", "WA"} : Announce(line)

InteractiveSpec == InteractiveInit /\ [][InteractiveNext]_interactiveVars

(***************************************************************************)
(* Fairness: the threads of the worker run and its timers expire.  The     *)
(* programs may do anything, or nothing, for as long as they are left      *)
(* alone.                                                                  *)
(***************************************************************************)
FairInteractiveSpec ==
    /\ InteractiveSpec
    /\ WF_interactiveVars(StartThreads \/ SetupFails \/ Judge)
    /\ \A c \in Commands : WF_interactiveVars(c \in Active /\ ThreadStep(c))
    /\ \A c \in Commands : WF_interactiveVars(c \in Active /\ Tick(c))

-----------------------------------------------------------------------------
(***************************************************************************)
(* Correctness.                                                            *)
(***************************************************************************)
Over == result \notin {"none", "running"}
Raised == result = "raised"
FailedToStart(c) == thread[c] \in {"raised", "done"} /\ process[c] = "none"

\* Types of the job's state.
InteractiveTypeOK ==
    /\ job \in Jobs
    /\ thread \in [Commands -> {"none", "check", "set", "download", "ready",
                                "started", "waiting", "done", "raised"}]
    /\ process \in [Commands -> {"none", "running"} \cup Ended]
    /\ timer \in [Commands -> TimerStates]
    /\ killed \subseteq Commands
    /\ value \in [Commands -> Renv \cup {None}]
    /\ holders \in [Commands -> SUBSET (Commands \cup {Worker})]
    /\ shut \subseteq Commands
    /\ extraKey \in BOOLEAN
    /\ out \in {"", "OK", "WA"}
    /\ result \in {"none", "running", "raised", "OK", "WA", "premature", "TLE", "RE", "SE"}

\* When a process has ended and its thread is past the closing of its descriptors,
\* nobody has its ends of the pipes any more: the other side reads end of file or
\* gets SIGPIPE, and does not wait for its time limit.
EndReachesPeer ==
    \A c \in Active : process[c] \in Ended /\ thread[c] # "started" => holders[c] = {}

\* Once the job is over no process has an end of a pipe, and the worker has none
\* either, except those of a command that could not be started, or all of them when
\* no command was: these stay open in the worker for good.
DescriptorsReturned ==
    Over => \A c \in Active :
        /\ holders[c] \subseteq {Worker}
        /\ holders[c] # {} => thread[c] = "none" \/ FailedToStart(c)

\* The worker takes no end of a pipe away from a command: as long as the job has its
\* threads, nobody has the ends of a command only when its process was started and has
\* ended or closed them itself.  So a peer that reads end of file or gets SIGPIPE, which
\* _fill_result turns into "solution exited prematurely" or into nobody's fault, has
\* met the doing of a program, and not a descriptor closed before the fork it was for.
EndsStayOpen ==
    \A c \in Active : thread[c] # "none" /\ holders[c] = {} =>
        process[c] \in Ended \/ c \in shut

\* A process that the timer killed is reported as such, TLE or the SE of a supervised
\* executor, and never as a crash or a good run; and what is reported as too slow was too slow or met
\* its timer: the flag is in ret_env before the signal can end the process.
KilledIsReported ==
    \A c \in Active :
        /\ process[c] = "killed" =>
               thread[c] # "raised" /\ (value[c] # None => value[c].code \in {"TLE", "SE"})
        /\ value[c] # None =>
               (value[c].code = "TLE" => process[c] = "slow" \/ c \in killed)

\* A verdict has a basis.  All processes ran, or a supervised one could not be
\* started; when it is the only one, the verdict is SE or what the interactor
\* printed.  And when the interactor crashed and printed nothing, within its time
\* limit and not of SIGPIPE, there is no verdict, whatever the processes of the
\* solution did.
VerdictHasABasis ==
    Over /\ ~Raised =>
        /\ \A c \in Active : FailedToStart(c) =>
               /\ ExecutorOf(c) # "detailed"
               /\ out = "" /\ job.num = 1 => result = "SE"
        /\ out # "" \/ process[Interactor] \notin {"error", "lost"}
                    \/ timer[Interactor] \notin {"off", "cancelled"}

\* The job is over in the end, whatever the programs do, even when they wait for
\* each other or for one that was never started, unless the job asks for no real
\* time limit.
InteractionEnds == (\A c \in Active : Limit(c) # 0) => <>Over
=============================================================================
