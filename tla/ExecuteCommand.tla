--------------------------- MODULE ExecuteCommand -----------------------------
(***************************************************************************)
(* execute_command and what the executors make of its result               *)
(* (sio/workers/executors.py): a thread of the worker starts a shell in a  *)
(* process group of its own, arms a kill timer, waits for the shell and    *)
(* cancels the timer.  The timer has a thread too, which shares only the   *)
(* dictionary ret_env with the first one.                                  *)
(*                                                                         *)
(* Operators called Wrong... are faulty variants of the definition that    *)
(* follows them, used only by the sensitivity checks.                      *)
(***************************************************************************)
EXTENDS Integers

CONSTANTS
    Commands,   \* what is executed, each in a thread of its own
    None

VARIABLES
    thread,     \* [Commands -> where the thread of the command is]
    process,    \* [Commands -> "none", "running" or how the shell ended]
    timer,      \* [Commands -> the kill timer and its thread]
    killed,     \* commands with 'real_time_killed' in their ret_env
    value       \* [Commands -> the executor's renv, or None]

commandVars == <<thread, process, timer, killed, value>>

\* How a shell ends.  "slow": whatever its code, its user time is over the limit.
\* "sigpipe": the program died of SIGPIPE.  "error": any other code that is not
\* 0.  "killed": by the timer.  "lost": the wrapper around the program (bash with
\* its `time', or the supervisor) failed and left no report.
ByItself == {"zero", "slow", "sigpipe", "error", "lost"}
Ended == ByItself \cup {"killed"}

\* "expired": Timer.run has seen that it was not cancelled; "flagged": oot_killer
\* is between its two statements.
TimerStates == {"off", "armed", "expired", "flagged", "over", "cancelled"}

\* RE stands for MLE, OLE and RV as well, which only differ in what they are called.
Renv == [code : {"OK", "RE", "TLE", "SE"}, sigpipe : BOOLEAN]

ASSUME NoneAssumption == None \notin Renv

Code(k) == [code |-> k, sigpipe |-> FALSE]

Goto(c, place) == thread' = [thread EXCEPT ![c] = place]

\* The executors of a program: unsafe_exec, sio2jail_exec and executor.
Executors == {"detailed", "sio2jail", "realtime"}

\* The limit of the timer in ms, from exec_time_limit and exec_real_time_limit (None
\* when it is not given).  0: there is no timer.
UnprotectedLimit(timeLimit, realTimeLimit) ==
    IF realTimeLimit = None THEN 2 * timeLimit ELSE realTimeLimit

SupervisedLimit(timeLimit, realTimeLimit) ==
    IF realTimeLimit = 0 THEN 0
    ELSE (IF realTimeLimit = None THEN 64 * timeLimit ELSE realTimeLimit) + 1000

\* The limit of the supervisor, twice: measure_real_time makes it the time limit.
Sio2JailLimit(measureRealTime, timeLimit, realTimeLimit) ==
    2 * (IF measureRealTime THEN timeLimit ELSE SupervisedLimit(timeLimit, realTimeLimit))

RealTimeLimit(executor, timeLimit, realTimeLimit) ==
    IF executor = "detailed" THEN UnprotectedLimit(timeLimit, realTimeLimit)
    ELSE Sio2JailLimit(executor = "realtime", timeLimit, realTimeLimit)

-----------------------------------------------------------------------------
\* Popen.
Popen(c) ==
    /\ thread[c] = "ready"
    /\ process' = [process EXCEPT ![c] = "running"]
    /\ Goto(c, "started")
    /\ UNCHANGED <<timer, killed, value>>

\* The thread of the command ends with an exception: the executor of a supervised
\* program turns it into the result code SE, the others let it out.
Raise(c, executor) ==
    /\ Goto(c, IF executor = "detailed" THEN "raised" ELSE "done")
    /\ value' = [value EXCEPT ![c] =
           IF executor = "detailed" THEN None ELSE Code("SE")]

\* Popen raises, or something the executor does before it.
PopenFails(c, executor) ==
    /\ thread[c] = "ready"
    /\ Raise(c, executor)
    /\ UNCHANGED <<process, timer, killed>>

\* Never arms the timer.
WrongArm(c, limit) ==
    /\ thread[c] = "started"
    /\ Goto(c, "waiting")
    /\ UNCHANGED <<timer, process, killed, value>>

\* The descriptors of fds_to_close are closed and the timer is started.
Arm(c, limit) ==
    /\ thread[c] = "started"
    /\ timer' = [timer EXCEPT ![c] = IF limit = 0 THEN "off" ELSE "armed"]
    /\ Goto(c, "waiting")
    /\ UNCHANGED <<process, killed, value>>

\* What both executors make of a program that has left its report.
Report(c) ==
    IF process[c] = "slow" THEN Code("TLE")
    ELSE IF process[c] = "zero" THEN Code("OK")
    ELSE [code |-> "RE", sigpipe |-> process[c] = "sigpipe"]

\* DetailedUnprotectedExecutor._execute, as the set of what it can return.  Empty:
\* RuntimeError, no output of `time'.
Detailed(c) ==
    IF c \in killed THEN {Code("TLE")}
    ELSE IF process[c] \in {"killed", "lost"} THEN {}
    ELSE {Report(c)}

\* _SIOSupervisedExecutor._execute, after a supervisor that was started.
Supervised(c) ==
    IF c \in killed \/ process[c] \in {"killed", "lost"} THEN {Code("SE")}
    ELSE {Report(c)}

\* wait() returns, the timer is cancelled, and the executor looks at ret_env.  An
\* expiry between the end of the shell and cancel() comes before this step.
Wait(c, executor) ==
    /\ thread[c] = "waiting" /\ process[c] \in Ended
    /\ timer' = [timer EXCEPT ![c] = IF @ = "armed" THEN "cancelled" ELSE @]
    /\ LET renvs == IF executor = "detailed" THEN Detailed(c) ELSE Supervised(c)
       IN  \/ \E r \in renvs : value' = [value EXCEPT ![c] = r] /\ Goto(c, "done")
           \/ renvs = {} /\ Raise(c, executor)
    /\ UNCHANGED <<process, killed>>

-----------------------------------------------------------------------------
\* The thread of the timer.
Expire(c) ==
    /\ timer[c] = "armed"
    /\ timer' = [timer EXCEPT ![c] = "expired"]
    /\ UNCHANGED <<thread, process, killed, value>>

\* Kills first and says so afterwards.
WrongFlag(c) ==
    /\ timer[c] = "expired"
    /\ timer' = [timer EXCEPT ![c] = "flagged"]
    /\ process' = [process EXCEPT ![c] = IF @ = "running" THEN "killed" ELSE @]
    /\ UNCHANGED <<thread, killed, value>>

Flag(c) ==
    /\ timer[c] = "expired"
    /\ timer' = [timer EXCEPT ![c] = "flagged"]
    /\ killed' = killed \cup {c}
    /\ UNCHANGED <<thread, process, value>>

\* killpg; without effect on a shell that has ended.
KillGroup(c) ==
    /\ timer[c] = "flagged"
    /\ timer' = [timer EXCEPT ![c] = "over"]
    /\ process' = [process EXCEPT ![c] = IF @ = "running" THEN "killed" ELSE @]
    /\ UNCHANGED <<thread, killed, value>>

\* The program: it runs for as long as it likes and ends as it likes.
Exit(c, how) ==
    /\ process[c] = "running"
    /\ process' = [process EXCEPT ![c] = how]
    /\ UNCHANGED <<thread, timer, killed, value>>

TimerStep(c) == Expire(c) \/ Flag(c) \/ KillGroup(c)
=============================================================================
