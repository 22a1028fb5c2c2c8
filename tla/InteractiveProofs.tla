--------------------------- MODULE InteractiveProofs --------------------------
(***************************************************************************)
(* An interactive job of any number of processes and with any limits: the  *)
(* end of a process reaches its peers, no end of a pipe is taken from a    *)
(* process, descriptors come back, a killed process is reported as such,   *)
(* and a verdict has a basis.                                              *)
(*                                                                         *)
(* The invariant ties, for each command, what its thread, its process, its *)
(* timer, the owners of its descriptors and its result say about how far   *)
(* it is.                                                                  *)
(***************************************************************************)
EXTENDS Interactive, WellFoundedInduction, TLAPS

NotStarted == {"none", "check", "set", "download", "ready"}
AtEnd == {"done", "raised"}

\* The thread of a command and its process.
ThreadMatchesProcess(c) ==
    /\ thread[c] \in NotStarted => process[c] = "none"
    /\ thread[c] \in {"started", "waiting"} => process[c] # "none"
    /\ thread[c] \in AtEnd => process[c] # "running"
    /\ value[c] # None <=> thread[c] = "done"

\* Who has the descriptors of a command.
HoldersMatch(c) ==
    /\ holders[c] \subseteq {Worker, c}
    /\ c \in holders[c] <=> process[c] = "running" /\ c \notin shut
    /\ c \in shut => process[c] = "running"
    /\ Worker \in holders[c] => process[c] = "none" \/ thread[c] = "started"
    /\ thread[c] # "none" /\ process[c] = "none" => Worker \in holders[c]

\* oot_killer says that it kills before it kills.
FlagBeforeKill(c) ==
    /\ c \in killed <=> timer[c] \in {"flagged", "over"}
    /\ process[c] = "killed" => c \in killed
    /\ thread[c] \in NotStarted \cup {"started"} => timer[c] = "off"

\* What a thread made of the end of its process.
ReportMatches(c) ==
    /\ thread[c] = "raised" => process[c] # "killed"
    /\ thread[c] = "done" /\ process[c] = "killed" => value[c].code \in {"TLE", "SE"}
    /\ thread[c] = "done" /\ value[c].code = "TLE" => process[c] = "slow" \/ c \in killed
    /\ thread[c] = "done" /\ process[c] = "none" =>
           ExecutorOf(c) # "detailed" /\ value[c] = Code("SE")
    /\ thread[c] = "done" /\ ExecutorOf(c) = "detailed" /\ c \notin killed =>
           /\ process[c] # "lost"
           /\ process[c] = "error" => value[c] = Code("RE")

CommandInv(c) ==
    ThreadMatchesProcess(c) /\ HoldersMatch(c) /\ FlagBeforeKill(c) /\ ReportMatches(c)

\* How far the job is.
ProgressInv ==
    /\ result = "none" => \A c \in Commands : thread[c] = "none"
    /\ result = "running" => \A c \in Active : thread[c] # "none"
    /\ Over => \/ Raised /\ \A c \in Commands : thread[c] = "none"
               \/ \A c \in Active : thread[c] \in AtEnd

InteractiveInv ==
    /\ InteractiveTypeOK
    /\ \A c \in Commands : CommandInv(c)
    /\ ProgressInv
    /\ VerdictHasABasis

-----------------------------------------------------------------------------
(***************************************************************************)
(* Facts about the constants and about a command that is not at its end.   *)
(***************************************************************************)
LEMMA ActiveCommands ==
    ASSUME job \in Jobs
    PROVE  /\ job.num \in 1..MaxProcesses
           /\ Active \subseteq Commands /\ Interactor \in Active /\ Worker \notin Commands
           /\ \A c \in Active : Peers(c) \subseteq Active
           /\ job.num = 1 => Active = {0, 1} /\ Solutions = {1}
<1>1. job.num \in 1..MaxProcesses
  BY InteractiveAssumption DEF Job
<1> QED
  BY <1>1, InteractiveAssumption DEF Active, Solutions, Interactor, Worker, Peers

LEMMA RenvFacts ==
    ASSUME NEW k \in {"OK", "RE", "TLE", "SE"}, NEW b \in BOOLEAN
    PROVE  /\ [code |-> k, sigpipe |-> b] \in Renv
           /\ [code |-> k, sigpipe |-> b] # None
           /\ Code(k) \in Renv /\ Code(k) # None /\ Code(k).code = k
<1>1. \A a \in BOOLEAN : [code |-> k, sigpipe |-> a] \in Renv
  BY DEF Renv
<1>2. Code(k) \in Renv
  BY <1>1 DEF Code
<1> QED
  BY <1>1, <1>2, NoneAssumption DEF Code

\* While a thread is at work the job is running, and all its threads have started.
LEMMA AtWork ==
    ASSUME InteractiveInv, NEW c \in Active, thread[c] \notin AtEnd \cup {"none"}
    PROVE  result = "running" /\ ~Over /\ \A d \in Active : thread[d] # "none"
BY ActiveCommands DEF InteractiveInv, InteractiveTypeOK, ProgressInv, Over, AtEnd

\* A step of one command that leaves the job running keeps what the others say.
LEMMA Framed ==
    ASSUME InteractiveInv, InteractiveTypeOK', NEW c \in Active,
           UNCHANGED <<job, result>>, result = "running",
           \A d \in Commands \ {c} :
               /\ thread'[d] = thread[d] /\ process'[d] = process[d] /\ timer'[d] = timer[d]
               /\ value'[d] = value[d] /\ holders'[d] = holders[d]
               /\ d \in killed' <=> d \in killed
               /\ d \in shut' <=> d \in shut,
           thread'[c] # "none", CommandInv(c)'
    PROVE  InteractiveInv'
<1> USE ActiveCommands
<1>1. \A d \in Commands : CommandInv(d)'
  BY DEF InteractiveInv, CommandInv, ThreadMatchesProcess, HoldersMatch, FlagBeforeKill,
         ReportMatches, ExecutorOf
<1>2. ProgressInv'
  BY DEF InteractiveInv, InteractiveTypeOK, ProgressInv, Over, Active
<1>3. VerdictHasABasis'
  BY DEF VerdictHasABasis, Over
<1> QED
  BY <1>1, <1>2, <1>3 DEF InteractiveInv

-----------------------------------------------------------------------------
(***************************************************************************)
(* The steps of a thread.                                                  *)
(***************************************************************************)
LEMMA KeySteps ==
    ASSUME InteractiveInv, NEW c \in Active,
           CheckKey(c) \/ SetKey(c) \/ DelKey(c) \/ DownloadFails(c)
    PROVE  InteractiveInv'
<1> USE ActiveCommands
<1> USE DEF InteractiveInv, InteractiveTypeOK
<1>1. PICK place \in {"set", "download", "ready", "raised"} :
          /\ UNCHANGED <<process, timer, killed, value, job, holders, shut, out, result>>
          /\ thread[c] \in {"check", "set", "download"}
          /\ thread' = [thread EXCEPT ![c] = place]
          /\ extraKey' \in BOOLEAN
  BY DEF CheckKey, SetKey, DelKey, DownloadFails, Goto, jobVars
<1>2. result = "running"
  BY <1>1, AtWork DEF AtEnd
<1>3. InteractiveTypeOK'
  BY <1>1
<1>4. CommandInv(c)'
  <2>1. CommandInv(c) /\ process[c] = "none" /\ value[c] = None
    BY <1>1 DEF CommandInv, ThreadMatchesProcess, NotStarted
  <2> QED
    BY <1>1, <2>1 DEF CommandInv, ThreadMatchesProcess, HoldersMatch, FlagBeforeKill,
                      ReportMatches, NotStarted, AtEnd, Ended, ByItself
<1>5. \A d \in Commands \ {c} : thread'[d] = thread[d]
  BY <1>1
<1> HIDE DEF InteractiveInv, InteractiveTypeOK
<1> QED
  BY <1>1, <1>2, <1>3, <1>4, <1>5, Framed

LEMMA StartStep ==
    ASSUME InteractiveInv, NEW c \in Active, Start(c)
    PROVE  InteractiveInv'
<1> USE ActiveCommands
<1> USE DEF InteractiveInv, InteractiveTypeOK
<1>1. /\ UNCHANGED <<timer, killed, value, job, shut, extraKey, out, result>>
      /\ thread[c] = "ready" /\ thread' = [thread EXCEPT ![c] = "started"]
      /\ process' = [process EXCEPT ![c] = "running"]
      /\ holders' = [holders EXCEPT ![c] = @ \cup {c}]
  BY DEF Start, Popen, Goto
<1>2. result = "running"
  BY <1>1, AtWork DEF AtEnd
<1>3. InteractiveTypeOK'
  BY <1>1
<1>4. CommandInv(c) /\ process[c] = "none" /\ value[c] = None
  BY <1>1 DEF CommandInv, ThreadMatchesProcess, NotStarted
<1>5. CommandInv(c)'
  <2>1. ThreadMatchesProcess(c)' /\ ReportMatches(c)'
    BY <1>1, <1>4 DEF ThreadMatchesProcess, ReportMatches, NotStarted, AtEnd
  <2>2. HoldersMatch(c)'
    BY <1>1, <1>4 DEF CommandInv, HoldersMatch
  <2>3. FlagBeforeKill(c)'
    BY <1>1, <1>4 DEF CommandInv, FlagBeforeKill, NotStarted
  <2> QED
    BY <2>1, <2>2, <2>3 DEF CommandInv
<1>6. \A d \in Commands \ {c} : /\ thread'[d] = thread[d] /\ process'[d] = process[d]
                                /\ holders'[d] = holders[d]
  BY <1>1
<1> HIDE DEF InteractiveInv, InteractiveTypeOK
<1> QED
  BY <1>1, <1>2, <1>3, <1>5, <1>6, Framed

LEMMA StartFailsStep ==
    ASSUME InteractiveInv, NEW c \in Active, StartFails(c)
    PROVE  InteractiveInv'
<1> USE ActiveCommands
<1> USE DEF InteractiveInv, InteractiveTypeOK
<1>1. Code("SE") \in Renv /\ Code("SE") # None /\ Code("SE").code = "SE"
  BY RenvFacts
<1>2. PICK place \in AtEnd, renv \in Renv \cup {None} :
          /\ UNCHANGED <<process, timer, killed, job, holders, shut, extraKey, out, result>>
          /\ thread[c] = "ready" /\ thread' = [thread EXCEPT ![c] = place]
          /\ value' = [value EXCEPT ![c] = renv]
          /\ place = "raised" => renv = None
          /\ place = "done" => renv = Code("SE") /\ ExecutorOf(c) # "detailed"
  BY <1>1 DEF StartFails, PopenFails, Raise, Goto, jobVars, AtEnd
<1>3. result = "running"
  BY <1>2, AtWork DEF AtEnd
<1>4. InteractiveTypeOK'
  BY <1>2 DEF AtEnd
<1>5. CommandInv(c) /\ process[c] = "none"
  BY <1>2 DEF CommandInv, ThreadMatchesProcess, NotStarted
<1>6. thread'[c] = place /\ value'[c] = renv /\ ExecutorOf(c)' = ExecutorOf(c)
  BY <1>2 DEF ExecutorOf
<1>7. CommandInv(c)'
  <2>1. CASE place = "raised"
    BY <1>1, <1>2, <1>5, <1>6, <2>1
    DEF CommandInv, ThreadMatchesProcess, HoldersMatch, FlagBeforeKill, ReportMatches,
        NotStarted, AtEnd
  <2>2. CASE place = "done"
    <3>1. ReportMatches(c)'
      BY <1>1, <1>2, <1>5, <1>6, <2>2 DEF ReportMatches
    <3> QED
      BY <1>1, <1>2, <1>5, <1>6, <2>2, <3>1
      DEF CommandInv, ThreadMatchesProcess, HoldersMatch, FlagBeforeKill, NotStarted, AtEnd
  <2> QED
    BY <2>1, <2>2 DEF AtEnd
<1>8. \A d \in Commands \ {c} : thread'[d] = thread[d] /\ value'[d] = value[d]
  BY <1>2
<1> HIDE DEF InteractiveInv, InteractiveTypeOK
<1> QED
  BY <1>2, <1>3, <1>4, <1>6, <1>7, <1>8, Framed DEF AtEnd

LEMMA CloseAndArmStep ==
    ASSUME InteractiveInv, NEW c \in Active, CloseAndArm(c)
    PROVE  InteractiveInv'
<1> USE ActiveCommands
<1> USE DEF InteractiveInv, InteractiveTypeOK
<1>1. PICK state \in {"off", "armed"} :
          /\ UNCHANGED <<process, killed, value, job, shut, extraKey, out, result>>
          /\ thread[c] = "started" /\ thread' = [thread EXCEPT ![c] = "waiting"]
          /\ timer' = [timer EXCEPT ![c] = state]
          /\ holders' = [holders EXCEPT ![c] = @ \ {Worker}]
  BY DEF CloseAndArm, Arm, Goto
<1>2. result = "running"
  BY <1>1, AtWork DEF AtEnd
<1>3. InteractiveTypeOK'
  BY <1>1 DEF TimerStates
<1>4. CommandInv(c) /\ process[c] # "none" /\ value[c] = None
  BY <1>1 DEF CommandInv, ThreadMatchesProcess
<1>5. CommandInv(c)'
  <2>1. ThreadMatchesProcess(c)' /\ ReportMatches(c)'
    BY <1>1, <1>4 DEF ThreadMatchesProcess, ReportMatches, NotStarted, AtEnd
  <2>2. HoldersMatch(c)'
    BY <1>1, <1>4 DEF CommandInv, HoldersMatch
  <2>3. FlagBeforeKill(c)'
    BY <1>1, <1>4 DEF CommandInv, FlagBeforeKill, NotStarted
  <2> QED
    BY <2>1, <2>2, <2>3 DEF CommandInv
<1>6. \A d \in Commands \ {c} : /\ thread'[d] = thread[d] /\ timer'[d] = timer[d]
                                /\ holders'[d] = holders[d]
  BY <1>1
<1> HIDE DEF InteractiveInv, InteractiveTypeOK
<1> QED
  BY <1>1, <1>2, <1>3, <1>5, <1>6, Framed

\* What an executor may return for a process that has ended.
GoodReport(c, executor, r) ==
    /\ r \in Renv /\ r # None
    /\ process[c] = "killed" => r.code \in {"TLE", "SE"}
    /\ r.code = "TLE" => process[c] = "slow" \/ c \in killed
    /\ executor = "detailed" /\ c \notin killed =>
           /\ process[c] # "lost"
           /\ process[c] = "error" => r = Code("RE")

LEMMA ReportFacts ==
    ASSUME NEW c, process[c] \notin {"killed", "lost"}
    PROVE  /\ Report(c) \in Renv /\ Report(c) # None
           /\ Report(c).code = "TLE" => process[c] = "slow"
           /\ process[c] = "error" => Report(c) = Code("RE")
<1>1. CASE process[c] = "slow"
  BY <1>1, RenvFacts DEF Report
<1>2. CASE process[c] = "zero"
  BY <1>2, RenvFacts DEF Report
<1>3. CASE process[c] \notin {"slow", "zero"}
  <2>1. Report(c) = [code |-> "RE", sigpipe |-> process[c] = "sigpipe"]
    BY <1>3 DEF Report
  <2>2. (process[c] = "sigpipe") \in BOOLEAN
    OBVIOUS
  <2>3. process[c] = "error" => Report(c) = Code("RE")
    BY <2>1 DEF Code
  <2>4. Report(c) \in Renv /\ Report(c) # None
    BY <2>1, <2>2, RenvFacts
  <2>5. Report(c).code # "TLE"
    BY <2>1
  <2> QED
    BY <2>3, <2>4, <2>5
<1> QED
  BY <1>1, <1>2, <1>3

LEMMA DetailedReports ==
    ASSUME NEW c, process[c] \in Ended, process[c] = "killed" => c \in killed
    PROVE  /\ \A r \in Detailed(c) : GoodReport(c, "detailed", r)
           /\ Detailed(c) = {} => process[c] # "killed"
<1>1. CASE c \in killed
  BY <1>1, RenvFacts DEF Detailed, GoodReport
<1>2. CASE c \notin killed /\ process[c] = "lost"
  BY <1>2 DEF Detailed
<1>3. CASE c \notin killed /\ process[c] # "lost"
  BY <1>3, ReportFacts DEF Detailed, GoodReport
<1> QED
  BY <1>1, <1>2, <1>3

LEMMA SupervisedReports ==
    ASSUME NEW c, process[c] \in Ended, NEW executor, executor # "detailed"
    PROVE  (\A r \in Supervised(c) : GoodReport(c, executor, r)) /\ Supervised(c) # {}
<1>1. CASE c \in killed \/ process[c] \in {"killed", "lost"}
  BY <1>1, RenvFacts DEF Supervised, GoodReport
<1>2. CASE ~(c \in killed \/ process[c] \in {"killed", "lost"})
  BY <1>2, ReportFacts DEF Supervised, GoodReport
<1> QED
  BY <1>1, <1>2

LEMMA FinishStep ==
    ASSUME InteractiveInv, NEW c \in Active, Finish(c)
    PROVE  InteractiveInv'
<1> USE ActiveCommands
<1> USE DEF InteractiveInv, InteractiveTypeOK
<1>1. CommandInv(c) /\ process[c] \in Ended /\ thread[c] = "waiting"
  BY DEF Finish, Wait
<1>2. process[c] = "killed" => c \in killed
  BY <1>1 DEF CommandInv, FlagBeforeKill
<1>3. PICK place \in AtEnd, renv \in Renv \cup {None} :
          /\ UNCHANGED <<process, killed, job, holders, shut, extraKey, out, result>>
          /\ timer' = [timer EXCEPT ![c] = IF @ = "armed" THEN "cancelled" ELSE @]
          /\ thread' = [thread EXCEPT ![c] = place]
          /\ value' = [value EXCEPT ![c] = renv]
          /\ place = "raised" => renv = None /\ process[c] # "killed"
          /\ place = "done" => GoodReport(c, ExecutorOf(c), renv)
  <2>1. CASE ExecutorOf(c) = "detailed" /\ Detailed(c) = {}
    <3>1. process[c] # "killed"
      BY <1>1, <1>2, <2>1, DetailedReports
    <3> QED
      BY <2>1, <3>1 DEF Finish, Wait, Raise, Goto, jobVars, AtEnd
  <2>3. CASE ExecutorOf(c) = "detailed" /\ Detailed(c) # {}
    <3>1. \A r \in Detailed(c) : r \in Renv /\ GoodReport(c, ExecutorOf(c), r)
      BY <1>1, <1>2, <2>3, DetailedReports DEF GoodReport
    <3> QED
      BY <2>3, <3>1 DEF Finish, Wait, Goto, jobVars, AtEnd
  <2>2. CASE ExecutorOf(c) # "detailed"
    BY <1>1, <1>2, <2>2, SupervisedReports
    DEF Finish, Wait, Raise, Goto, jobVars, AtEnd, GoodReport
  <2> QED
    BY <2>1, <2>2, <2>3
<1>4. result = "running"
  BY <1>1, AtWork DEF AtEnd
<1>5. InteractiveTypeOK'
  BY <1>3 DEF AtEnd, TimerStates
<1>6. /\ thread'[c] = place /\ value'[c] = renv /\ ExecutorOf(c)' = ExecutorOf(c)
      /\ timer'[c] = timer[c] \/ (timer[c] = "armed" /\ timer'[c] = "cancelled")
  BY <1>3 DEF ExecutorOf
<1>7. CommandInv(c)'
  <2>1. ThreadMatchesProcess(c)'
    BY <1>1, <1>3, <1>6
    DEF ThreadMatchesProcess, NotStarted, AtEnd, GoodReport, Ended, ByItself
  <2>2. HoldersMatch(c)'
    BY <1>1, <1>3, <1>6 DEF CommandInv, HoldersMatch, AtEnd, Ended, ByItself
  <2>3. FlagBeforeKill(c)'
    BY <1>1, <1>3, <1>6 DEF CommandInv, FlagBeforeKill, AtEnd, NotStarted
  <2>4. ReportMatches(c)'
    BY <1>1, <1>3, <1>6 DEF ReportMatches, AtEnd, GoodReport, Ended, ByItself
  <2> QED
    BY <2>1, <2>2, <2>3, <2>4 DEF CommandInv
<1>8. \A d \in Commands \ {c} : /\ thread'[d] = thread[d] /\ value'[d] = value[d]
                                /\ timer'[d] = timer[d]
  BY <1>3
<1> HIDE DEF InteractiveInv, InteractiveTypeOK
<1> QED
  BY <1>3, <1>4, <1>5, <1>6, <1>7, <1>8, Framed DEF AtEnd

-----------------------------------------------------------------------------
(***************************************************************************)
(* The processes and the timers.                                           *)
(***************************************************************************)
LEMMA OthersHold ==
    ASSUME InteractiveInv, NEW c \in Active, NEW d \in Commands \ {c}
    PROVE  holders[d] \ {c} = holders[d]
<1>1. holders[d] \subseteq {Worker, d}
  BY DEF InteractiveInv, CommandInv, HoldersMatch
<1>2. c # Worker
  BY ActiveCommands DEF InteractiveInv, InteractiveTypeOK
<1> QED
  BY <1>1, <1>2

LEMMA ExitsStep ==
    ASSUME InteractiveInv, NEW c \in Active, Exits(c)
    PROVE  InteractiveInv'
<1> USE ActiveCommands
<1> USE DEF InteractiveInv, InteractiveTypeOK
<1>1. PICK how \in ByItself :
          /\ UNCHANGED <<thread, timer, killed, value, job, extraKey, out, result>>
          /\ process[c] = "running" /\ process' = [process EXCEPT ![c] = how]
          /\ holders' = [d \in Commands |-> holders[d] \ {c}] /\ shut' = shut \ {c}
  BY DEF Exits, Exit, Close
<1>2. CommandInv(c) /\ thread[c] \in {"started", "waiting"}
  BY <1>1 DEF CommandInv, ThreadMatchesProcess, HoldersMatch, NotStarted, AtEnd
<1>3. result = "running" /\ thread[c] # "none" /\ value[c] = None
  BY <1>2, AtWork DEF AtEnd, CommandInv, ThreadMatchesProcess
<1>4. InteractiveTypeOK'
  BY <1>1 DEF Ended
<1>5. CommandInv(c)'
  <2>1. ThreadMatchesProcess(c)' /\ ReportMatches(c)'
    BY <1>1, <1>2, <1>3 DEF ThreadMatchesProcess, ReportMatches, NotStarted, AtEnd, ByItself
  <2>2. HoldersMatch(c)'
    BY <1>1, <1>2 DEF CommandInv, HoldersMatch, ByItself
  <2>3. FlagBeforeKill(c)'
    BY <1>1, <1>2 DEF CommandInv, FlagBeforeKill, ByItself
  <2> QED
    BY <2>1, <2>2, <2>3 DEF CommandInv
<1>6. \A d \in Commands \ {c} : process'[d] = process[d] /\ holders'[d] = holders[d]
  BY <1>1, OthersHold
<1> HIDE DEF InteractiveInv, InteractiveTypeOK
<1> QED
  BY <1>1, <1>3, <1>4, <1>5, <1>6, Framed

LEMMA ShutsStep ==
    ASSUME InteractiveInv, NEW c \in Active, Shuts(c)
    PROVE  InteractiveInv'
<1> USE ActiveCommands
<1> USE DEF InteractiveInv, InteractiveTypeOK
<1>1. /\ UNCHANGED <<commandVars, job, extraKey, out, result>>
      /\ process[c] = "running"
      /\ holders' = [holders EXCEPT ![c] = @ \ {c}] /\ shut' = shut \cup {c}
  BY DEF Shuts
<1>2. CommandInv(c) /\ thread[c] \in {"started", "waiting"}
  BY <1>1 DEF CommandInv, ThreadMatchesProcess, HoldersMatch, NotStarted, AtEnd
<1>3. result = "running" /\ thread[c] # "none"
  BY <1>2, AtWork DEF AtEnd
<1>4. InteractiveTypeOK'
  BY <1>1 DEF commandVars
<1>5. CommandInv(c)'
  <2>1. HoldersMatch(c)'
    BY <1>1, <1>2 DEF CommandInv, HoldersMatch, commandVars
  <2> QED
    BY <1>1, <1>2, <2>1
    DEF CommandInv, ThreadMatchesProcess, FlagBeforeKill, ReportMatches, ExecutorOf,
        commandVars
<1>6. \A d \in Commands \ {c} : holders'[d] = holders[d] /\ (d \in shut' <=> d \in shut)
  BY <1>1
<1> HIDE DEF InteractiveInv, InteractiveTypeOK
<1> QED
  BY <1>1, <1>3, <1>4, <1>5, <1>6, Framed DEF commandVars

\* The timer goes its way whether or not the job is over; what it does then changes
\* nothing about the job.
LEMMA TickStep ==
    ASSUME InteractiveInv, NEW c \in Active, Tick(c)
    PROVE  InteractiveInv'
<1> USE ActiveCommands
<1> USE DEF InteractiveInv, InteractiveTypeOK
<1>1. PICK state \in {"expired", "flagged", "over"}, how \in {process[c], "killed"} :
          /\ UNCHANGED <<thread, value, job, extraKey, out, result>>
          /\ timer[c] \in {"armed", "expired", "flagged"}
          /\ timer' = [timer EXCEPT ![c] = state]
          /\ killed' = IF state = "flagged" THEN killed \cup {c} ELSE killed
          /\ process' = [process EXCEPT ![c] = how]
          /\ how # process[c] => process[c] = "running"
          /\ how = "killed" /\ process[c] = "running" => state = "over"
          /\ state = "expired" => timer[c] = "armed"
          /\ state = "flagged" => timer[c] = "expired"
          /\ state = "over" => timer[c] = "flagged"
          /\ holders' = IF how # process[c] THEN [d \in Commands |-> holders[d] \ {c}]
                        ELSE holders
          /\ shut' = IF how # process[c] THEN shut \ {c} ELSE shut
  <2>1. CASE Expire(c) \/ Flag(c)
    BY <2>1 DEF Tick, Expire, Flag
  <2>2. CASE KillGroup(c)
    BY <2>2 DEF Tick, KillGroup, Close
  <2> QED
    BY <2>1, <2>2 DEF Tick, TimerStep
<1>2. InteractiveTypeOK'
  BY <1>1 DEF Ended, TimerStates
<1>3. CommandInv(c) /\ CommandInv(c)'
  <2>1. CommandInv(c)
    OBVIOUS
  <2>2. ThreadMatchesProcess(c)'
    BY <1>1, <2>1 DEF CommandInv, ThreadMatchesProcess, NotStarted, AtEnd
  <2>3. HoldersMatch(c)'
    BY <1>1, <2>1 DEF CommandInv, HoldersMatch
  <2>4. FlagBeforeKill(c)'
    BY <1>1, <2>1 DEF CommandInv, FlagBeforeKill
  <2>5. ReportMatches(c)'
    BY <1>1, <2>1 DEF CommandInv, ThreadMatchesProcess, ReportMatches, AtEnd, ExecutorOf
  <2> QED
    BY <2>1, <2>2, <2>3, <2>4, <2>5 DEF CommandInv
<1>4. \A d \in Commands \ {c} :
          /\ process'[d] = process[d] /\ holders'[d] = holders[d] /\ timer'[d] = timer[d]
          /\ d \in killed' <=> d \in killed
          /\ d \in shut' <=> d \in shut
  BY <1>1, OthersHold
<1>5. \A d \in Commands : CommandInv(d)'
  <2> SUFFICES ASSUME NEW d \in Commands \ {c} PROVE CommandInv(d)'
    BY <1>3
  <2>1. CommandInv(d) /\ ExecutorOf(d)' = ExecutorOf(d)
    BY <1>1 DEF ExecutorOf
  <2> QED
    BY <1>1, <1>4, <2>1
    DEF CommandInv, ThreadMatchesProcess, HoldersMatch, FlagBeforeKill, ReportMatches
<1>6. ProgressInv'
  BY <1>1 DEF ProgressInv, Over, Raised, Active
<1>7. VerdictHasABasis'
  <2> SUFFICES ASSUME Over, ~Raised PROVE VerdictHasABasis'
    BY <1>1 DEF VerdictHasABasis, Over, Raised
  <2>1. process' = process
    BY <1>1, <1>3 DEF ProgressInv, CommandInv, ThreadMatchesProcess
  <2> QED
    BY <1>1, <2>1 DEF VerdictHasABasis, FailedToStart, ExecutorOf, Active, Over, Raised
<1> QED
  BY <1>2, <1>5, <1>6, <1>7

LEMMA PrintStep ==
    ASSUME InteractiveInv, NEW line \in {"OK", "WA"}, Announce(line)
    PROVE  InteractiveInv'
<1> USE ActiveCommands
<1>1. /\ UNCHANGED <<commandVars, job, holders, shut, extraKey, result>>
      /\ out' = line /\ process[Interactor] = "running"
  BY DEF Announce
<1>2. Interactor \in Active /\ thread[Interactor] \in {"started", "waiting"}
  BY <1>1 DEF InteractiveInv, InteractiveTypeOK, CommandInv, ThreadMatchesProcess, NotStarted, AtEnd
<1>3. ~Over
  BY <1>2, AtWork DEF AtEnd
<1>4. InteractiveTypeOK'
  BY <1>1 DEF InteractiveInv, InteractiveTypeOK, commandVars
<1>5. \A d \in Commands : CommandInv(d)'
  BY <1>1 DEF InteractiveInv, CommandInv, ThreadMatchesProcess, HoldersMatch, FlagBeforeKill,
              ReportMatches, ExecutorOf, commandVars
<1>6. ProgressInv'
  BY <1>1 DEF InteractiveInv, ProgressInv, Over, Raised, Active, commandVars
<1>7. VerdictHasABasis'
  BY <1>1, <1>3 DEF VerdictHasABasis, Over
<1> QED
  BY <1>4, <1>5, <1>6, <1>7 DEF InteractiveInv

-----------------------------------------------------------------------------
(***************************************************************************)
(* The beginning and the end of the job.                                   *)
(***************************************************************************)
LEMMA StartThreadsStep ==
    ASSUME InteractiveInv, StartThreads
    PROVE  InteractiveInv'
<1> USE ActiveCommands
<1> USE DEF InteractiveInv, InteractiveTypeOK
<1>1. /\ result = "none" /\ result' = "running"
      /\ UNCHANGED <<process, timer, killed, value, job, shut, extraKey, out>>
      /\ holders' = [c \in Commands |-> IF c \in Active THEN {Worker} ELSE {}]
      /\ thread' = [c \in Commands |-> IF c \notin Active THEN "none"
                                       ELSE IF c = Interactor \/ ~job.extra THEN "ready"
                                       ELSE "check"]
  BY DEF StartThreads
<1>2. InteractiveTypeOK'
  BY <1>1
<1>3. \A c \in Commands : /\ thread[c] = "none" /\ process[c] = "none"
                          /\ value[c] = None /\ timer[c] = "off" /\ c \notin killed
                          /\ c \notin shut
  BY <1>1 DEF ProgressInv, CommandInv, ThreadMatchesProcess, HoldersMatch, FlagBeforeKill,
              NotStarted
<1>4. ASSUME NEW c \in Commands PROVE CommandInv(c)'
  <2>1. thread'[c] \in NotStarted /\ (c \notin Active => thread'[c] = "none")
    BY <1>1 DEF NotStarted
  <2>2. holders'[c] = IF c \in Active THEN {Worker} ELSE {}
    BY <1>1
  <2> QED
    BY <1>1, <1>3, <2>1, <2>2
    DEF CommandInv, ThreadMatchesProcess, HoldersMatch, FlagBeforeKill, ReportMatches,
        NotStarted, AtEnd
<1>5. ProgressInv'
  <2>1. \A c \in Active : thread'[c] # "none"
    BY <1>1
  <2> QED
    BY <1>1, <2>1 DEF ProgressInv, Over, Active
<1>6. VerdictHasABasis'
  BY <1>1, <1>3 DEF VerdictHasABasis, Over, Active
<1> QED
  BY <1>2, <1>4, <1>5, <1>6

LEMMA SetupFailsStep ==
    ASSUME InteractiveInv, SetupFails
    PROVE  InteractiveInv'
<1> USE ActiveCommands
<1> USE DEF InteractiveInv, InteractiveTypeOK
<1>1. /\ result = "none" /\ result' = "raised"
      /\ UNCHANGED <<commandVars, job, shut, extraKey, out>>
      /\ holders' = holders \/ holders' = [c \in Commands |->
                                               IF c \in Active THEN {Worker} ELSE {}]
  BY DEF SetupFails
<1>2. \A c \in Commands : thread[c] = "none" /\ process[c] = "none"
  BY <1>1 DEF ProgressInv, CommandInv, ThreadMatchesProcess, NotStarted
<1>3. holders' \in [Commands -> SUBSET (Commands \cup {Worker})]
  BY <1>1
<1>4. InteractiveTypeOK'
  BY <1>1, <1>3 DEF commandVars
<1>5. ASSUME NEW c \in Commands PROVE CommandInv(c)'
  <2>1. CommandInv(c) /\ c # Worker
    OBVIOUS
  <2>2. holders'[c] = holders[c] \/ holders'[c] = {Worker} \/ holders'[c] = {}
    BY <1>1
  <2>3. HoldersMatch(c)'
    BY <1>1, <1>2, <2>1, <2>2 DEF CommandInv, HoldersMatch, commandVars
  <2> QED
    BY <1>1, <1>2, <2>1, <2>3
    DEF CommandInv, ThreadMatchesProcess, FlagBeforeKill, ReportMatches, ExecutorOf,
        NotStarted, AtEnd, commandVars
<1>6. ProgressInv' /\ VerdictHasABasis'
  BY <1>1, <1>2 DEF ProgressInv, VerdictHasABasis, Over, Raised, Active, commandVars
<1> QED
  BY <1>4, <1>5, <1>6

LEMMA SmallestElement ==
    ASSUME NEW T \in SUBSET Nat, T # {}
    PROVE  \E x \in T : \A y \in T : x <= y
<1> DEFINE R == OpToRel(<, Nat)
<1>1. IsWellFoundedOn(R, Nat)
  BY NatLessThanWellFounded
<1>2. \A x, y \in Nat : <<x, y>> \in R <=> x < y
  BY DEF OpToRel
<1> HIDE DEF R
<1>3. PICK x \in T : \A y \in T : ~ (<<y, x>> \in R)
  BY <1>1, WFMin
<1>4. ASSUME NEW y \in T PROVE x <= y
  <2>1. x \in Nat /\ y \in Nat
    OBVIOUS
  <2>2. ~ (y < x)
    BY <1>2, <1>3, <2>1
  <2> QED
    BY <2>1, <2>2
<1> QED
  BY <1>4

\* The renv that _run hands to _fill_result is one of the solution's.
LEMMA SolutionRenvFacts ==
    ASSUME InteractiveInv, \A c \in Active : thread[c] = "done"
    PROVE  SolutionRenv \in Renv /\ (job.num = 1 => SolutionRenv = value[1])
<1> USE ActiveCommands
<1>1. job \in Jobs /\ job.num \in Nat /\ \A s \in Solutions : s \in Active /\ s \in Nat
  <2>1. job \in Jobs
    BY DEF InteractiveInv, InteractiveTypeOK
  <2>2. job.num \in Nat \ {0}
    BY <2>1, InteractiveAssumption
  <2> QED
    BY <2>1, <2>2 DEF Solutions, Active
<1>2. \A s \in Solutions : value[s] \in Renv
  BY <1>1 DEF InteractiveInv, InteractiveTypeOK, CommandInv, ThreadMatchesProcess
<1> DEFINE failed == {s \in Solutions : value[s].code # "OK"}
           first == IF failed = {} THEN 1
                    ELSE CHOOSE s \in failed : \A u \in failed : s <= u
<1>3. first \in Solutions
  <2>1. CASE failed = {}
    BY <1>1, <2>1 DEF Solutions
  <2>2. CASE failed # {}
    <3>1. \E s \in failed : \A u \in failed : s <= u
      BY <1>1, <2>2, SmallestElement
    <3> QED
      BY <2>2, <3>1
  <2> QED
    BY <2>1, <2>2
<1>4. SolutionRenv = value[first]
  BY DEF SolutionRenv
<1> HIDE DEF first, failed
<1>5. job.num = 1 => first = 1
  BY <1>1, <1>3 DEF Solutions
<1> QED
  BY <1>2, <1>3, <1>4, <1>5

LEMMA JudgeStep ==
    ASSUME InteractiveInv, Judge
    PROVE  InteractiveInv'
<1> USE ActiveCommands
<1>1. /\ UNCHANGED <<commandVars, job, holders, shut, extraKey, out>>
      /\ result = "running" /\ \A c \in Active : thread[c] \in AtEnd
      /\ result' = "raised" \/ (/\ \A c \in Active : thread[c] = "done"
                                /\ result' \in FillResult)
  BY DEF Judge, AtEnd
<1>2. /\ Interactor \in Active /\ Interactor \in Commands
      /\ thread[Interactor] = "done" => value[Interactor] \in Renv /\ ReportMatches(Interactor)
  BY DEF InteractiveInv, InteractiveTypeOK, CommandInv, ThreadMatchesProcess
<1>3. result' \in {"raised", "OK", "WA", "premature", "TLE", "RE", "SE"}
  <2>1. CASE result' \in FillResult /\ \A c \in Active : thread[c] = "done"
    <3>1. SolutionRenv.code \in {"OK", "RE", "TLE", "SE"} /\ out \in {"", "OK", "WA"}
      BY <2>1, SolutionRenvFacts DEF Renv, InteractiveInv, InteractiveTypeOK
    <3> QED
      BY <2>1, <3>1 DEF FillResult
  <2> QED
    BY <1>1, <2>1
<1>4. InteractiveTypeOK'
  BY <1>1, <1>3 DEF InteractiveInv, InteractiveTypeOK, commandVars
<1>5. \A c \in Commands : CommandInv(c)'
  BY <1>1 DEF InteractiveInv, CommandInv, ThreadMatchesProcess, HoldersMatch, FlagBeforeKill,
              ReportMatches, ExecutorOf, commandVars
<1>6. ProgressInv'
  BY <1>1, <1>3 DEF InteractiveInv, ProgressInv, Over, Raised, Active, commandVars
<1>7. VerdictHasABasis'
  <2> SUFFICES ASSUME result' # "raised" PROVE VerdictHasABasis'
    BY DEF VerdictHasABasis, Raised
  <2>1. result' \in FillResult /\ \A c \in Active : thread[c] = "done"
    BY <1>1
  <2>2. ASSUME NEW c \in Active, FailedToStart(c)
        PROVE  /\ ExecutorOf(c) # "detailed"
               /\ out = "" /\ job.num = 1 => result' = "SE"
    <3>1. ExecutorOf(c) # "detailed" /\ value[c] = Code("SE")
      BY <2>1, <2>2 DEF FailedToStart, InteractiveInv, InteractiveTypeOK, CommandInv,
                        ReportMatches
    <3>2. ASSUME out = "", job.num = 1 PROVE result' = "SE"
      <4>0. Active = {0, 1} /\ c # 0
        BY <3>1, <3>2 DEF InteractiveInv, InteractiveTypeOK, ExecutorOf, Interactor
      <4>1. c = 1
        BY <4>0
      <4>2. SolutionRenv = Code("SE")
        BY <2>1, <3>1, <3>2, <4>1, SolutionRenvFacts
      <4>3. Failed(SolutionRenv) /\ SolutionRenv.code = "SE"
        BY <4>2 DEF Failed, Code
      <4> QED
        BY <2>1, <3>2, <4>3 DEF FillResult
    <3> QED
      BY <3>1, <3>2
  <2>3. \/ out # "" \/ process[Interactor] \notin {"error", "lost"}
        \/ timer[Interactor] \notin {"off", "cancelled"}
    <3> SUFFICES ASSUME out = "", process[Interactor] \in {"error", "lost"},
                        timer[Interactor] \in {"off", "cancelled"}
                 PROVE  FALSE
      OBVIOUS
    <3>1. Interactor \notin killed /\ ExecutorOf(Interactor) = "detailed"
      BY <1>2 DEF InteractiveInv, CommandInv, FlagBeforeKill, ExecutorOf
    <3>2. value[Interactor] = Code("RE")
      BY <1>2, <2>1, <3>1 DEF ReportMatches
    <3>3. Faulty(Code("RE"))
      BY DEF Faulty, Code
    <3> QED
      BY <2>1, <3>2, <3>3 DEF FillResult
  <2>4. /\ \A c \in Active : ExecutorOf(c)' = ExecutorOf(c)
        /\ \A c \in Active : FailedToStart(c)' = FailedToStart(c)
        /\ Active' = Active /\ out' = out /\ job' = job /\ process' = process /\ timer' = timer
    BY <1>1 DEF ExecutorOf, FailedToStart, Active, commandVars
  <2> QED
    BY <2>2, <2>3, <2>4 DEF VerdictHasABasis
<1> QED
  BY <1>4, <1>5, <1>6, <1>7 DEF InteractiveInv

-----------------------------------------------------------------------------
LEMMA InteractiveInitInv == InteractiveInit => InteractiveInv
<1> SUFFICES ASSUME InteractiveInit PROVE InteractiveInv
  OBVIOUS
<1>1. InteractiveTypeOK
  BY DEF InteractiveInit, InteractiveTypeOK, TimerStates
<1>2. \A c \in Commands : CommandInv(c)
  BY DEF InteractiveInit, CommandInv, ThreadMatchesProcess, HoldersMatch, FlagBeforeKill,
         ReportMatches, NotStarted, AtEnd
<1>3. ProgressInv /\ VerdictHasABasis
  BY <1>1, ActiveCommands
  DEF InteractiveInit, ProgressInv, VerdictHasABasis, Over, InteractiveTypeOK
<1> QED
  BY <1>1, <1>2, <1>3 DEF InteractiveInv

LEMMA InteractiveStep == InteractiveInv /\ [InteractiveNext]_interactiveVars => InteractiveInv'
<1> SUFFICES ASSUME InteractiveInv, [InteractiveNext]_interactiveVars PROVE InteractiveInv'
  OBVIOUS
<1>1. CASE StartThreads
  BY <1>1, StartThreadsStep
<1>2. CASE SetupFails
  BY <1>2, SetupFailsStep
<1>3. CASE Judge
  BY <1>3, JudgeStep
<1>4. ASSUME NEW c \in Active, ThreadStep(c) PROVE InteractiveInv'
  BY <1>4, KeySteps, StartStep, StartFailsStep, CloseAndArmStep, FinishStep DEF ThreadStep
<1>5. ASSUME NEW c \in Active, Tick(c) \/ Exits(c) \/ Shuts(c) PROVE InteractiveInv'
  BY <1>5, TickStep, ExitsStep, ShutsStep
<1>6. ASSUME NEW line \in {"OK", "WA"}, Announce(line) PROVE InteractiveInv'
  BY <1>6, PrintStep
<1>7. CASE UNCHANGED interactiveVars
  <2> USE <1>7 DEF interactiveVars, commandVars, jobVars
  <2>1. InteractiveTypeOK'
    BY DEF InteractiveInv, InteractiveTypeOK
  <2>2. \A c \in Commands : CommandInv(c)'
    BY DEF InteractiveInv, CommandInv, ThreadMatchesProcess, HoldersMatch, FlagBeforeKill,
           ReportMatches, ExecutorOf
  <2>3. ProgressInv'
    BY DEF InteractiveInv, ProgressInv, Over, Raised, Active
  <2>4. VerdictHasABasis'
    BY DEF InteractiveInv, VerdictHasABasis, FailedToStart, ExecutorOf, Over, Raised, Active
  <2> QED
    BY <2>1, <2>2, <2>3, <2>4 DEF InteractiveInv
<1> QED
  BY <1>1, <1>2, <1>3, <1>4, <1>5, <1>6, <1>7 DEF InteractiveNext

\* The inductive invariant: thread, process, timer, descriptors and result of every
\* command agree throughout an interactive job.
THEOREM InteractiveConsistent == InteractiveSpec => []InteractiveInv
BY InteractiveInitInv, InteractiveStep, PTL DEF InteractiveSpec

\* The end of a process reaches the other side of its pipes.
THEOREM EndAlwaysReachesPeer == InteractiveSpec => []EndReachesPeer
<1>1. InteractiveInv => EndReachesPeer
  <2> SUFFICES ASSUME InteractiveInv, NEW c \in Active, process[c] \in Ended,
                      thread[c] # "started"
               PROVE  holders[c] = {}
    BY DEF EndReachesPeer
  <2>1. CommandInv(c)
    BY ActiveCommands DEF InteractiveInv, InteractiveTypeOK
  <2>2. c \notin holders[c] /\ Worker \notin holders[c] /\ holders[c] \subseteq {Worker, c}
    BY <2>1 DEF CommandInv, HoldersMatch, Ended, ByItself
  <2> QED
    BY <2>2
<1> QED
  BY <1>1, InteractiveConsistent, PTL

\* _run leaves no descriptor behind, but for those of commands that never ran.
THEOREM DescriptorsAlwaysReturned == InteractiveSpec => []DescriptorsReturned
<1>1. InteractiveInv => DescriptorsReturned
  <2> SUFFICES ASSUME InteractiveInv, Over, NEW c \in Active
               PROVE  /\ holders[c] \subseteq {Worker}
                      /\ holders[c] # {} => thread[c] = "none" \/ FailedToStart(c)
    BY DEF DescriptorsReturned
  <2>1. CommandInv(c) /\ thread[c] \in AtEnd \cup {"none"}
    BY ActiveCommands DEF InteractiveInv, InteractiveTypeOK, ProgressInv
  <2>2. c \notin holders[c]
    BY <2>1 DEF CommandInv, HoldersMatch, ThreadMatchesProcess, AtEnd, NotStarted
  <2>3. holders[c] \subseteq {Worker}
    BY <2>1, <2>2 DEF CommandInv, HoldersMatch
  <2>4. Worker \in holders[c] => process[c] = "none"
    BY <2>1 DEF CommandInv, HoldersMatch, AtEnd
  <2> QED
    BY <2>1, <2>3, <2>4 DEF FailedToStart, AtEnd
<1> QED
  BY <1>1, InteractiveConsistent, PTL

\* execute_command closes no end of a pipe before the process that needs it has it, so
\* that only the programs themselves can make a peer read end of file or die of SIGPIPE.
THEOREM EndsAlwaysStayOpen == InteractiveSpec => []EndsStayOpen
<1>1. InteractiveInv => EndsStayOpen
  <2> SUFFICES ASSUME InteractiveInv, NEW c \in Active, thread[c] # "none", holders[c] = {}
               PROVE  process[c] \in Ended \/ c \in shut
    BY DEF EndsStayOpen
  <2>1. CommandInv(c) /\ process[c] \in {"none", "running"} \cup Ended
    BY ActiveCommands DEF InteractiveInv, InteractiveTypeOK
  <2>2. process[c] # "none" /\ (process[c] = "running" => c \in shut)
    BY <2>1 DEF CommandInv, HoldersMatch
  <2> QED
    BY <2>1, <2>2
<1> QED
  BY <1>1, InteractiveConsistent, PTL

\* What the kill timer did is what execute_command's caller hears.
THEOREM KilledIsAlwaysReported == InteractiveSpec => []KilledIsReported
<1>1. InteractiveInv => KilledIsReported
  BY ActiveCommands DEF InteractiveInv, InteractiveTypeOK, KilledIsReported, CommandInv,
                        ThreadMatchesProcess, ReportMatches
<1> QED
  BY <1>1, InteractiveConsistent, PTL

\* _fill_result blames nobody without reason.
THEOREM VerdictAlwaysHasABasis == InteractiveSpec => []VerdictHasABasis
BY InteractiveConsistent, PTL DEF InteractiveInv
====
