------------------------------- MODULE Sandbox --------------------------------
(***************************************************************************)
(* Directories with unpacked software, shared by the threads of several    *)
(* worker processes on one machine (sio/workers/sandbox.py), and the order *)
(* in which executors enter them (sio/workers/executors.py).               *)
(*                                                                         *)
(* Each process has one Sandbox object per directory, with a lock for its  *)
(* threads and a count of the threads inside; the first of them in takes   *)
(* an flock, shared to use the directory, exclusive to install it anew.    *)
(* flock gives the old lock up before it waits for the new one, also when  *)
(* an exclusive lock becomes a shared one.                                 *)
(*                                                                         *)
(* The hash of the installed archive is bytes and the one of the server    *)
(* str, which are never equal in Python 3: a check for a newer version     *)
(* that gets an answer always asks for an installation, so the model needs *)
(* no versions.                                                            *)
(*                                                                         *)
(* Operators called Wrong... are faulty variants of the definition that    *)
(* follows them, used only by the sensitivity checks.                      *)
(***************************************************************************)
EXTENDS Integers, Sequences

CONSTANTS
    Processes,      \* worker processes
    Threads,        \* their threads
    ProcessOf,      \* [Threads -> Processes]
    Sandboxes,      \* names of sandboxes
    Orders,         \* sequences of sandboxes, the orders in which a thread
                    \* enters the ones it needs at the same time
    MaxDeaths,      \* bound on the processes that are killed
    None

ASSUME SandboxAssumption ==
    /\ ProcessOf \in [Threads -> Processes]
    /\ \A order \in Orders : order \in Seq(Sandboxes) /\ order # <<>>
    /\ MaxDeaths \in Nat
    /\ None \notin Threads

VARIABLES
    pc,         \* [Threads -> where the thread is]
    plan,       \* [Threads -> the order it enters sandboxes in]
    depth,      \* [Threads -> how many of them it is inside of]
    localLock,  \* [Processes -> [Sandboxes -> Threads or None]]: local_lock
    inContext,  \* [Processes -> [Sandboxes -> Nat]]: _in_context
    lock,       \* [Processes -> [Sandboxes -> "none", "shared" or "exclusive"]]
    content,    \* [Sandboxes -> "absent", "partial" or "whole"]: the directory,
                \* whole with the patched files and .fixups_operative
    fixups,     \* sandboxes with a complete .fixups_applied
    lastCheck,  \* [Sandboxes -> "absent", "recent" or "old"]: .last_check
    torn,       \* history: sandboxes that UsersSeeWhole excepts, until they
                \* are removed
    deaths      \* processes killed so far

threadVars == <<pc, plan, depth>>
diskVars == <<content, fixups, lastCheck, torn>>
sandboxVars == <<threadVars, localLock, inContext, lock, diskVars, deaths>>

Installing == {"removing", "fetch", "extracting", "fixing", "marking"}

Process(t) == ProcessOf[t]

\* The sandbox the thread is entering, and the ones it is inside of.
Target(t) == plan[t][depth[t] + 1]
Inside(t) == {plan[t][k] : k \in 1..depth[t]}

Others(t) == Processes \ {Process(t)}

Goto(t, place) == pc' = [pc EXCEPT ![t] = place]

SetLock(t, mode) == lock' = [lock EXCEPT ![Process(t)][Target(t)] = mode]

\* __enter__ of the target returns.
Entered(t) ==
    /\ depth' = [depth EXCEPT ![t] = @ + 1]
    /\ Goto(t, IF depth[t] + 1 = Len(plan[t]) THEN "using" ELSE "entering")

Release(t) == localLock' = [localLock EXCEPT ![Process(t)][Target(t)] = None]

-----------------------------------------------------------------------------
\* An executor is constructed or entered.
UseExecutor(t, order) ==
    /\ pc[t] = "idle"
    /\ plan' = [plan EXCEPT ![t] = order]
    /\ Goto(t, "entering")
    /\ UNCHANGED <<depth, localLock, inContext, lock, diskVars, deaths>>

\* __enter__ when another thread of the process is inside.
EnterAgain(t) ==
    /\ pc[t] = "entering" /\ localLock[Process(t)][Target(t)] = None
    /\ inContext[Process(t)][Target(t)] > 0
    /\ inContext' = [inContext EXCEPT ![Process(t)][Target(t)] = @ + 1]
    /\ Entered(t)
    /\ UNCHANGED <<plan, localLock, lock, diskVars, deaths>>

\* __enter__ otherwise: local_lock is held until _get is over.
EnterFirst(t) ==
    /\ pc[t] = "entering" /\ localLock[Process(t)][Target(t)] = None
    /\ inContext[Process(t)][Target(t)] = 0
    /\ inContext' = [inContext EXCEPT ![Process(t)][Target(t)] = 1]
    /\ localLock' = [localLock EXCEPT ![Process(t)][Target(t)] = t]
    /\ Goto(t, "lock_shared")
    /\ UNCHANGED <<plan, depth, lock, diskVars, deaths>>

LockShared(t) ==
    /\ pc[t] = "lock_shared"
    /\ \A q \in Others(t) : lock[q][Target(t)] # "exclusive"
    /\ SetLock(t, "shared")
    /\ Goto(t, "check")
    /\ UNCHANGED <<plan, depth, localLock, inContext, diskVars, deaths>>

\* _should_install_sandbox can return False: the directory looks installed and
\* was checked recently, or the check raises (no .last_check, no answer from the
\* server).  Each way .last_check is recent afterwards.
Installed(s) == content[s] # "absent" /\ s \in fixups

MarkChecked(s) == lastCheck' = [lastCheck EXCEPT ![s] = "recent"]

\* _should_install_sandbox can return True.
NeedsInstall(s) == ~Installed(s) \/ lastCheck[s] = "old"

CheckPasses(t) ==
    /\ pc[t] = "check" /\ Installed(Target(t))
    /\ MarkChecked(Target(t))
    /\ Release(t)
    /\ Entered(t)
    /\ UNCHANGED <<plan, inContext, lock, content, fixups, torn, deaths>>

\* Waits for the exclusive lock without giving the shared one up.
WrongCheckFails(t) ==
    /\ pc[t] = "check" /\ NeedsInstall(Target(t))
    /\ Goto(t, "lock_exclusive")
    /\ UNCHANGED <<plan, depth, lock, localLock, inContext, diskVars, deaths>>

CheckFails(t) ==
    /\ pc[t] = "check" /\ NeedsInstall(Target(t))
    /\ SetLock(t, "none")
    /\ Goto(t, "lock_exclusive")
    /\ UNCHANGED <<plan, depth, localLock, inContext, diskVars, deaths>>

LockExclusive(t) ==
    /\ pc[t] = "lock_exclusive"
    /\ \A q \in Others(t) : lock[q][Target(t)] = "none"
    /\ SetLock(t, "exclusive")
    /\ Goto(t, "recheck")
    /\ UNCHANGED <<plan, depth, localLock, inContext, diskVars, deaths>>

\* Another process installed it meanwhile: lock_shared() starts with an unlock.
RecheckPasses(t) ==
    /\ pc[t] = "recheck" /\ Installed(Target(t))
    /\ MarkChecked(Target(t))
    /\ SetLock(t, "none")
    /\ Goto(t, "downgrade")
    /\ UNCHANGED <<plan, depth, localLock, inContext, content, fixups, torn, deaths>>

\* rmtree is half way: any of the marker files may be gone.
RemoveSome(t) ==
    /\ pc[t] = "recheck" /\ NeedsInstall(Target(t)) /\ content[Target(t)] # "absent"
    /\ content' = [content EXCEPT ![Target(t)] = "partial"]
    /\ fixups' \in {fixups, fixups \ {Target(t)}}
    /\ lastCheck' \in {lastCheck, [lastCheck EXCEPT ![Target(t)] = "absent"]}
    /\ Goto(t, "removing")
    /\ UNCHANGED <<plan, depth, localLock, inContext, lock, torn, deaths>>

\* The directory is gone, or there was none.
RemoveRest(t) ==
    /\ \/ pc[t] = "removing"
       \/ pc[t] = "recheck" /\ content[Target(t)] = "absent"
    /\ content' = [content EXCEPT ![Target(t)] = "absent"]
    /\ fixups' = fixups \ {Target(t)}
    /\ lastCheck' = [lastCheck EXCEPT ![Target(t)] = "absent"]
    /\ torn' = torn \ {Target(t)}
    /\ Goto(t, "fetch")
    /\ UNCHANGED <<plan, depth, localLock, inContext, lock, deaths>>

\* Marks the fixups before the files are there.
WrongExtract(t) ==
    /\ pc[t] = "fetch"
    /\ content' = [content EXCEPT ![Target(t)] = "partial"]
    /\ fixups' = fixups \cup {Target(t)}
    /\ Goto(t, "extracting")
    /\ UNCHANGED <<plan, depth, localLock, inContext, lock, lastCheck, torn, deaths>>

\* The archive is there, from the filetracker or by HTTP; extractall begins.
Extract(t) ==
    /\ pc[t] = "fetch"
    /\ content' = [content EXCEPT ![Target(t)] = "partial"]
    /\ Goto(t, "extracting")
    /\ UNCHANGED <<plan, depth, localLock, inContext, lock, fixups, lastCheck, torn, deaths>>

\* extractall ends; _apply_fixups patches the files and writes .fixups_applied ...
ApplyFixups(t) ==
    /\ pc[t] = "extracting"
    /\ fixups' = fixups \cup {Target(t)}
    /\ Goto(t, "fixing")
    /\ UNCHANGED <<plan, depth, localLock, inContext, lock, content, lastCheck, torn, deaths>>

\* ... and then .fixups_operative, which has_fixup reads.
WriteOperative(t) ==
    /\ pc[t] = "fixing"
    /\ content' = [content EXCEPT ![Target(t)] = "whole"]
    /\ Goto(t, "marking")
    /\ UNCHANGED <<plan, depth, localLock, inContext, lock, fixups, lastCheck, torn, deaths>>

\* .hash, _mark_checked, then lock_shared(), which starts with an unlock.
InstallDone(t) ==
    /\ pc[t] = "marking"
    /\ MarkChecked(Target(t))
    /\ SetLock(t, "none")
    /\ Goto(t, "downgrade")
    /\ UNCHANGED <<plan, depth, localLock, inContext, content, fixups, torn, deaths>>

Downgrade(t) ==
    /\ pc[t] = "downgrade"
    /\ \A q \in Others(t) : lock[q][Target(t)] # "exclusive"
    /\ SetLock(t, "shared")
    /\ Release(t)
    /\ Entered(t)
    /\ UNCHANGED <<plan, inContext, diskVars, deaths>>

\* The installation of t breaks off in the middle of the removal, between the two
\* files of _apply_fixups, or while another process waits for the shared lock and
\* will not check again.
Tears(t) ==
    \/ pc[t] \in {"removing", "fixing"}
    \/ /\ pc[t] \in Installing
       /\ \E u \in Threads : pc[u] = "downgrade" /\ Target(u) = Target(t)

\* Something of the installation raises: unlock, _in_context -= 1, and the
\* sandboxes entered before are left.
InstallFails(t) ==
    /\ pc[t] \in Installing
    /\ torn' = IF Tears(t) THEN torn \cup {Target(t)} ELSE torn
    /\ SetLock(t, "none")
    /\ inContext' = [inContext EXCEPT ![Process(t)][Target(t)] = @ - 1]
    /\ Release(t)
    /\ Goto(t, IF depth[t] = 0 THEN "idle" ELSE "leaving")
    /\ UNCHANGED <<plan, depth, content, fixups, lastCheck, deaths>>

\* Unlocks whoever else is inside.
WrongLeave(t) ==
    /\ pc[t] \in {"using", "leaving"}
    /\ LET s == plan[t][depth[t]]
       IN  /\ localLock[Process(t)][s] = None
           /\ inContext' = [inContext EXCEPT ![Process(t)][s] = @ - 1]
           /\ lock' = [lock EXCEPT ![Process(t)][s] = "none"]
    /\ depth' = [depth EXCEPT ![t] = @ - 1]
    /\ Goto(t, IF depth[t] = 1 THEN "idle" ELSE "leaving")
    /\ UNCHANGED <<plan, localLock, diskVars, deaths>>

\* __exit__ of the sandbox that was entered last.
Leave(t) ==
    /\ pc[t] \in {"using", "leaving"}
    /\ LET s == plan[t][depth[t]]
       IN  /\ localLock[Process(t)][s] = None
           /\ inContext' = [inContext EXCEPT ![Process(t)][s] = @ - 1]
           /\ lock' = IF inContext[Process(t)][s] = 1
                      THEN [lock EXCEPT ![Process(t)][s] = "none"] ELSE lock
    /\ depth' = [depth EXCEPT ![t] = @ - 1]
    /\ Goto(t, IF depth[t] = 1 THEN "idle" ELSE "leaving")
    /\ UNCHANGED <<plan, localLock, diskVars, deaths>>

-----------------------------------------------------------------------------
\* A process is killed and started again; the kernel drops its locks.
Die(p) ==
    LET mine == {t \in Threads : Process(t) = p}
    IN  /\ deaths < MaxDeaths /\ deaths' = deaths + 1
        /\ torn' = torn \cup {Target(t) : t \in {u \in mine : Tears(u)}}
        /\ pc' = [t \in Threads |-> IF t \in mine THEN "idle" ELSE pc[t]]
        /\ depth' = [t \in Threads |-> IF t \in mine THEN 0 ELSE depth[t]]
        /\ localLock' = [localLock EXCEPT ![p] = [s \in Sandboxes |-> None]]
        /\ inContext' = [inContext EXCEPT ![p] = [s \in Sandboxes |-> 0]]
        /\ lock' = [lock EXCEPT ![p] = [s \in Sandboxes |-> "none"]]
        /\ UNCHANGED <<plan, content, fixups, lastCheck>>

\* CHECK_INTERVAL since the last check is over.
TimePasses(s) ==
    /\ lastCheck[s] = "recent"
    /\ lastCheck' = [lastCheck EXCEPT ![s] = "old"]
    /\ UNCHANGED <<threadVars, localLock, inContext, lock, content, fixups, torn, deaths>>

SandboxInit ==
    /\ pc = [t \in Threads |-> "idle"]
    /\ plan = [t \in Threads |-> <<>>]
    /\ depth = [t \in Threads |-> 0]
    /\ localLock = [p \in Processes |-> [s \in Sandboxes |-> None]]
    /\ inContext = [p \in Processes |-> [s \in Sandboxes |-> 0]]
    /\ lock = [p \in Processes |-> [s \in Sandboxes |-> "none"]]
    /\ content = [s \in Sandboxes |-> "absent"]
    /\ fixups = {}
    /\ lastCheck = [s \in Sandboxes |-> "absent"]
    /\ torn = {} /\ deaths = 0

SandboxNext ==
    \/ \E t \in Threads :
          \/ \E order \in Orders : UseExecutor(t, order)
          \/ EnterAgain(t) \/ EnterFirst(t)
          \/ LockShared(t) \/ CheckPasses(t) \/ CheckFails(t)
          \/ LockExclusive(t) \/ RecheckPasses(t)
          \/ RemoveSome(t) \/ RemoveRest(t) \/ Extract(t) \/ ApplyFixups(t)
          \/ WriteOperative(t) \/ InstallDone(t) \/ Downgrade(t) \/ InstallFails(t)
          \/ Leave(t)
    \/ \E p \in Processes : Die(p)
    \/ \E s \in Sandboxes : TimePasses(s)

SandboxSpec == SandboxInit /\ [][SandboxNext]_sandboxVars

-----------------------------------------------------------------------------
(***************************************************************************)
(* Correctness.                                                            *)
(***************************************************************************)
\* The thread that installs a sandbox is alone with it on the machine: nobody
\* installs it at the same time, in this process or another, and nobody uses it
\* ("the folder is locked to ensure no problems if an upgrade is needed").
InstallerIsAlone ==
    \A t \in Threads : pc[t] \in Installing =>
        \A u \in Threads \ {t} :
            /\ Target(t) \notin Inside(u)
            /\ ~(pc[u] \in Installing /\ Target(u) = Target(t))

\* Whoever is inside a sandbox sees it whole and keeps seeing it so, whatever was
\* interrupted before: "Checks if the sandbox is correctly installed".  There are
\* three exceptions.  A sandbox whose removal was interrupted may keep its
\* .fixups_applied and then passes the check.  So does one whose installation
\* broke off after .fixups_applied and before .fixups_operative, without which
\* has_fixup raises.  And a process that turns its exclusive lock into a shared
\* one does not check again, though another one may have started an installation
\* in between, and failed.
UsersSeeWhole ==
    \A t \in Threads : \A s \in Inside(t) \ torn : content[s] = "whole"

\* The thread t cannot go on before u does.
WaitsFor(t, u) ==
    \/ pc[t] = "entering" /\ localLock[Process(t)][Target(t)] = u
    \/ /\ pc[t] \in {"lock_shared", "lock_exclusive", "downgrade"}
       /\ Process(t) # Process(u)
       /\ \/ lock[Process(u)][Target(t)] = "exclusive"
          \/ pc[t] = "lock_exclusive" /\ lock[Process(u)][Target(t)] = "shared"
       /\ \/ Target(t) \in Inside(u)
          \/ localLock[Process(u)][Target(t)] = u

\* "It is also safe to use the same sandbox by multiple processes concurrently":
\* in any set of threads there is one that waits for no other of them.
NoDeadlock ==
    \A S \in (SUBSET Threads) \ {{}} : \E t \in S : \A u \in S : ~WaitsFor(t, u)
=============================================================================
