----------------------------- MODULE ResultStore -----------------------------
(***************************************************************************)
(* The life of an asynchronous group across crashes of the daemon: the job *)
(* database (taskmanager.py, DBWrapper), startService, and returnToSio     *)
(* with its retries.  Judging itself is one step here; Sioworkersd is its  *)
(* detailed model.                                                         *)
(*                                                                         *)
(* The database is Berkeley DB without transactions: `db' is what the      *)
(* process sees, `disk' what a crash leaves.  sync() copies everything,    *)
(* and a page may reach the disk at any time before that.                  *)
(*                                                                         *)
(* Operators called Wrong... are faulty variants of the definition that    *)
(* follows them, used only by the sensitivity checks.                      *)
(*                                                                         *)
(* A group without return_url is never saved and is not modelled: its      *)
(* client waits on the connection and learns of the crash from it.         *)
(***************************************************************************)
EXTENDS Integers

CONSTANTS
    Groups,         \* group ids (uuid4, each used once)
    Rejected,       \* groups with a task above max_task_ram_mb
    MaxRetries,     \* MAX_RETRIES_OF_RESULT_RETURNING
    MaxCrashes,     \* bound on the crashes of the daemon
    None            \* Python's None, and an absent key

ASSUME StoreAssumption ==
    /\ Rejected \subseteq Groups
    /\ MaxRetries \in Nat /\ MaxCrashes \in Nat
    /\ None \notin {"to_judge", "to_return"}

VARIABLES
    db,         \* [Groups -> record or None]
    disk,       \* [Groups -> record or None]
    stage,      \* [Groups -> Stages]: what this process does about the group
    attempt,    \* [Groups -> Nat]: argument of the retry() that a failure of the
                \* current attempt calls
    retrying,   \* groups whose current attempt was started by retry()
    service,    \* "up", "down", or "failed": startService raised
    crashes,    \* crashes so far
    \* History: what the client of the daemon has seen.
    acked,      \* run_group returned the group id of a valid group
    returned,   \* the return_url accepted the result
    gaveUp      \* "Failed to return {tid} {count} times, giving up."

memoryVars == <<stage, attempt, retrying>>
clientVars == <<acked, returned, gaveUp>>
storeVars == <<db, disk, memoryVars, service, crashes, clientVars>>

\* "unknown": not in this process.  "judging": in inProgress.  "posting": a POST
\* is under way.  "waiting": deferLater between two attempts.  "done": _returnDone.
Stages == {"unknown", "judging", "posting", "waiting", "done"}

\* A JSON object with the keys of `status' and `retry_cnt'.  The keys id, env and
\* timestamp are written together with the first status.
Records == [status : {"to_judge", "to_return", None}, cnt : Nat \cup {None}]

ASSUME RecordsAssumption == None \notin Records

Complete(record) == record # None /\ record.status # None

\* DBWrapper.update merges into the record, an empty one when there is none.
WithStatus(record, s) ==
    [status |-> s, cnt |-> IF record = None THEN None ELSE record.cnt]

WithCount(record, n) ==
    [status |-> IF record = None THEN None ELSE record.status, cnt |-> n]

-----------------------------------------------------------------------------
\* Saves the record and leaves the sync to the periodic task.
WrongRunGroup(g) ==
    /\ service # "down" /\ g \notin Rejected
    /\ stage[g] = "unknown" /\ disk[g] = None /\ g \notin acked
    /\ db' = [db EXCEPT ![g] = [status |-> "to_judge", cnt |-> 0]]
    /\ UNCHANGED disk
    /\ stage' = [stage EXCEPT ![g] = "judging"]
    /\ acked' = acked \cup {g}
    /\ UNCHANGED <<attempt, retrying, service, crashes, returned, gaveUp>>

\* xmlrpc_run_group of a valid group: addTaskGroup saves and syncs it before
\* _addGroup, then the id goes back to the client.
RunGroup(g) ==
    /\ service # "down" /\ g \notin Rejected
    /\ stage[g] = "unknown" /\ disk[g] = None /\ g \notin acked
    /\ db' = [db EXCEPT ![g] = [status |-> "to_judge", cnt |-> 0]]
    /\ disk' = db'
    /\ stage' = [stage EXCEPT ![g] = "judging"]
    /\ acked' = acked \cup {g}
    /\ UNCHANGED <<attempt, retrying, service, crashes, returned, gaveUp>>

\* A group that _isTaskValid refuses is not saved; its error is returned at once.
RejectGroup(g) ==
    /\ service # "down" /\ g \in Rejected
    /\ stage[g] = "unknown" /\ disk[g] = None
    /\ stage' = [stage EXCEPT ![g] = "posting"]
    /\ attempt' = [attempt EXCEPT ![g] = 0]
    /\ retrying' = retrying \ {g}
    /\ UNCHANGED <<db, disk, service, crashes, clientVars>>

\* The group's _taskDone, then returnToSio starts the first POST.  Without
\* startService there is no callback for workers, so nothing is judged.
Judged(g) ==
    /\ service = "up" /\ stage[g] = "judging"
    /\ db' = [db EXCEPT ![g] = WithStatus(@, "to_return")]
    /\ stage' = [stage EXCEPT ![g] = "posting"]
    /\ attempt' = [attempt EXCEPT ![g] = 0]
    /\ retrying' = retrying \ {g}
    /\ UNCHANGED <<disk, service, crashes, clientVars>>

\* _updateCount follows an attempt that retry() started, never the first one.
Counted(g) == IF g \in retrying THEN WithCount(db[g], attempt[g] - 1) ELSE db[g]

\* Status 200: _updateCount, then _returnDone deletes the record.  For a group
\* that was never saved the delete raises KeyError, which changes nothing.
ReturnSucceeds(g) ==
    /\ stage[g] = "posting"
    /\ returned' = returned \cup {g}
    /\ db' = [db EXCEPT ![g] = None]
    /\ stage' = [stage EXCEPT ![g] = "done"]
    /\ UNCHANGED <<disk, attempt, retrying, service, crashes, acked, gaveUp>>

\* Gives up without _returnDone.
WrongReturnFails(g, accepted) ==
    /\ stage[g] = "posting"
    /\ returned' = IF accepted THEN returned \cup {g} ELSE returned
    /\ db' = [db EXCEPT ![g] = Counted(g)]
    /\ \/ /\ attempt[g] >= MaxRetries
          /\ gaveUp' = gaveUp \cup {g}
          /\ stage' = [stage EXCEPT ![g] = "done"]
       \/ /\ attempt[g] < MaxRetries
          /\ stage' = [stage EXCEPT ![g] = "waiting"]
          /\ UNCHANGED gaveUp
    /\ UNCHANGED <<disk, attempt, retrying, service, crashes, acked>>

\* The attempt fails, possibly after the server had accepted the result.
\* retry() gives up after MaxRetries, otherwise it waits.
ReturnFails(g, accepted) ==
    /\ stage[g] = "posting"
    /\ returned' = IF accepted THEN returned \cup {g} ELSE returned
    /\ \/ /\ attempt[g] >= MaxRetries
          /\ gaveUp' = gaveUp \cup {g}
          /\ db' = [db EXCEPT ![g] = None]
          /\ stage' = [stage EXCEPT ![g] = "done"]
       \/ /\ attempt[g] < MaxRetries
          /\ db' = [db EXCEPT ![g] = Counted(g)]
          /\ stage' = [stage EXCEPT ![g] = "waiting"]
          /\ UNCHANGED gaveUp
    /\ UNCHANGED <<disk, attempt, retrying, service, crashes, acked>>

\* Passes the same count on.
WrongRetryReturn(g) ==
    /\ stage[g] = "waiting"
    /\ stage' = [stage EXCEPT ![g] = "posting"]
    /\ retrying' = retrying \cup {g}
    /\ UNCHANGED <<db, disk, attempt, service, crashes, clientVars>>

\* The delay is over: do_return; a failure calls retry(retry_cnt + 1).
RetryReturn(g) ==
    /\ stage[g] = "waiting"
    /\ stage' = [stage EXCEPT ![g] = "posting"]
    /\ attempt' = [attempt EXCEPT ![g] = @ + 1]
    /\ retrying' = retrying \cup {g}
    /\ UNCHANGED <<db, disk, service, crashes, clientVars>>

-----------------------------------------------------------------------------
\* db_sync_task.
Sync ==
    /\ service # "down"
    /\ disk' = db
    /\ UNCHANGED <<db, memoryVars, service, crashes, clientVars>>

\* The library writes a page back by itself.
WriteBack(g) ==
    /\ service # "down"
    /\ disk' = [disk EXCEPT ![g] = db[g]]
    /\ UNCHANGED <<db, memoryVars, service, crashes, clientVars>>

Crash ==
    /\ service # "down" /\ crashes < MaxCrashes
    /\ service' = "down" /\ crashes' = crashes + 1
    /\ db' = disk
    /\ stage' = [g \in Groups |-> "unknown"]
    /\ UNCHANGED <<disk, attempt, retrying, clientVars>>

\* Resumes the judging and forgets the results that wait to be returned.
WrongResume ==
    /\ stage' = [g \in Groups |->
           IF Complete(db[g]) /\ db[g].status = "to_judge" THEN "judging" ELSE "unknown"]
    /\ attempt' = [g \in Groups |-> 0]
    /\ retrying' = {}

\* startService's loop over the records.
Resume ==
    /\ stage' = [g \in Groups |->
           CASE ~Complete(db[g]) -> "unknown"
             [] Complete(db[g]) /\ db[g].status = "to_judge" -> "judging"
             [] Complete(db[g]) /\ db[g].status = "to_return" -> "posting"]
    /\ attempt' = [g \in Groups |->
           IF Complete(db[g]) /\ db[g].status = "to_return" THEN db[g].cnt ELSE 0]
    /\ retrying' = {}

\* startService: the sort needs the timestamp of every record.
Restart ==
    /\ service = "down"
    /\ \/ /\ \A g \in Groups : db[g] # None => Complete(db[g])
          /\ service' = "up"
          /\ Resume
       \/ /\ \E g \in Groups : db[g] # None /\ ~Complete(db[g])
          /\ service' = "failed"
          /\ UNCHANGED memoryVars
    /\ UNCHANGED <<db, disk, crashes, clientVars>>

-----------------------------------------------------------------------------
StoreInit ==
    /\ db = [g \in Groups |-> None]
    /\ disk = [g \in Groups |-> None]
    /\ stage = [g \in Groups |-> "unknown"]
    /\ attempt = [g \in Groups |-> 0]
    /\ retrying = {}
    /\ service = "up"
    /\ crashes = 0
    /\ acked = {} /\ returned = {} /\ gaveUp = {}

StoreNext ==
    \/ \E g \in Groups : \/ RunGroup(g)
                         \/ RejectGroup(g)
                         \/ Judged(g)
                         \/ ReturnSucceeds(g)
                         \/ \E accepted \in BOOLEAN : ReturnFails(g, accepted)
                         \/ RetryReturn(g)
                         \/ WriteBack(g)
    \/ Sync
    \/ Crash
    \/ Restart

StoreSpec == StoreInit /\ [][StoreNext]_storeVars

\* The reactor fires the timer of deferLater.  Nothing else is sure to happen: a group
\* may wait for a worker for ever, no timeout ends a POST that is not answered, and
\* a daemon that is down may stay so.
StoreFairness == \A g \in Groups : WF_storeVars(RetryReturn(g))

FairStoreSpec == StoreSpec /\ StoreFairness

-----------------------------------------------------------------------------
(***************************************************************************)
(* Correctness.                                                            *)
(***************************************************************************)
\* Types of the store and of the history.
StoreTypeOK ==
    /\ db \in [Groups -> Records \cup {None}]
    /\ disk \in [Groups -> Records \cup {None}]
    /\ stage \in [Groups -> Stages]
    /\ attempt \in [Groups -> Nat]
    /\ retrying \subseteq Groups
    /\ service \in {"up", "down", "failed"}
    /\ crashes \in 0..MaxCrashes
    /\ acked \subseteq Groups /\ returned \subseteq Groups /\ gaveUp \subseteq Groups

\* Groups the daemon still owes a result to.
Owed == acked \ (returned \cup gaveUp)

\* Whenever the daemon may crash, an accepted group whose result was neither
\* taken by its return_url nor given up is on the disk, whole: addTaskGroup
\* syncs before it answers, and no unsynced update or delete comes too early.
AcceptedIsDurable == \A g \in Owed : Complete(disk[g])

\* A daemon that is up works on every group it owes a result to, whatever it
\* crashed in the middle of.
OwedIsPursued ==
    service = "up" => \A g \in Owed : stage[g] \in {"judging", "posting", "waiting"}

\* The records and the work agree: a daemon that is up has a whole record of
\* exactly the accepted groups it is working on.  A record never outlives
\* _returnDone, and one that a crash brought back is worked on again.
FinishedIsDeleted ==
    service = "up" => \A g \in Groups :
        Complete(db[g]) <=> stage[g] \in {"judging", "posting", "waiting"} /\ g \notin Rejected

\* "Unfinished jobs found in database, resuming them...": once startService has
\* run, every group the daemon owes a result to is being worked on.
RestartResumes ==
    service # "down" => \A g \in Owed : stage[g] \in {"judging", "posting", "waiting"}

\* What the daemon's surroundings do for a group: the daemon is started again after
\* each crash and finds only whole records, the judging does not go on for ever, and
\* neither does a POST.
Attended(g) ==
    /\ []<>(service = "up")
    /\ []<>(stage[g] # "judging")
    /\ []<>(stage[g] # "posting")

\* Relative to that, an accepted group is returned or given up in the end, however
\* often its result is refused and wherever the daemon crashes, provided that it
\* stops crashing: the count of the attempts survives or starts again, but no chain
\* of retries and restarts goes on for ever or ends without an outcome.
OwedIsSettled == \A g \in Groups : Attended(g) => []<>(g \notin Owed)
=============================================================================
