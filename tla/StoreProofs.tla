----------------------------- MODULE StoreProofs ------------------------------
(***************************************************************************)
(* Proofs about ResultStore, for every set of groups and any number of     *)
(* retries and crashes: an accepted group survives until its result is     *)
(* returned or given up, and a daemon that is up works on exactly the      *)
(* groups it has records of.                                               *)
(***************************************************************************)
EXTENDS ResultStore, TLAPS

\* What the process sees of a group it owes a result to is whole too, so that
\* no page written back can spoil the disk.
OwedIsRecorded == \A g \in Owed : Complete(db[g])

\* A rejected group never gets a whole record, and is never judged.
RejectedIsNotRecorded ==
    \A g \in Rejected :
        ~Complete(db[g]) /\ ~Complete(disk[g]) /\ stage[g] # "judging" /\ g \notin acked

\* A whole record has a count, which startService starts from.
CountsAreKnown ==
    \A g \in Groups : /\ Complete(db[g]) => db[g].cnt \in Nat
                      /\ Complete(disk[g]) => disk[g].cnt \in Nat

\* An attempt that retry() started is not the first.
RetriesAreCounted == \A g \in retrying : attempt[g] >= 1

(***************************************************************************)
(* The inductive invariant.  AcceptedIsDurable alone is not inductive: a   *)
(* sync makes the disk what the process sees (OwedIsRecorded), an update   *)
(* of the status of a group must find its record (FinishedIsDeleted), and  *)
(* only valid groups are judged (RejectedIsNotRecorded).                   *)
(***************************************************************************)
StoreInv ==
    /\ StoreTypeOK
    /\ AcceptedIsDurable
    /\ FinishedIsDeleted
    /\ OwedIsRecorded
    /\ RejectedIsNotRecorded
    /\ CountsAreKnown
    /\ RetriesAreCounted

-----------------------------------------------------------------------------
\* DBWrapper.update merges: it keeps what it does not change.
LEMMA UpdateMerges ==
    ASSUME NEW r \in Records \cup {None}, NEW n \in Nat
    PROVE  /\ WithCount(r, n) \in Records
           /\ WithStatus(r, "to_return") \in Records
           /\ Complete(WithCount(r, n)) <=> Complete(r)
           /\ WithCount(r, n).cnt = n
           /\ Complete(WithStatus(r, "to_return"))
           /\ r # None => WithStatus(r, "to_return").cnt = r.cnt
BY StoreAssumption, RecordsAssumption DEF WithCount, WithStatus, Complete, Records

\* The record of a group that is posted keeps its status.
LEMMA CountedKeepsStatus ==
    ASSUME StoreInv, NEW g \in Groups
    PROVE  /\ Counted(g) \in Records \cup {None}
           /\ Complete(Counted(g)) <=> Complete(db[g])
           /\ Complete(Counted(g)) => Counted(g).cnt \in Nat
<1>1. CASE g \in retrying
  <2>1. attempt[g] - 1 \in Nat
    BY <1>1 DEF StoreInv, StoreTypeOK, RetriesAreCounted
  <2> QED
    BY <1>1, <2>1, UpdateMerges DEF StoreInv, StoreTypeOK, Counted
<1>2. CASE g \notin retrying
  BY <1>2 DEF StoreInv, StoreTypeOK, CountsAreKnown, Counted
<1> QED
  BY <1>1, <1>2

-----------------------------------------------------------------------------
LEMMA StoreInitInv == StoreInit => StoreInv
BY StoreAssumption
   DEF StoreInit, StoreInv, StoreTypeOK, AcceptedIsDurable, FinishedIsDeleted, OwedIsRecorded,
       RejectedIsNotRecorded, CountsAreKnown, RetriesAreCounted, Owed, Complete, Stages

\* A valid group is accepted.
LEMMA RunGroupStep ==
    ASSUME StoreInv, NEW g \in Groups, RunGroup(g)
    PROVE  StoreInv'
<1> DEFINE r == [status |-> "to_judge", cnt |-> 0]
<1>1. r \in Records /\ Complete(r) /\ r.cnt \in Nat
  BY StoreAssumption, RecordsAssumption DEF Records, Complete
<1>2. /\ db' = [db EXCEPT ![g] = r] /\ disk' = db'
      /\ stage' = [stage EXCEPT ![g] = "judging"]
      /\ acked' = acked \cup {g} /\ g \notin Rejected
      /\ UNCHANGED <<attempt, retrying, service, crashes, returned, gaveUp>>
  BY DEF RunGroup
<1>3. Owed' \subseteq Owed \cup {g}
  BY <1>2 DEF Owed
<1> HIDE DEF r
<1>4. StoreTypeOK'
  BY <1>1, <1>2 DEF StoreInv, StoreTypeOK, Stages
<1>5. \A h \in Groups : db'[h] = IF h = g THEN r ELSE db[h]
  BY <1>2 DEF StoreInv, StoreTypeOK
<1>6. Owed \subseteq Groups
  BY DEF Owed, StoreInv, StoreTypeOK
<1>7. OwedIsRecorded' /\ AcceptedIsDurable'
  BY <1>1, <1>2, <1>3, <1>5, <1>6 DEF StoreInv, OwedIsRecorded, AcceptedIsDurable, Complete
<1>8. FinishedIsDeleted'
  BY <1>1, <1>2, <1>5 DEF StoreInv, StoreTypeOK, FinishedIsDeleted, Complete
<1>9. RejectedIsNotRecorded' /\ CountsAreKnown' /\ RetriesAreCounted'
  BY StoreAssumption, <1>1, <1>2, <1>5
     DEF StoreInv, StoreTypeOK, RejectedIsNotRecorded, CountsAreKnown, RetriesAreCounted, Complete
<1> QED
  BY <1>4, <1>7, <1>8, <1>9 DEF StoreInv

\* A group that is too large is answered without a record.
LEMMA RejectGroupStep ==
    ASSUME StoreInv, NEW g \in Groups, RejectGroup(g)
    PROVE  StoreInv'
BY StoreAssumption
   DEF StoreInv, RejectGroup, StoreTypeOK, AcceptedIsDurable, FinishedIsDeleted, OwedIsRecorded,
       RejectedIsNotRecorded, CountsAreKnown, RetriesAreCounted, Owed, Complete, Stages, clientVars

\* A step that changes only the record and the stage of one group.
LEMMA OneRecordStep ==
    ASSUME StoreInv, NEW g \in Groups, NEW r \in Records \cup {None},
           NEW s \in Stages \ {"unknown", "judging"},
           stage[g] \in {"judging", "posting"},
           db' = [db EXCEPT ![g] = r], stage' = [stage EXCEPT ![g] = s],
           UNCHANGED <<disk, service, crashes, acked>>,
           StoreTypeOK', RetriesAreCounted',
           Complete(r) => r.cnt \in Nat,
           Complete(r) <=> s # "done" /\ Complete(db[g]),
           Owed' \subseteq Owed, s = "done" => g \notin Owed'
    PROVE  StoreInv'
<1>1. \A h \in Groups : /\ db'[h] = IF h = g THEN r ELSE db[h]
                        /\ stage'[h] = IF h = g THEN s ELSE stage[h]
  BY DEF StoreInv, StoreTypeOK
<1>2. Owed \subseteq Groups
  BY DEF Owed, StoreInv, StoreTypeOK
<1>3. OwedIsRecorded' /\ AcceptedIsDurable'
  BY <1>1, <1>2 DEF StoreInv, OwedIsRecorded, AcceptedIsDurable, Complete
<1>4. FinishedIsDeleted'
  BY <1>1 DEF StoreInv, FinishedIsDeleted, Complete, Stages
<1>5. RejectedIsNotRecorded' /\ CountsAreKnown'
  BY StoreAssumption, <1>1 DEF StoreInv, RejectedIsNotRecorded, CountsAreKnown, Complete
<1> QED
  BY <1>3, <1>4, <1>5 DEF StoreInv

\* The group is judged; its record is there to be updated.
LEMMA JudgedStep ==
    ASSUME StoreInv, NEW g \in Groups, Judged(g)
    PROVE  StoreInv'
<1> DEFINE r == WithStatus(db[g], "to_return")
<1>1. /\ db' = [db EXCEPT ![g] = r] /\ stage' = [stage EXCEPT ![g] = "posting"]
      /\ attempt' = [attempt EXCEPT ![g] = 0] /\ retrying' = retrying \ {g}
      /\ service = "up" /\ stage[g] = "judging"
      /\ UNCHANGED <<disk, service, crashes, acked, returned, gaveUp>>
  BY DEF Judged, clientVars
<1>2. Complete(db[g])
  BY <1>1 DEF StoreInv, FinishedIsDeleted, RejectedIsNotRecorded
<1>3. db[g] \in Records \cup {None} /\ db[g] # None /\ 0 \in Nat
  BY <1>2 DEF StoreInv, StoreTypeOK, Complete
<1>4. r \in Records /\ Complete(r) /\ r.cnt \in Nat
  BY <1>2, <1>3, UpdateMerges DEF StoreInv, CountsAreKnown
<1> HIDE DEF r
<1>5. StoreTypeOK' /\ RetriesAreCounted' /\ Owed' = Owed
  BY <1>1, <1>4 DEF StoreInv, StoreTypeOK, RetriesAreCounted, Stages, Owed
<1>6. "posting" \in Stages \ {"unknown", "judging"}
  BY DEF Stages
<1> QED
  BY <1>1, <1>2, <1>4, <1>5, <1>6, OneRecordStep

\* The result is returned, and the record deleted.
LEMMA ReturnSucceedsStep ==
    ASSUME StoreInv, NEW g \in Groups, ReturnSucceeds(g)
    PROVE  StoreInv'
<1>1. /\ db' = [db EXCEPT ![g] = None] /\ stage' = [stage EXCEPT ![g] = "done"]
      /\ stage[g] = "posting" /\ returned' = returned \cup {g}
      /\ UNCHANGED <<disk, attempt, retrying, service, crashes, acked, gaveUp>>
  BY DEF ReturnSucceeds
<1>2. StoreTypeOK' /\ RetriesAreCounted' /\ Owed' = Owed \ {g} /\ ~Complete(None)
  BY <1>1 DEF StoreInv, StoreTypeOK, RetriesAreCounted, Stages, Owed, Complete
<1>3. "done" \in Stages \ {"unknown", "judging"}
  BY DEF Stages
<1> QED
  BY <1>1, <1>2, <1>3, OneRecordStep

\* An attempt fails: the count is written, or the group is given up and deleted.
LEMMA ReturnFailsStep ==
    ASSUME StoreInv, NEW g \in Groups, NEW accepted \in BOOLEAN, ReturnFails(g, accepted)
    PROVE  StoreInv'
<1>1. /\ stage[g] = "posting"
      /\ UNCHANGED <<disk, attempt, retrying, service, crashes, acked>>
      /\ returned' = returned \/ returned' = returned \cup {g}
  BY DEF ReturnFails
<1>2. CASE /\ gaveUp' = gaveUp \cup {g} /\ db' = [db EXCEPT ![g] = None]
           /\ stage' = [stage EXCEPT ![g] = "done"]
  <2>1. /\ StoreTypeOK' /\ RetriesAreCounted' /\ ~Complete(None)
        /\ Owed' \subseteq Owed /\ g \notin Owed'
    BY <1>1, <1>2 DEF StoreInv, StoreTypeOK, RetriesAreCounted, Stages, Owed, Complete
  <2>2. "done" \in Stages \ {"unknown", "judging"}
    BY DEF Stages
  <2> QED
    BY <1>1, <1>2, <2>1, <2>2, OneRecordStep
<1>3. CASE /\ db' = [db EXCEPT ![g] = Counted(g)]
           /\ stage' = [stage EXCEPT ![g] = "waiting"] /\ UNCHANGED gaveUp
  <2> DEFINE r == Counted(g)
  <2>1. /\ r \in Records \cup {None}
        /\ Complete(r) <=> Complete(db[g])
        /\ Complete(r) => r.cnt \in Nat
    BY CountedKeepsStatus
  <2>2. db' = [db EXCEPT ![g] = r]
    BY <1>3
  <2> HIDE DEF r
  <2>3. StoreTypeOK' /\ RetriesAreCounted' /\ Owed' \subseteq Owed
    BY <1>1, <1>3, <2>1, <2>2 DEF StoreInv, StoreTypeOK, RetriesAreCounted, Stages, Owed
  <2>4. "waiting" \in Stages \ {"unknown", "judging"}
    BY DEF Stages
  <2> QED
    BY <1>1, <1>3, <2>1, <2>2, <2>3, <2>4, OneRecordStep
<1> QED
  BY <1>2, <1>3 DEF ReturnFails

\* The next attempt starts.
LEMMA RetryReturnStep ==
    ASSUME StoreInv, NEW g \in Groups, RetryReturn(g)
    PROVE  StoreInv'
<1>1. /\ stage[g] = "waiting" /\ stage' = [stage EXCEPT ![g] = "posting"]
      /\ attempt' = [attempt EXCEPT ![g] = @ + 1] /\ retrying' = retrying \cup {g}
      /\ UNCHANGED <<db, disk, service, crashes, acked, returned, gaveUp>>
  BY DEF RetryReturn, clientVars
<1>2. StoreTypeOK' /\ RetriesAreCounted'
  BY <1>1 DEF StoreInv, StoreTypeOK, RetriesAreCounted, Stages
<1>3. /\ AcceptedIsDurable' /\ OwedIsRecorded' /\ RejectedIsNotRecorded'
      /\ CountsAreKnown' /\ FinishedIsDeleted'
  BY <1>1 DEF StoreInv, StoreTypeOK, AcceptedIsDurable, OwedIsRecorded, RejectedIsNotRecorded,
              CountsAreKnown, FinishedIsDeleted, Owed, Complete
<1> QED
  BY <1>2, <1>3 DEF StoreInv

\* Pages reach the disk, all at once or one by one.
LEMMA WriteStep ==
    ASSUME StoreInv, Sync \/ \E g \in Groups : WriteBack(g)
    PROVE  StoreInv'
<1>1. UNCHANGED <<db, stage, attempt, retrying, service, crashes, acked, returned, gaveUp>>
  BY DEF Sync, WriteBack, memoryVars, clientVars
<1>2. /\ disk' \in [Groups -> Records \cup {None}]
      /\ \A h \in Groups : disk'[h] = disk[h] \/ disk'[h] = db[h]
  BY DEF StoreInv, StoreTypeOK, Sync, WriteBack
<1>3. Owed \subseteq Groups /\ Owed' = Owed /\ Rejected \subseteq Groups
  BY <1>1, StoreAssumption DEF Owed, StoreInv, StoreTypeOK
<1>4. StoreTypeOK' /\ RetriesAreCounted' /\ FinishedIsDeleted' /\ OwedIsRecorded'
  BY <1>1, <1>2, <1>3 DEF StoreInv, StoreTypeOK, RetriesAreCounted, FinishedIsDeleted,
                          OwedIsRecorded, Complete
<1>5. AcceptedIsDurable' /\ RejectedIsNotRecorded' /\ CountsAreKnown'
  BY <1>1, <1>2, <1>3 DEF StoreInv, AcceptedIsDurable, OwedIsRecorded, RejectedIsNotRecorded,
                          CountsAreKnown, Complete
<1> QED
  BY <1>4, <1>5 DEF StoreInv

\* A crash leaves what is on the disk.
LEMMA CrashStep ==
    ASSUME StoreInv, Crash
    PROVE  StoreInv'
<1>1. /\ db' = disk /\ stage' = [g \in Groups |-> "unknown"] /\ service' = "down"
      /\ crashes < MaxCrashes /\ crashes' = crashes + 1
      /\ UNCHANGED <<disk, attempt, retrying, acked, returned, gaveUp>>
  BY DEF Crash, clientVars
<1>2. Owed' = Owed /\ Rejected \subseteq Groups
  BY <1>1, StoreAssumption DEF Owed
<1>3. StoreTypeOK' /\ RetriesAreCounted' /\ FinishedIsDeleted'
  BY <1>1, StoreAssumption
     DEF StoreInv, StoreTypeOK, RetriesAreCounted, FinishedIsDeleted, Stages
<1>4. AcceptedIsDurable' /\ OwedIsRecorded' /\ RejectedIsNotRecorded' /\ CountsAreKnown'
  BY <1>1, <1>2 DEF StoreInv, AcceptedIsDurable, OwedIsRecorded, RejectedIsNotRecorded,
                    CountsAreKnown, Complete
<1> QED
  BY <1>3, <1>4 DEF StoreInv

\* startService resumes what its records say, or nothing.
LEMMA RestartStep ==
    ASSUME StoreInv, Restart
    PROVE  StoreInv'
<1>1. UNCHANGED <<db, disk, crashes, acked, returned, gaveUp>> /\ service = "down"
  BY DEF Restart, clientVars
<1>2. Owed' = Owed /\ Rejected \subseteq Groups
  BY <1>1, StoreAssumption DEF Owed
<1>3. AcceptedIsDurable' /\ OwedIsRecorded' /\ CountsAreKnown'
  BY <1>1, <1>2 DEF StoreInv, AcceptedIsDurable, OwedIsRecorded, CountsAreKnown, Complete
<1>4. CASE service' = "failed" /\ UNCHANGED memoryVars
  BY <1>1, <1>2, <1>3, <1>4
     DEF StoreInv, StoreTypeOK, memoryVars, RetriesAreCounted, FinishedIsDeleted,
         RejectedIsNotRecorded, Complete
<1>5. CASE service' = "up" /\ Resume
  <2>1. \A g \in Groups : Complete(db[g]) => db[g].status \in {"to_judge", "to_return"}
    BY DEF StoreInv, StoreTypeOK, Complete, Records
  <2>2. \A g \in Groups :
           stage'[g] = IF ~Complete(db[g]) THEN "unknown"
                       ELSE IF db[g].status = "to_judge" THEN "judging" ELSE "posting"
    BY <1>5, <2>1 DEF Resume
  <2>3. StoreTypeOK' /\ RetriesAreCounted'
    <3>1. stage' \in [Groups -> Stages]
      BY <1>5, <2>2 DEF Resume, Stages
    <3>2. attempt' \in [Groups -> Nat] /\ retrying' = {}
      BY <1>5 DEF Resume, StoreInv, CountsAreKnown
    <3> QED
      BY <1>1, <1>5, <3>1, <3>2 DEF StoreInv, StoreTypeOK, RetriesAreCounted
  <2>4. FinishedIsDeleted' /\ RejectedIsNotRecorded'
    BY <1>1, <1>2, <2>2 DEF StoreInv, FinishedIsDeleted, RejectedIsNotRecorded, Complete
  <2> QED
    BY <1>3, <2>3, <2>4 DEF StoreInv
<1> QED
  BY <1>4, <1>5 DEF Restart

LEMMA StoreNextInv == StoreInv /\ [StoreNext]_storeVars => StoreInv'
<1> SUFFICES ASSUME StoreInv, [StoreNext]_storeVars PROVE StoreInv'
  OBVIOUS
<1>1. CASE UNCHANGED storeVars
  BY <1>1 DEF storeVars, memoryVars, clientVars, StoreInv, StoreTypeOK, AcceptedIsDurable,
              FinishedIsDeleted, OwedIsRecorded, RejectedIsNotRecorded, CountsAreKnown,
              RetriesAreCounted, Owed, Complete
<1>2. CASE StoreNext
  BY <1>2, RunGroupStep, RejectGroupStep, JudgedStep, ReturnSucceedsStep, ReturnFailsStep,
     RetryReturnStep, WriteStep, CrashStep, RestartStep
     DEF StoreNext
<1> QED
  BY <1>1, <1>2

-----------------------------------------------------------------------------
\* Whatever the daemon does and wherever it crashes, its records stay consistent.
THEOREM StoreConsistent == StoreSpec => []StoreInv
<1>1. StoreInit => StoreInv
  BY StoreInitInv
<1>2. StoreInv /\ [StoreNext]_storeVars => StoreInv'
  BY StoreNextInv
<1> QED
  BY <1>1, <1>2, PTL DEF StoreSpec

\* An accepted group is on the disk, whole, until its result is returned or given
\* up: a crash at any moment cannot lose it.
THEOREM AcceptedStaysDurable == StoreSpec => []AcceptedIsDurable
BY StoreConsistent, PTL DEF StoreInv

\* The records of a daemon that is up are those of the groups it works on.
THEOREM RecordsMatchWork == StoreSpec => []FinishedIsDeleted
BY StoreConsistent, PTL DEF StoreInv

\* A daemon that is up works on every group it owes a result to, whatever it
\* crashed in the middle of.
THEOREM OwedStaysPursued == StoreSpec => []OwedIsPursued
<1>1. StoreInv => OwedIsPursued
  BY DEF StoreInv, StoreTypeOK, OwedIsPursued, OwedIsRecorded, FinishedIsDeleted, Owed
<1> QED
  BY <1>1, StoreConsistent, PTL

-----------------------------------------------------------------------------
(***************************************************************************)
(* How far the failure of startService reaches.  A record without a status *)
(* is written only by _updateCount of a group that was never saved, so it  *)
(* belongs to a rejected group; and once startService has met one, nothing *)
(* removes it.                                                             *)
(***************************************************************************)
Partial(record) == record # None /\ ~Complete(record)

PartialIsRejected ==
    \A g \in Groups \ Rejected : ~Partial(db[g]) /\ ~Partial(disk[g])

\* A process that is down has only what is on the disk; one whose startService failed
\* accepts groups, which nothing judges.
IdleOutsideService ==
    /\ service = "down" => db = disk /\ \A g \in Groups : stage[g] = "unknown"
    /\ service = "failed" => \A g \in Groups \ Rejected : stage[g] \in {"unknown", "judging"}

\* startService fails, now or when it is next called.
Poisoned ==
    /\ service # "up"
    /\ \E g \in Rejected : Partial(db[g]) /\ disk[g] = db[g] /\ stage[g] = "unknown"

SpoilInv ==
    /\ PartialIsRejected
    /\ IdleOutsideService
    /\ service = "failed" => Poisoned

\* The steps that work on one group.
LEMMA GroupStepsSpoil ==
    ASSUME StoreInv, SpoilInv, NEW g \in Groups,
           \/ RunGroup(g) \/ RejectGroup(g) \/ Judged(g) \/ ReturnSucceeds(g)
           \/ RetryReturn(g) \/ \E a \in BOOLEAN : ReturnFails(g, a)
    PROVE  SpoilInv' /\ (Poisoned => Poisoned')
<1>0. /\ db \in [Groups -> Records \cup {None}] /\ stage \in [Groups -> Stages]
      /\ disk \in [Groups -> Records \cup {None}]
      /\ service \in {"up", "down", "failed"} /\ service' = service
  BY DEF StoreInv, StoreTypeOK, RunGroup, RejectGroup, Judged, ReturnSucceeds, RetryReturn,
         ReturnFails
<1>1. service # "down"
  BY <1>0 DEF SpoilInv, IdleOutsideService, RunGroup, RejectGroup, Judged, ReturnSucceeds,
     RetryReturn, ReturnFails
<1>2. /\ \A h \in Groups \ {g} : db'[h] = db[h] /\ stage'[h] = stage[h]
      /\ \A h \in Groups \ {g} : disk'[h] = disk[h] \/ disk'[h] = db[h]
  BY <1>0 DEF RunGroup, RejectGroup, Judged, ReturnSucceeds, RetryReturn, ReturnFails
<1>3. g \notin Rejected => ~Partial(db'[g]) /\ ~Partial(disk'[g])
  <2> SUFFICES ASSUME g \notin Rejected PROVE ~Partial(db'[g]) /\ ~Partial(disk'[g])
    OBVIOUS
  <2>0. ~Partial(db[g]) /\ ~Partial(disk[g])
    BY DEF SpoilInv, PartialIsRejected
  <2>1. CASE RunGroup(g)
    <3>1. db'[g] = [status |-> "to_judge", cnt |-> 0] /\ disk'[g] = db'[g]
      BY <2>1, <1>0 DEF RunGroup
    <3> QED
      BY <3>1, StoreAssumption DEF Partial, Complete
  <2>2. CASE RejectGroup(g)
    BY <2>2 DEF RejectGroup
  <2>3. CASE Judged(g)
    <3>1. db'[g] = WithStatus(db[g], "to_return") /\ disk'[g] = disk[g]
      BY <2>3, <1>0 DEF Judged
    <3>2. Complete(WithStatus(db[g], "to_return"))
      BY <1>0, UpdateMerges
    <3> QED
      BY <3>1, <3>2, <2>0 DEF Partial
  <2>4. CASE ReturnSucceeds(g)
    BY <2>4, <2>0, <1>0 DEF ReturnSucceeds, Partial
  <2>5. CASE RetryReturn(g)
    BY <2>5, <2>0 DEF RetryReturn
  <2>6. ASSUME NEW a \in BOOLEAN, ReturnFails(g, a)
        PROVE  ~Partial(db'[g]) /\ ~Partial(disk'[g])
    <3>1. stage[g] = "posting" /\ disk' = disk /\ db'[g] \in {None, Counted(g)}
      BY <2>6, <1>0 DEF ReturnFails
    <3>2. service = "up"
      BY <1>0, <1>1, <3>1 DEF SpoilInv, IdleOutsideService
    <3>3. Complete(db[g])
      BY <3>1, <3>2 DEF StoreInv, FinishedIsDeleted
    <3>4. Complete(Counted(g))
      BY <3>3, CountedKeepsStatus
    <3> QED
      BY <3>1, <3>4, <2>0 DEF Partial
  <2> QED
    BY <2>1, <2>2, <2>3, <2>4, <2>5, <2>6
<1>4. PartialIsRejected'
  <2> SUFFICES ASSUME NEW h \in Groups \ Rejected PROVE ~Partial(db'[h]) /\ ~Partial(disk'[h])
    BY DEF PartialIsRejected
  <2>1. CASE h = g
    BY <2>1, <1>3
  <2>2. CASE h # g
    <3>1. ~Partial(db[h]) /\ ~Partial(disk[h])
      BY DEF SpoilInv, PartialIsRejected
    <3>2. db'[h] = db[h] /\ (disk'[h] = disk[h] \/ disk'[h] = db[h])
      BY <2>2, <1>2
    <3> QED
      BY <3>1, <3>2, Zenon
  <2> QED
    BY <2>1, <2>2
<1>5. IdleOutsideService'
  <2> SUFFICES ASSUME service = "failed", NEW h \in Groups \ Rejected
               PROVE  stage'[h] \in {"unknown", "judging"}
    BY <1>0, <1>1 DEF IdleOutsideService
  <2>1. stage[h] \in {"unknown", "judging"}
    BY DEF SpoilInv, IdleOutsideService
  <2>2. CASE h # g
    BY <2>1, <2>2, <1>2
  <2>3. CASE h = g
    BY <2>1, <2>3, <1>0 DEF RunGroup, RejectGroup, Judged, ReturnSucceeds, RetryReturn, ReturnFails
  <2> QED
    BY <2>2, <2>3
<1>6. Poisoned => Poisoned'
  <2> SUFFICES ASSUME Poisoned PROVE Poisoned'
    OBVIOUS
  <2>1. PICK h \in Rejected : Partial(db[h]) /\ disk[h] = db[h] /\ stage[h] = "unknown"
    BY DEF Poisoned
  <2>2. h \in Groups /\ disk[h] # None /\ service # "up"
    BY <2>1, StoreAssumption DEF Partial, Poisoned
  <2>3. h # g
    BY <2>1, <2>2 DEF RunGroup, RejectGroup, Judged, ReturnSucceeds, RetryReturn, ReturnFails
  <2>4. db'[h] = db[h] /\ disk'[h] = db[h] /\ stage'[h] = "unknown"
    BY <2>1, <2>2, <2>3, <1>2
  <2> QED
    BY <2>1, <2>2, <2>4, <1>0 DEF Poisoned
<1> QED
  BY <1>0, <1>4, <1>5, <1>6 DEF SpoilInv

\* The steps of the database and of the process.
LEMMA ProcessStepsSpoil ==
    ASSUME StoreInv, SpoilInv,
           \/ \E g \in Groups : WriteBack(g)
           \/ Sync \/ Crash \/ Restart \/ UNCHANGED storeVars
    PROVE  SpoilInv' /\ (Poisoned => Poisoned')
<1>0. /\ db \in [Groups -> Records \cup {None}] /\ stage \in [Groups -> Stages]
      /\ disk \in [Groups -> Records \cup {None}]
      /\ service \in {"up", "down", "failed"} /\ Rejected \subseteq Groups
  BY StoreAssumption DEF StoreInv, StoreTypeOK
<1>1. CASE (\E g \in Groups : WriteBack(g)) \/ Sync \/ UNCHANGED storeVars
  <2>1. /\ db' = db /\ stage' = stage /\ service' = service
        /\ \A g \in Groups : disk'[g] = disk[g] \/ disk'[g] = db[g]
        /\ service = "down" => disk' = disk
    BY <1>1, <1>0 DEF WriteBack, Sync, storeVars, memoryVars
  <2>2. PartialIsRejected' /\ IdleOutsideService'
    BY <2>1 DEF SpoilInv, PartialIsRejected, IdleOutsideService
  <2>3. Poisoned => Poisoned'
    <3> SUFFICES ASSUME Poisoned PROVE Poisoned'
      OBVIOUS
    <3>1. PICK h \in Rejected : Partial(db[h]) /\ disk[h] = db[h] /\ stage[h] = "unknown"
      BY DEF Poisoned
    <3>2. db'[h] = db[h] /\ disk'[h] = db[h] /\ stage'[h] = "unknown" /\ service' # "up"
      BY <3>1, <2>1, <1>0 DEF Poisoned
    <3> QED
      BY <3>1, <3>2 DEF Poisoned
  <2> QED
    BY <2>1, <2>2, <2>3 DEF SpoilInv
<1>2. CASE Crash
  <2>1. /\ db' = disk /\ disk' = disk /\ service' = "down"
        /\ \A g \in Groups : stage'[g] = "unknown"
    BY <1>2 DEF Crash
  <2>2. PartialIsRejected' /\ IdleOutsideService'
    BY <2>1 DEF SpoilInv, PartialIsRejected, IdleOutsideService
  <2>3. Poisoned => Poisoned'
    BY <2>1, <1>0 DEF Poisoned
  <2> QED
    BY <2>1, <2>2, <2>3 DEF SpoilInv
<1>3. CASE Restart
  <2>1. service = "down" /\ db' = db /\ disk' = disk
    BY <1>3 DEF Restart
  <2>2. db = disk /\ \A g \in Groups : stage[g] = "unknown"
    BY <2>1 DEF SpoilInv, IdleOutsideService
  <2>3. PartialIsRejected'
    BY <2>1 DEF SpoilInv, PartialIsRejected
  <2>4. CASE /\ \A g \in Groups : ~Partial(db[g])
             /\ service' = "up"
    BY <2>3, <2>4, <1>0 DEF SpoilInv, IdleOutsideService, Poisoned
  <2>5. CASE /\ \E g \in Groups : Partial(db[g])
             /\ service' = "failed" /\ stage' = stage
    <3>1. PICK g \in Groups : Partial(db[g])
      BY <2>5
    <3>2. g \in Rejected
      BY <3>1 DEF SpoilInv, PartialIsRejected
    <3>3. Poisoned'
      BY <3>1, <3>2, <2>1, <2>2, <2>5 DEF Poisoned
    <3> QED
      BY <3>3, <2>2, <2>3, <2>5 DEF SpoilInv, IdleOutsideService
  <2> QED
    BY <1>3, <2>4, <2>5 DEF Restart, Partial, memoryVars
<1> QED
  BY <1>1, <1>2, <1>3

\* Every step keeps SpoilInv, and a poisoned database stays so.
LEMMA NextSpoils ==
    ASSUME StoreInv, SpoilInv, [StoreNext]_storeVars
    PROVE  SpoilInv' /\ (Poisoned => Poisoned')
BY GroupStepsSpoil, ProcessStepsSpoil DEF StoreNext

\* Partial records, which _updateCount creates when returning a result fails, belong to
\* rejected groups only, and a startService that has failed left such a record on the disk.
THEOREM SpoilContained == StoreSpec => []SpoilInv
<1>1. StoreInit => SpoilInv
  BY DEF StoreInit, SpoilInv, PartialIsRejected, IdleOutsideService, Partial
<1>2. StoreInv /\ SpoilInv /\ [StoreNext]_storeVars => SpoilInv'
  BY NextSpoils
<1> QED
  BY <1>1, <1>2, StoreConsistent, PTL DEF StoreSpec

\* startService raises only over the record of a group that was rejected, never over
\* one that addTaskGroup saved, wherever the daemon crashed.
THEOREM OnlyRejectedSpoils ==
    StoreSpec => [](service = "failed" => \E g \in Rejected : Partial(db[g]))
<1>1. SpoilInv => (service = "failed" => \E g \in Rejected : Partial(db[g]))
  BY DEF SpoilInv, Poisoned
<1> QED
  BY <1>1, SpoilContained, PTL

\* Without oversized groups every restart resumes the unfinished jobs, as the log
\* message says: the violation of RestartResumes needs a rejected group.
THEOREM RestartResumesUnlessRejected ==
    ASSUME Rejected = {}
    PROVE  StoreSpec => []RestartResumes
<1>1. StoreTypeOK /\ SpoilInv /\ OwedIsPursued => RestartResumes
  BY DEF StoreTypeOK, SpoilInv, Poisoned, OwedIsPursued, RestartResumes
<1>2. StoreInv => StoreTypeOK
  BY DEF StoreInv
<1> QED
  BY <1>1, <1>2, StoreConsistent, SpoilContained, OwedStaysPursued, PTL

\* A daemon whose startService failed once fails at every later restart: nothing the
\* daemon does removes the record, and no later group has its identifier.
THEOREM FailureIsPermanent ==
    StoreSpec => [](service = "failed" => [](service # "up"))
<1>1. StoreInv /\ SpoilInv /\ [StoreNext]_storeVars => (Poisoned => Poisoned')
  BY NextSpoils
<1>2. SpoilInv => (service = "failed" => Poisoned)
  BY DEF SpoilInv
<1>3. Poisoned => service # "up"
  BY DEF Poisoned
<1> QED
  BY <1>1, <1>2, <1>3, StoreConsistent, SpoilContained, PTL DEF StoreSpec
=============================================================================
