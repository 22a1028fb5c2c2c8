---------------------------- MODULE SandboxProofs -----------------------------
(***************************************************************************)
(* The sandboxes for any number of processes, threads and sandboxes, and   *)
(* any number of deaths: an installation is never observed, and threads    *)
(* that enter sandboxes in rising order never wait for each other in a     *)
(* circle.                                                                 *)
(*                                                                         *)
(* InstallerIsAlone rests on two locks and a counter that must agree.  The *)
(* invariant says that local_lock names the one thread in _get, that       *)
(* _in_context counts the threads inside or on their way in, and what      *)
(* flock the process holds as a consequence.                               *)
(***************************************************************************)
EXTENDS Sandbox, FiniteSets, FiniteSetTheorems, WellFoundedInduction, TLAPS

\* Places under an exclusive flock, and all those of _get.
Exclusive == {"recheck"} \cup Installing

Getting == {"lock_shared", "check", "lock_exclusive", "downgrade"} \cup Exclusive

Places == {"idle", "entering", "using", "leaving"} \cup Getting

Modes == {"none", "shared", "exclusive"}

\* The flock of the process of a thread that is at this place of _get.
ModeAt(place) ==
    IF place \in Exclusive THEN "exclusive" ELSE IF place = "check" THEN "shared" ELSE "none"

SandboxTypeOK ==
    /\ pc \in [Threads -> Places]
    /\ plan \in [Threads -> Seq(Sandboxes)]
    /\ depth \in [Threads -> Nat]
    /\ localLock \in [Processes -> [Sandboxes -> Threads \cup {None}]]
    /\ inContext \in [Processes -> [Sandboxes -> Nat]]
    /\ lock \in [Processes -> [Sandboxes -> Modes]]
    /\ content \in [Sandboxes -> {"absent", "partial", "whole"}]
    /\ fixups \subseteq Sandboxes /\ torn \subseteq Sandboxes
    /\ lastCheck \in [Sandboxes -> {"absent", "recent", "old"}]

\* A thread is inside a prefix of its plan.
DepthInv ==
    \A t \in Threads :
        /\ depth[t] <= Len(plan[t])
        /\ pc[t] = "idle" => depth[t] = 0
        /\ pc[t] \in Getting \cup {"entering"} => depth[t] < Len(plan[t])
        /\ pc[t] \in {"using", "leaving"} => depth[t] >= 1

\* How far _in_context has heard of the thread.
Level(t) == IF pc[t] \in Getting THEN depth[t] + 1 ELSE depth[t]

\* What _in_context counts: a thread once for each time it entered.
Slots(p, s) ==
    {x \in Threads \X Nat :
        Process(x[1]) = p /\ x[2] \in 1..Level(x[1]) /\ plan[x[1]][x[2]] = s}

CountInv ==
    \A p \in Processes, s \in Sandboxes :
        IsFiniteSet(Slots(p, s)) /\ inContext[p][s] = Cardinality(Slots(p, s))

\* local_lock belongs to the thread in _get, which is the only one counted.
LocalInv ==
    /\ \A t \in Threads : pc[t] \in Getting =>
          /\ localLock[Process(t)][Target(t)] = t
          /\ inContext[Process(t)][Target(t)] = 1
    /\ \A p \in Processes, s \in Sandboxes, t \in Threads : localLock[p][s] = t =>
          Process(t) = p /\ pc[t] \in Getting /\ Target(t) = s

\* The flocks that the processes hold.
LockInv ==
    /\ \A t \in Threads : pc[t] \in Getting => lock[Process(t)][Target(t)] = ModeAt(pc[t])
    /\ \A p \in Processes, s \in Sandboxes : localLock[p][s] = None =>
          lock[p][s] = IF inContext[p][s] = 0 THEN "none" ELSE "shared"
    /\ \A p, q \in Processes, s \in Sandboxes :
          p # q /\ lock[p][s] = "exclusive" => lock[q][s] = "none"

LocksInv ==
    /\ SandboxTypeOK
    /\ DepthInv
    /\ CountInv
    /\ LocalInv
    /\ LockInv

\* What the directory holds, by what its marker file and the threads that install
\* it say.
ContentInv ==
    /\ \A s \in fixups \ torn :
          content[s] = "whole" \/ \E t \in Threads : pc[t] \in {"removing", "fixing"} /\ Target(t) = s
    /\ \A t \in Threads : pc[t] = "downgrade" /\ Target(t) \notin torn =>
          \/ content[Target(t)] = "whole"
          \/ \E u \in Threads : pc[u] \in Installing /\ Target(u) = Target(t)
    /\ \A t \in Threads : pc[t] = "marking" => content[Target(t)] = "whole"
    /\ \A t \in Threads : pc[t] \in {"fetch", "extracting"} => Target(t) \notin fixups

SandboxInv ==
    /\ LocksInv
    /\ ContentInv
    /\ UsersSeeWhole

-----------------------------------------------------------------------------
(***************************************************************************)
(* Who can be with whom.                                                   *)
(***************************************************************************)
LEMMA TargetType ==
    ASSUME SandboxTypeOK, DepthInv, NEW t \in Threads, pc[t] \in Getting \cup {"entering"}
    PROVE  /\ Target(t) \in Sandboxes /\ Process(t) \in Processes
           /\ depth[t] \in Nat /\ depth[t] + 1 \in 1..Len(plan[t])
<1>1. depth[t] \in Nat /\ plan[t] \in Seq(Sandboxes) /\ depth[t] < Len(plan[t])
  BY DEF SandboxTypeOK, DepthInv
<1>2. depth[t] + 1 \in 1..Len(plan[t])
  BY <1>1
<1> QED
  BY <1>1, <1>2, SandboxAssumption DEF Target, Process

LEMMA InsideType ==
    ASSUME SandboxTypeOK, DepthInv, NEW t \in Threads
    PROVE  /\ Inside(t) \subseteq Sandboxes
           /\ \A k \in 1..depth[t] : plan[t][k] \in Inside(t)
           /\ depth[t] \in Nat /\ plan[t] \in Seq(Sandboxes) /\ Level(t) \in Nat
           /\ depth[t] <= Level(t) /\ Level(t) <= Len(plan[t]) /\ Process(t) \in Processes
<1>1. /\ depth[t] \in Nat /\ plan[t] \in Seq(Sandboxes) /\ depth[t] <= Len(plan[t])
      /\ pc[t] \in Getting => depth[t] < Len(plan[t])
  BY DEF SandboxTypeOK, DepthInv
<1>2. \A k \in 1..depth[t] : plan[t][k] \in Sandboxes
  BY <1>1
<1> QED
  BY <1>1, <1>2, SandboxAssumption DEF Inside, Level, Process

\* Nobody of the process is inside a sandbox while a thread of it is in _get.
LEMMA GetterIsAlone ==
    ASSUME LocksInv, NEW t \in Threads, pc[t] \in Getting, NEW u \in Threads,
           Process(u) = Process(t)
    PROVE  /\ Target(t) \notin Inside(u)
           /\ pc[u] \in Getting /\ Target(u) = Target(t) => u = t
<1> DEFINE p == Process(t)
           s == Target(t)
<1>1. s \in Sandboxes /\ p \in Processes /\ depth[t] \in Nat
  BY TargetType DEF LocksInv
<1>2. <<t, depth[t] + 1>> \in Slots(p, s)
  BY <1>1 DEF Slots, Level, Target
<1>3. Slots(p, s) = {<<t, depth[t] + 1>>}
  <2>1. Cardinality(Slots(p, s)) = 1 /\ IsFiniteSet(Slots(p, s))
    BY <1>1 DEF LocksInv, LocalInv, CountInv
  <2>2. \E x : Slots(p, s) = {x}
    BY <2>1, FS_Singleton
  <2> QED
    BY <1>2, <2>2
<1>4. s \notin Inside(u)
  <2> SUFFICES ASSUME s \in Inside(u) PROVE FALSE
    OBVIOUS
  <2>1. PICK k \in 1..depth[u] : plan[u][k] = s
    BY DEF Inside
  <2>2. depth[u] \in Nat /\ depth[u] <= Level(u) /\ Level(u) \in Nat
    BY InsideType DEF LocksInv
  <2>3. k \in Nat /\ k \in 1..Level(u)
    BY <2>1, <2>2
  <2>4. <<u, k>> \in Slots(p, s)
    BY <2>1, <2>3 DEF Slots
  <2>5. u = t /\ k = depth[t] + 1
    BY <1>3, <2>4
  <2> QED
    BY <1>1, <2>1, <2>5
<1>5. pc[u] \in Getting /\ Target(u) = s => u = t
  BY DEF LocksInv, LocalInv
<1> QED
  BY <1>4, <1>5

\* Nobody at all is inside it, nor checks or installs it, under the exclusive flock.
LEMMA ExclusiveIsAlone ==
    ASSUME LocksInv, NEW t \in Threads, pc[t] \in Exclusive, NEW u \in Threads
    PROVE  /\ Target(t) \notin Inside(u)
           /\ pc[u] \in Exclusive \cup {"check"} /\ Target(u) = Target(t) => u = t
<1> DEFINE p == Process(t)
           q == Process(u)
           s == Target(t)
<1>1. pc[t] \in Getting
  BY DEF Getting
<1>2. CASE q = p
  BY <1>1, <1>2, GetterIsAlone DEF Getting
<1>3. CASE q # p
  <2>1. s \in Sandboxes /\ p \in Processes /\ q \in Processes
    BY <1>1, TargetType, InsideType DEF LocksInv
  <2>2. lock[p][s] = "exclusive"
    BY <1>1 DEF LocksInv, LockInv, ModeAt
  <2>3. lock[q][s] = "none"
    BY <1>3, <2>1, <2>2 DEF LocksInv, LockInv
  <2>4. ~(pc[u] \in Exclusive \cup {"check"} /\ Target(u) = s)
    BY <2>3 DEF LocksInv, LockInv, ModeAt, Getting
  <2>5. s \notin Inside(u)
    <3> SUFFICES ASSUME s \in Inside(u) PROVE FALSE
      OBVIOUS
    <3>1. CASE localLock[q][s] = None
      <4>1. inContext[q][s] = 0
        BY <2>1, <2>3, <3>1 DEF LocksInv, LockInv
      <4>2. Slots(q, s) = {}
        BY <2>1, <4>1, FS_EmptySet DEF LocksInv, CountInv
      <4>3. PICK k \in 1..depth[u] : plan[u][k] = s
        BY DEF Inside
      <4>4. depth[u] \in Nat /\ depth[u] <= Level(u) /\ Level(u) \in Nat
        BY InsideType DEF LocksInv
      <4>5. <<u, k>> \in Slots(q, s)
        BY <4>3, <4>4 DEF Slots
      <4> QED
        BY <4>2, <4>5
    <3>2. CASE localLock[q][s] # None
      <4> DEFINE v == localLock[q][s]
      <4>1. v \in Threads /\ Process(v) = q /\ pc[v] \in Getting /\ Target(v) = s
        BY <2>1, <3>2 DEF LocksInv, SandboxTypeOK, LocalInv
      <4> QED
        BY <4>1, GetterIsAlone
    <3> QED
      BY <3>1, <3>2
  <2> QED
    BY <1>3, <2>4, <2>5
<1> QED
  BY <1>2, <1>3

-----------------------------------------------------------------------------
(***************************************************************************)
(* What the steps do to the locks and the counters.                        *)
(***************************************************************************)
LEMMA SlotsKept ==
    ASSUME \A t \in Threads : Level(t)' = Level(t) /\ \A k \in 1..Level(t) : plan'[t][k] = plan[t][k]
    PROVE  \A p, s : Slots(p, s)' = Slots(p, s)
BY DEF Slots

\* A step from one place of _get to another, the flock changing with it.
LEMMA GetStep ==
    ASSUME LocksInv, NEW t \in Threads, NEW place \in Getting, pc[t] \in Getting,
           Goto(t, place), SetLock(t, ModeAt(place)),
           ModeAt(place) = "exclusive" => \A q \in Others(t) : lock[q][Target(t)] = "none",
           ModeAt(place) = "shared" => \A q \in Others(t) : lock[q][Target(t)] # "exclusive",
           UNCHANGED <<plan, depth, localLock, inContext>>,
           content' \in [Sandboxes -> {"absent", "partial", "whole"}],
           fixups' \subseteq Sandboxes, torn' \subseteq Sandboxes,
           lastCheck' \in [Sandboxes -> {"absent", "recent", "old"}]
    PROVE  LocksInv'
<1> DEFINE p == Process(t)
           s == Target(t)
<1>1. s \in Sandboxes /\ p \in Processes
  BY TargetType DEF LocksInv
<1>2. /\ pc' = [pc EXCEPT ![t] = place] /\ pc \in [Threads -> Places] /\ Getting \subseteq Places
      /\ lock' = [lock EXCEPT ![p][s] = ModeAt(place)] /\ ModeAt(place) \in Modes
  BY DEF Goto, SetLock, LocksInv, SandboxTypeOK, Places, Modes, ModeAt
<1>3. SandboxTypeOK'
  BY <1>1, <1>2 DEF LocksInv, SandboxTypeOK
<1>4. \A u \in Threads : Target(u)' = Target(u) /\ Level(u)' = Level(u) /\ plan'[u] = plan[u]
  BY <1>2 DEF Target, Level
<1>a. \A u \in Threads : pc'[u] \in Getting <=> pc[u] \in Getting
  BY <1>2
<1>5. DepthInv'
  BY <1>2 DEF LocksInv, DepthInv, Getting, Installing, Exclusive
<1>6. CountInv'
  BY <1>4, SlotsKept DEF LocksInv, CountInv
<1>7. LocalInv'
  BY <1>4, <1>a, SandboxAssumption DEF LocksInv, SandboxTypeOK, LocalInv, Process
<1>8. LockInv'
  <2>1. \A q \in Processes, r \in Sandboxes :
           lock'[q][r] = IF q = p /\ r = s THEN ModeAt(place) ELSE lock[q][r]
    BY <1>1, <1>2 DEF LocksInv, SandboxTypeOK
  <2>2. ASSUME NEW u \in Threads, pc'[u] \in Getting
        PROVE  lock'[Process(u)][Target(u)] = ModeAt(pc'[u])
    <3>1. pc[u] \in Getting /\ Target(u) \in Sandboxes /\ Process(u) \in Processes
      BY <1>a, <2>2, TargetType DEF LocksInv
    <3>2. CASE u = t
      BY <1>2, <2>1, <3>1, <3>2
    <3>3. CASE u # t
      <4>1. ~(Process(u) = p /\ Target(u) = s)
        BY <3>1, <3>3, GetterIsAlone
      <4> QED
        BY <1>2, <2>1, <3>1, <3>3, <4>1 DEF LocksInv, LockInv
    <3> QED
      BY <3>2, <3>3
  <2>3. ASSUME NEW q \in Processes, NEW r \in Sandboxes, localLock[q][r] = None
        PROVE  lock'[q][r] = IF inContext[q][r] = 0 THEN "none" ELSE "shared"
    <3>1. ~(q = p /\ r = s)
      BY <2>3, SandboxAssumption DEF LocksInv, LocalInv
    <3> QED
      BY <2>1, <2>3, <3>1 DEF LocksInv, LockInv
  <2>4. ASSUME NEW q1 \in Processes, NEW q2 \in Processes, NEW r \in Sandboxes, q1 # q2,
               lock'[q1][r] = "exclusive"
        PROVE  lock'[q2][r] = "none"
    <3>1. CASE q1 = p /\ r = s
      BY <2>1, <2>4, <3>1 DEF Others
    <3>2. CASE q2 = p /\ r = s
      <4>1. lock[q1][s] = "exclusive"
        BY <2>1, <2>4, <3>2
      <4>2. ModeAt(place) = "none"
        BY <2>4, <3>2, <4>1 DEF Others, ModeAt
      <4> QED
        BY <2>1, <3>2, <4>2
    <3>3. CASE ~(q1 = p /\ r = s) /\ ~(q2 = p /\ r = s)
      BY <2>1, <2>4, <3>3 DEF LocksInv, LockInv
    <3> QED
      BY <3>1, <3>2, <3>3
  <2> QED
    BY <1>4, <2>2, <2>3, <2>4 DEF LockInv, Process
<1> QED
  BY <1>3, <1>5, <1>6, <1>7, <1>8 DEF LocksInv

\* A thread starts to enter a sandbox: one more slot.
LEMMA CountAdded ==
    ASSUME SandboxTypeOK, CountInv, NEW t \in Threads, NEW s \in Sandboxes,
           Process(t) \in Processes, Level(t) \in Nat, plan[t][Level(t) + 1] = s,
           Level(t)' = Level(t) + 1, \A u \in Threads \ {t} : Level(u)' = Level(u), UNCHANGED plan,
           inContext' = [inContext EXCEPT ![Process(t)][s] = @ + 1]
    PROVE  CountInv' /\ inContext' \in [Processes -> [Sandboxes -> Nat]]
<1> DEFINE p == Process(t)
           x == <<t, Level(t) + 1>>
<1>1. \A q, r : Slots(q, r)' = IF q = p /\ r = s THEN Slots(q, r) \cup {x} ELSE Slots(q, r)
  <2>1. ASSUME NEW y \in Threads \X Nat, NEW q, NEW r
        PROVE  y \in Slots(q, r)' <=> y \in Slots(q, r) \/ (y = x /\ q = p /\ r = s)
    <3>1. y[2] \in 1..Level(y[1])' <=> y[2] \in 1..Level(y[1]) \/ y = x
      BY DEF SandboxTypeOK
    <3>2. y \in Slots(q, r) <=> Process(y[1]) = q /\ y[2] \in 1..Level(y[1]) /\ plan[y[1]][y[2]] = r
      BY DEF Slots
    <3>3. y \in Slots(q, r)' <=> Process(y[1]) = q /\ y[2] \in 1..Level(y[1])' /\ plan[y[1]][y[2]] = r
      BY DEF Slots
    <3>4. y = x => y[1] = t /\ y[2] = Level(t) + 1
      OBVIOUS
    <3> QED
      BY <3>1, <3>2, <3>3, <3>4
  <2>2. \A q, r : Slots(q, r) \subseteq Threads \X Nat /\ Slots(q, r)' \subseteq Threads \X Nat
    BY DEF Slots
  <2>3. x \in Threads \X Nat
    OBVIOUS
  <2>4. ASSUME NEW q, NEW r
        PROVE  Slots(q, r)' = IF q = p /\ r = s THEN Slots(q, r) \cup {x} ELSE Slots(q, r)
    <3> HIDE DEF x, p
    <3>1. CASE q = p /\ r = s
      BY <2>1, <2>2, <2>3, <3>1
    <3>2. CASE ~(q = p /\ r = s)
      BY <2>1, <2>2, <3>2
    <3> QED
      BY <3>1, <3>2
  <2> QED
    BY <2>4
<1>2. x \notin Slots(p, s)
  BY DEF Slots
<1>3. /\ IsFiniteSet(Slots(p, s) \cup {x})
      /\ Cardinality(Slots(p, s) \cup {x}) = Cardinality(Slots(p, s)) + 1
  BY <1>2, FS_AddElement DEF CountInv
<1>4. \A q \in Processes, r \in Sandboxes :
         inContext'[q][r] = IF q = p /\ r = s THEN inContext[q][r] + 1 ELSE inContext[q][r]
  BY DEF SandboxTypeOK
<1>5. inContext' \in [Processes -> [Sandboxes -> Nat]]
  BY DEF SandboxTypeOK
<1> QED
  BY <1>1, <1>3, <1>4, <1>5 DEF CountInv

\* A thread leaves a sandbox, or gives entering it up: one slot less.
LEMMA CountRemoved ==
    ASSUME SandboxTypeOK, CountInv, NEW t \in Threads, NEW s \in Sandboxes,
           Process(t) \in Processes, Level(t) \in Nat \ {0}, plan[t][Level(t)] = s,
           Level(t)' = Level(t) - 1, \A u \in Threads \ {t} : Level(u)' = Level(u), UNCHANGED plan,
           inContext' = [inContext EXCEPT ![Process(t)][s] = @ - 1]
    PROVE  CountInv' /\ inContext' \in [Processes -> [Sandboxes -> Nat]]
<1> DEFINE p == Process(t)
           x == <<t, Level(t)>>
<1>1. \A q, r : Slots(q, r)' = IF q = p /\ r = s THEN Slots(q, r) \ {x} ELSE Slots(q, r)
  <2>1. ASSUME NEW y \in Threads \X Nat, NEW q, NEW r
        PROVE  y \in Slots(q, r)' <=> y \in Slots(q, r) /\ ~(y = x /\ q = p /\ r = s)
    BY DEF Slots
  <2>2. \A q, r : Slots(q, r) \subseteq Threads \X Nat /\ Slots(q, r)' \subseteq Threads \X Nat
    BY DEF Slots
  <2> QED
    BY <2>1, <2>2
<1>2. x \in Slots(p, s)
  BY DEF Slots
<1>3. /\ IsFiniteSet(Slots(p, s) \ {x})
      /\ Cardinality(Slots(p, s) \ {x}) = Cardinality(Slots(p, s)) - 1
      /\ Cardinality(Slots(p, s) \ {x}) \in Nat
  BY <1>2, FS_RemoveElement, FS_CardinalityType DEF CountInv
<1>4. \A q \in Processes, r \in Sandboxes :
         inContext'[q][r] = IF q = p /\ r = s THEN inContext[q][r] - 1 ELSE inContext[q][r]
  BY DEF SandboxTypeOK
<1>5. inContext[p][s] - 1 \in Nat
  BY <1>3 DEF CountInv
<1>6. inContext' \in [Processes -> [Sandboxes -> Nat]]
  BY <1>5 DEF SandboxTypeOK
<1> QED
  BY <1>1, <1>3, <1>4, <1>6 DEF CountInv

\* _get returns with the shared flock: local_lock is released, nothing else of the
\* locks and counters changes hands.
LEMMA EnteredStep ==
    ASSUME LocksInv, NEW t \in Threads, pc[t] \in Getting, Entered(t), Release(t),
           SetLock(t, "shared"),
           \A q \in Others(t) : lock[q][Target(t)] # "exclusive",
           UNCHANGED <<plan, inContext, content, fixups, torn>>,
           lastCheck' \in [Sandboxes -> {"absent", "recent", "old"}]
    PROVE  LocksInv'
<1> USE DEF Process
<1> DEFINE p == Process(t)
           s == Target(t)
           place == IF depth[t] + 1 = Len(plan[t]) THEN "using" ELSE "entering"
<1>1. /\ s \in Sandboxes /\ p \in Processes /\ depth[t] \in Nat /\ Len(plan[t]) \in Nat
      /\ depth[t] < Len(plan[t])
  BY TargetType DEF LocksInv, SandboxTypeOK, DepthInv
<1>2. /\ pc' = [pc EXCEPT ![t] = place] /\ place \in Places /\ place \notin Getting
      /\ depth' = [depth EXCEPT ![t] = depth[t] + 1]
      /\ localLock' = [localLock EXCEPT ![p][s] = None]
      /\ lock' = [lock EXCEPT ![p][s] = "shared"]
  BY DEF Entered, Goto, Release, SetLock, Places, Getting, Exclusive, Installing
<1>3. SandboxTypeOK'
  BY <1>1, <1>2 DEF LocksInv, SandboxTypeOK, Modes
<1>4. DepthInv'
  BY <1>1, <1>2 DEF LocksInv, SandboxTypeOK, DepthInv
<1>5. \A u \in Threads : Level(u)' = Level(u)
  BY <1>1, <1>2 DEF LocksInv, SandboxTypeOK, Level
<1>6. CountInv'
  BY <1>5, SlotsKept DEF LocksInv, CountInv
<1>7. ASSUME NEW u \in Threads, pc'[u] \in Getting
      PROVE  u # t /\ pc[u] \in Getting
  BY <1>2, <1>7 DEF LocksInv, SandboxTypeOK
<1>a. ASSUME NEW u \in Threads, u # t
      PROVE  pc'[u] = pc[u] /\ Target(u)' = Target(u)
  BY <1>2, <1>a DEF LocksInv, SandboxTypeOK, Target
<1>8. \A q \in Processes, r \in Sandboxes :
         /\ lock'[q][r] = IF q = p /\ r = s THEN "shared" ELSE lock[q][r]
         /\ localLock'[q][r] = IF q = p /\ r = s THEN None ELSE localLock[q][r]
  BY <1>1, <1>2 DEF LocksInv, SandboxTypeOK
<1>9. localLock[p][s] = t /\ inContext[p][s] = 1
  BY DEF LocksInv, LocalInv
<1>10. ASSUME NEW u \in Threads, pc[u] \in Getting, u # t
       PROVE  /\ Target(u) \in Sandboxes /\ Process(u) \in Processes
              /\ ~(Process(u) = p /\ Target(u) = s)
  BY <1>10, TargetType, GetterIsAlone DEF LocksInv
<1>11. LocalInv'
  <2>1. ASSUME NEW u \in Threads, pc'[u] \in Getting
        PROVE  localLock'[Process(u)][Target(u)'] = u /\ inContext'[Process(u)][Target(u)'] = 1
    BY <1>7, <1>a, <1>8, <1>10, <2>1 DEF LocksInv, LocalInv
  <2>2. ASSUME NEW q \in Processes, NEW r \in Sandboxes, NEW u \in Threads, localLock'[q][r] = u
        PROVE  Process(u) = q /\ pc'[u] \in Getting /\ Target(u)' = r
    <3>1. localLock[q][r] = u /\ ~(q = p /\ r = s)
      BY <1>8, <2>2, SandboxAssumption
    <3>2. Process(u) = q /\ pc[u] \in Getting /\ Target(u) = r
      BY <3>1 DEF LocksInv, LocalInv
    <3>3. u # t
      BY <3>1, <3>2
    <3> QED
      BY <1>a, <3>1, <3>2, <3>3
  <2> QED
    BY <2>1, <2>2 DEF LocalInv
<1>12. LockInv'
  <2>1. ASSUME NEW u \in Threads, pc'[u] \in Getting
        PROVE  lock'[Process(u)][Target(u)'] = ModeAt(pc'[u])
    BY <1>7, <1>a, <1>8, <1>10, <2>1 DEF LocksInv, LockInv
  <2>2. ASSUME NEW q \in Processes, NEW r \in Sandboxes, localLock'[q][r] = None
        PROVE  lock'[q][r] = IF inContext'[q][r] = 0 THEN "none" ELSE "shared"
    BY <1>8, <1>9, <2>2 DEF LocksInv, LockInv
  <2>3. ASSUME NEW q1 \in Processes, NEW q2 \in Processes, NEW r \in Sandboxes, q1 # q2,
               lock'[q1][r] = "exclusive"
        PROVE  lock'[q2][r] = "none"
    BY <1>8, <2>3 DEF LocksInv, LockInv, Others
  <2> QED
    BY <2>1, <2>2, <2>3 DEF LockInv
<1> QED
  BY <1>3, <1>4, <1>6, <1>11, <1>12 DEF LocksInv

\* The first thread of the process on its way in takes local_lock; the process has no
\* flock then.
LEMMA EnterFirstStep ==
    ASSUME LocksInv, NEW t \in Threads, EnterFirst(t)
    PROVE  LocksInv'
<1> USE DEF Process
<1> DEFINE p == Process(t)
           s == Target(t)
<1>1. /\ pc[t] = "entering" /\ localLock[p][s] = None /\ inContext[p][s] = 0
      /\ inContext' = [inContext EXCEPT ![p][s] = 1] /\ localLock' = [localLock EXCEPT ![p][s] = t]
      /\ pc' = [pc EXCEPT ![t] = "lock_shared"]
      /\ UNCHANGED <<plan, depth, lock, content, fixups, lastCheck, torn>>
  BY DEF EnterFirst, Goto, diskVars
<1>2. /\ s \in Sandboxes /\ p \in Processes /\ depth[t] \in Nat /\ Len(plan[t]) \in Nat
      /\ depth[t] < Len(plan[t])
  BY <1>1, TargetType DEF LocksInv, SandboxTypeOK, DepthInv
<1>3. "lock_shared" \in Getting /\ "lock_shared" \in Places /\ "entering" \notin Getting
  BY DEF Getting, Places, Exclusive, Installing
<1>4. Level(t) = depth[t] /\ Level(t)' = depth[t] + 1 /\ \A u \in Threads \ {t} : Level(u)' = Level(u)
  BY <1>1, <1>3 DEF LocksInv, SandboxTypeOK, Level
<1>5. inContext' = [inContext EXCEPT ![p][s] = @ + 1]
  BY <1>1, <1>2 DEF LocksInv, SandboxTypeOK
<1>6. CountInv' /\ inContext' \in [Processes -> [Sandboxes -> Nat]]
  BY <1>1, <1>2, <1>4, <1>5, CountAdded DEF LocksInv, Target
<1>7. SandboxTypeOK'
  BY <1>1, <1>2, <1>3, <1>6 DEF LocksInv, SandboxTypeOK
<1>8. DepthInv'
  BY <1>1, <1>2, <1>3 DEF LocksInv, SandboxTypeOK, DepthInv
<1>9. \A u \in Threads : Target(u)' = Target(u) /\ (u # t => pc'[u] = pc[u])
  BY <1>1, <1>3 DEF LocksInv, SandboxTypeOK, Target
<1>a. pc'[t] = "lock_shared"
  BY <1>1 DEF LocksInv, SandboxTypeOK
<1>10. \A q \in Processes, r \in Sandboxes :
         /\ inContext'[q][r] = IF q = p /\ r = s THEN 1 ELSE inContext[q][r]
         /\ localLock'[q][r] = IF q = p /\ r = s THEN t ELSE localLock[q][r]
  BY <1>1, <1>2 DEF LocksInv, SandboxTypeOK
<1>11. ASSUME NEW u \in Threads, pc[u] \in Getting
       PROVE  /\ Target(u) \in Sandboxes /\ Process(u) \in Processes
              /\ ~(Process(u) = p /\ Target(u) = s)
  BY <1>1, <1>11, TargetType, SandboxAssumption DEF LocksInv, LocalInv
<1>12. LocalInv'
  <2>1. ASSUME NEW u \in Threads, pc'[u] \in Getting
        PROVE  localLock'[Process(u)][Target(u)'] = u /\ inContext'[Process(u)][Target(u)'] = 1
    BY <1>2, <1>a, <1>9, <1>10, <1>11, <2>1 DEF LocksInv, LocalInv
  <2>2. ASSUME NEW q \in Processes, NEW r \in Sandboxes, NEW u \in Threads, localLock'[q][r] = u
        PROVE  Process(u) = q /\ pc'[u] \in Getting /\ Target(u)' = r
    <3>1. CASE q = p /\ r = s
      BY <1>3, <1>a, <1>9, <1>10, <2>2, <3>1
    <3>2. CASE ~(q = p /\ r = s)
      <4>1. Process(u) = q /\ pc[u] \in Getting /\ Target(u) = r
        BY <1>10, <2>2, <3>2 DEF LocksInv, LocalInv
      <4>2. u # t
        BY <1>1, <1>3, <4>1
      <4> QED
        BY <1>9, <4>1, <4>2
    <3> QED
      BY <3>1, <3>2
  <2> QED
    BY <2>1, <2>2 DEF LocalInv
<1>13. LockInv'
  <2>1. ASSUME NEW u \in Threads, pc'[u] \in Getting
        PROVE  lock'[Process(u)][Target(u)'] = ModeAt(pc'[u])
    <3>1. CASE u = t
      <4>1. lock[p][s] = "none" /\ pc'[t] = "lock_shared"
        BY <1>1, <1>2 DEF LocksInv, LockInv, SandboxTypeOK
      <4>2. ModeAt("lock_shared") = "none"
        BY DEF ModeAt, Exclusive, Installing
      <4> QED
        BY <1>1, <1>9, <3>1, <4>1, <4>2
    <3>2. CASE u # t
      BY <1>1, <1>9, <2>1, <3>2 DEF LocksInv, LockInv
    <3> QED
      BY <3>1, <3>2
  <2>2. ASSUME NEW q \in Processes, NEW r \in Sandboxes, localLock'[q][r] = None
        PROVE  lock'[q][r] = IF inContext'[q][r] = 0 THEN "none" ELSE "shared"
    BY <1>1, <1>10, <2>2, SandboxAssumption DEF LocksInv, LockInv
  <2> QED
    BY <1>1, <2>1, <2>2 DEF LocksInv, LockInv
<1> QED
  BY <1>6, <1>7, <1>8, <1>12, <1>13 DEF LocksInv

\* Another thread of the process is inside: one more enters, nobody being in _get.
LEMMA EnterAgainStep ==
    ASSUME LocksInv, NEW t \in Threads, EnterAgain(t)
    PROVE  LocksInv'
<1> USE DEF Process
<1> DEFINE p == Process(t)
           s == Target(t)
           place == IF depth[t] + 1 = Len(plan[t]) THEN "using" ELSE "entering"
<1>1. /\ pc[t] = "entering" /\ localLock[p][s] = None /\ inContext[p][s] > 0
      /\ inContext' = [inContext EXCEPT ![p][s] = @ + 1]
      /\ pc' = [pc EXCEPT ![t] = place]
      /\ depth' = [depth EXCEPT ![t] = depth[t] + 1]
      /\ UNCHANGED <<plan, localLock, lock, content, fixups, lastCheck, torn>>
  BY DEF EnterAgain, Entered, Goto, diskVars
<1>2. /\ s \in Sandboxes /\ p \in Processes /\ depth[t] \in Nat /\ Len(plan[t]) \in Nat
      /\ depth[t] < Len(plan[t])
  BY <1>1, TargetType DEF LocksInv, SandboxTypeOK, DepthInv
<1>3. place \in Places /\ place \notin Getting /\ "entering" \notin Getting
  BY DEF Getting, Places, Exclusive, Installing
<1>4. Level(t) = depth[t] /\ Level(t)' = depth[t] + 1 /\ \A u \in Threads \ {t} : Level(u)' = Level(u)
  BY <1>1, <1>3 DEF LocksInv, SandboxTypeOK, Level
<1>5. CountInv' /\ inContext' \in [Processes -> [Sandboxes -> Nat]]
  BY <1>1, <1>2, <1>4, CountAdded DEF LocksInv, Target
<1>6. SandboxTypeOK'
  <2> HIDE DEF place
  <2>1. pc' \in [Threads -> Places] /\ depth' \in [Threads -> Nat]
    BY <1>1, <1>2, <1>3 DEF LocksInv, SandboxTypeOK
  <2> QED
    BY <1>1, <1>5, <2>1 DEF LocksInv, SandboxTypeOK
<1>7. DepthInv'
  BY <1>1, <1>2, <1>3 DEF LocksInv, SandboxTypeOK, DepthInv
<1>8. ASSUME NEW u \in Threads, u # t PROVE pc'[u] = pc[u] /\ Target(u)' = Target(u)
  BY <1>1, <1>8 DEF LocksInv, SandboxTypeOK, Target
<1>9. pc'[t] \notin Getting /\ pc[t] \notin Getting
  BY <1>1, <1>3 DEF LocksInv, SandboxTypeOK
<1>10. \A q \in Processes, r \in Sandboxes :
          inContext'[q][r] = IF q = p /\ r = s THEN inContext[q][r] + 1 ELSE inContext[q][r]
  BY <1>1, <1>2 DEF LocksInv, SandboxTypeOK
<1>11. ASSUME NEW u \in Threads, pc[u] \in Getting
       PROVE  /\ Target(u) \in Sandboxes /\ Process(u) \in Processes
              /\ ~(Process(u) = p /\ Target(u) = s)
  BY <1>1, <1>11, TargetType, SandboxAssumption DEF LocksInv, LocalInv
<1>12. LocalInv'
  <2>1. ASSUME NEW u \in Threads, pc'[u] \in Getting
        PROVE  localLock'[Process(u)][Target(u)'] = u /\ inContext'[Process(u)][Target(u)'] = 1
    <3>1. u # t /\ pc[u] \in Getting /\ Target(u)' = Target(u)
      BY <1>8, <1>9, <2>1
    <3> QED
      BY <1>1, <1>10, <1>11, <3>1 DEF LocksInv, LocalInv
  <2>2. ASSUME NEW q \in Processes, NEW r \in Sandboxes, NEW u \in Threads, localLock'[q][r] = u
        PROVE  Process(u) = q /\ pc'[u] \in Getting /\ Target(u)' = r
    BY <1>1, <1>8, <1>9, <2>2 DEF LocksInv, LocalInv
  <2> QED
    BY <2>1, <2>2 DEF LocalInv
<1>13. LockInv'
  <2>1. ASSUME NEW u \in Threads, pc'[u] \in Getting
        PROVE  lock'[Process(u)][Target(u)'] = ModeAt(pc'[u])
    <3>1. u # t /\ pc[u] \in Getting /\ Target(u)' = Target(u) /\ pc'[u] = pc[u]
      BY <1>8, <1>9, <2>1
    <3> QED
      BY <1>1, <3>1 DEF LocksInv, LockInv
  <2>2. ASSUME NEW q \in Processes, NEW r \in Sandboxes, localLock'[q][r] = None
        PROVE  lock'[q][r] = IF inContext'[q][r] = 0 THEN "none" ELSE "shared"
    BY <1>1, <1>2, <1>10, <2>2 DEF LocksInv, LockInv, SandboxTypeOK
  <2> QED
    BY <1>1, <2>1, <2>2 DEF LocksInv, LockInv
<1> QED
  BY <1>5, <1>6, <1>7, <1>12, <1>13 DEF LocksInv

\* The installation raises: __enter__ takes the thread out of the count and gives both
\* locks up.
LEMMA InstallFailsStep ==
    ASSUME LocksInv, NEW t \in Threads, InstallFails(t)
    PROVE  LocksInv'
<1> USE DEF Process
<1> DEFINE p == Process(t)
           s == Target(t)
           place == IF depth[t] = 0 THEN "idle" ELSE "leaving"
<1>1. /\ pc[t] \in Installing
      /\ lock' = [lock EXCEPT ![p][s] = "none"]
      /\ inContext' = [inContext EXCEPT ![p][s] = @ - 1]
      /\ localLock' = [localLock EXCEPT ![p][s] = None]
      /\ pc' = [pc EXCEPT ![t] = place]
      /\ UNCHANGED <<plan, depth, content, fixups, lastCheck>>
      /\ torn' \in {torn, torn \cup {s}}
  BY DEF InstallFails, SetLock, Release, Goto
<1>2. pc[t] \in Getting /\ place \in Places /\ place \notin Getting
  BY <1>1 DEF Getting, Places, Exclusive, Installing
<1>3. /\ s \in Sandboxes /\ p \in Processes /\ depth[t] \in Nat /\ Len(plan[t]) \in Nat
      /\ depth[t] < Len(plan[t])
  BY <1>2, TargetType DEF LocksInv, SandboxTypeOK, DepthInv
<1>4. /\ Level(t) = depth[t] + 1 /\ Level(t)' = depth[t]
      /\ \A u \in Threads \ {t} : Level(u)' = Level(u)
  BY <1>1, <1>2 DEF LocksInv, SandboxTypeOK, Level
<1>5. CountInv' /\ inContext' \in [Processes -> [Sandboxes -> Nat]]
  <2>1. Level(t)' = Level(t) - 1 /\ Level(t) \in Nat \ {0} /\ plan[t][Level(t)] = s
    BY <1>3, <1>4 DEF Target
  <2> QED
    BY <1>1, <1>3, <1>4, <2>1, CountRemoved DEF LocksInv
<1>6. SandboxTypeOK'
  BY <1>1, <1>2, <1>3, <1>5 DEF LocksInv, SandboxTypeOK, Modes
<1>7. DepthInv'
  BY <1>1, <1>2, <1>3 DEF LocksInv, SandboxTypeOK, DepthInv
<1>8. ASSUME NEW u \in Threads, u # t PROVE pc'[u] = pc[u] /\ Target(u)' = Target(u)
  BY <1>1, <1>8 DEF LocksInv, SandboxTypeOK, Target
<1>9. pc'[t] \notin Getting
  BY <1>1, <1>2 DEF LocksInv, SandboxTypeOK
<1>10. \A q \in Processes, r \in Sandboxes :
          /\ inContext'[q][r] = IF q = p /\ r = s THEN inContext[q][r] - 1 ELSE inContext[q][r]
          /\ localLock'[q][r] = IF q = p /\ r = s THEN None ELSE localLock[q][r]
          /\ lock'[q][r] = IF q = p /\ r = s THEN "none" ELSE lock[q][r]
  BY <1>1, <1>3 DEF LocksInv, SandboxTypeOK
<1>11. ASSUME NEW u \in Threads, pc[u] \in Getting, u # t
       PROVE  /\ Target(u) \in Sandboxes /\ Process(u) \in Processes
              /\ ~(Process(u) = p /\ Target(u) = s)
  BY <1>2, <1>11, TargetType, GetterIsAlone DEF LocksInv
<1>12. LocalInv'
  <2>1. ASSUME NEW u \in Threads, pc'[u] \in Getting
        PROVE  localLock'[Process(u)][Target(u)'] = u /\ inContext'[Process(u)][Target(u)'] = 1
    <3>1. u # t /\ pc[u] \in Getting /\ Target(u)' = Target(u)
      BY <1>8, <1>9, <2>1
    <3> QED
      BY <1>10, <1>11, <3>1 DEF LocksInv, LocalInv
  <2>2. ASSUME NEW q \in Processes, NEW r \in Sandboxes, NEW u \in Threads, localLock'[q][r] = u
        PROVE  Process(u) = q /\ pc'[u] \in Getting /\ Target(u)' = r
    <3>1. localLock[q][r] = u /\ ~(q = p /\ r = s)
      BY <1>10, <2>2, SandboxAssumption
    <3>2. Process(u) = q /\ pc[u] \in Getting /\ Target(u) = r
      BY <3>1 DEF LocksInv, LocalInv
    <3>3. u # t
      BY <3>1, <3>2
    <3> QED
      BY <1>8, <3>2, <3>3
  <2> QED
    BY <2>1, <2>2 DEF LocalInv
<1>13. LockInv'
  <2>1. ASSUME NEW u \in Threads, pc'[u] \in Getting
        PROVE  lock'[Process(u)][Target(u)'] = ModeAt(pc'[u])
    <3>1. u # t /\ pc[u] \in Getting /\ Target(u)' = Target(u) /\ pc'[u] = pc[u]
      BY <1>8, <1>9, <2>1
    <3> QED
      BY <1>10, <1>11, <3>1 DEF LocksInv, LockInv
  <2>2. ASSUME NEW q \in Processes, NEW r \in Sandboxes, localLock'[q][r] = None
        PROVE  lock'[q][r] = IF inContext'[q][r] = 0 THEN "none" ELSE "shared"
    <3>1. CASE q = p /\ r = s
      BY <1>2, <1>10, <3>1 DEF LocksInv, LocalInv
    <3>2. CASE ~(q = p /\ r = s)
      BY <1>10, <2>2, <3>2 DEF LocksInv, LockInv
    <3> QED
      BY <3>1, <3>2
  <2>3. ASSUME NEW q1 \in Processes, NEW q2 \in Processes, NEW r \in Sandboxes, q1 # q2,
               lock'[q1][r] = "exclusive"
        PROVE  lock'[q2][r] = "none"
    BY <1>10, <2>3 DEF LocksInv, LockInv
  <2> QED
    BY <2>1, <2>2, <2>3 DEF LockInv
<1> QED
  BY <1>5, <1>6, <1>7, <1>12, <1>13 DEF LocksInv

\* __exit__: the last thread of the process out gives the flock up.
LEMMA LeaveStep ==
    ASSUME LocksInv, NEW t \in Threads, Leave(t)
    PROVE  LocksInv'
<1> USE DEF Process
<1> DEFINE p == Process(t)
           s == plan[t][depth[t]]
           place == IF depth[t] = 1 THEN "idle" ELSE "leaving"
<1>1. /\ pc[t] \in {"using", "leaving"} /\ localLock[p][s] = None
      /\ inContext' = [inContext EXCEPT ![p][s] = @ - 1]
      /\ lock' = IF inContext[p][s] = 1 THEN [lock EXCEPT ![p][s] = "none"] ELSE lock
      /\ depth' = [depth EXCEPT ![t] = depth[t] - 1]
      /\ pc' = [pc EXCEPT ![t] = place]
      /\ UNCHANGED <<plan, localLock, content, fixups, lastCheck, torn>>
  BY DEF Leave, Goto, diskVars
<1>2. pc[t] \notin Getting /\ place \in Places /\ place \notin Getting
  BY <1>1 DEF Getting, Places, Exclusive, Installing
<1>3. /\ s \in Sandboxes /\ p \in Processes /\ depth[t] \in Nat \ {0} /\ Len(plan[t]) \in Nat
      /\ depth[t] <= Len(plan[t])
  <2>1. depth[t] \in Nat \ {0} /\ depth[t] <= Len(plan[t]) /\ plan[t] \in Seq(Sandboxes)
    BY <1>1 DEF LocksInv, SandboxTypeOK, DepthInv
  <2> QED
    BY <2>1, SandboxAssumption
<1>4. /\ Level(t) = depth[t] /\ Level(t)' = depth[t] - 1
      /\ \A u \in Threads \ {t} : Level(u)' = Level(u)
  BY <1>1, <1>2 DEF LocksInv, SandboxTypeOK, Level
<1>5. CountInv' /\ inContext' \in [Processes -> [Sandboxes -> Nat]]
  BY <1>1, <1>3, <1>4, CountRemoved DEF LocksInv
<1>6. SandboxTypeOK'
  <2> HIDE DEF place
  <2>1. pc' \in [Threads -> Places] /\ depth' \in [Threads -> Nat]
    BY <1>1, <1>2, <1>3 DEF LocksInv, SandboxTypeOK
  <2>2. lock' \in [Processes -> [Sandboxes -> Modes]]
    BY <1>1, <1>3 DEF LocksInv, SandboxTypeOK, Modes
  <2> QED
    BY <1>1, <1>5, <2>1, <2>2 DEF LocksInv, SandboxTypeOK
<1>7. DepthInv'
  BY <1>1, <1>2, <1>3 DEF LocksInv, SandboxTypeOK, DepthInv
<1>8. ASSUME NEW u \in Threads, u # t PROVE pc'[u] = pc[u] /\ Target(u)' = Target(u)
  BY <1>1, <1>8 DEF LocksInv, SandboxTypeOK, Target
<1>9. pc'[t] \notin Getting
  BY <1>1, <1>2 DEF LocksInv, SandboxTypeOK
<1>10. \A q \in Processes, r \in Sandboxes :
          inContext'[q][r] = IF q = p /\ r = s THEN inContext[q][r] - 1 ELSE inContext[q][r]
  BY <1>1, <1>3 DEF LocksInv, SandboxTypeOK
<1>11. inContext[p][s] \in Nat \ {0}
  <2>1. inContext'[p][s] \in Nat /\ inContext[p][s] \in Nat
    BY <1>3, <1>5 DEF LocksInv, SandboxTypeOK
  <2> QED
    BY <1>3, <1>10, <2>1
<1>12. /\ lock[p][s] = "shared"
       /\ \A q \in Processes, r \in Sandboxes :
             lock'[q][r] = IF q = p /\ r = s /\ inContext[p][s] = 1 THEN "none" ELSE lock[q][r]
  BY <1>1, <1>3, <1>11 DEF LocksInv, LockInv, SandboxTypeOK
<1>13. ASSUME NEW u \in Threads, pc'[u] \in Getting
       PROVE  /\ pc[u] \in Getting /\ pc'[u] = pc[u] /\ Target(u)' = Target(u)
              /\ Target(u) \in Sandboxes /\ Process(u) \in Processes
              /\ ~(Process(u) = p /\ Target(u) = s)
  <2>1. u # t
    BY <1>9, <1>13
  <2>2. pc[u] \in Getting /\ pc'[u] = pc[u] /\ Target(u)' = Target(u)
    BY <1>8, <1>13, <2>1
  <2> QED
    BY <1>1, <2>2, TargetType, SandboxAssumption DEF LocksInv, LocalInv
<1>14. LocalInv'
  <2>1. ASSUME NEW u \in Threads, pc'[u] \in Getting
        PROVE  localLock'[Process(u)][Target(u)'] = u /\ inContext'[Process(u)][Target(u)'] = 1
    BY <1>1, <1>10, <1>13, <2>1 DEF LocksInv, LocalInv
  <2>2. ASSUME NEW q \in Processes, NEW r \in Sandboxes, NEW u \in Threads, localLock'[q][r] = u
        PROVE  Process(u) = q /\ pc'[u] \in Getting /\ Target(u)' = r
    BY <1>1, <1>2, <1>8, <2>2 DEF LocksInv, LocalInv
  <2> QED
    BY <2>1, <2>2 DEF LocalInv
<1>15. LockInv'
  <2>1. ASSUME NEW u \in Threads, pc'[u] \in Getting
        PROVE  lock'[Process(u)][Target(u)'] = ModeAt(pc'[u])
    BY <1>12, <1>13, <2>1 DEF LocksInv, LockInv
  <2>2. ASSUME NEW q \in Processes, NEW r \in Sandboxes, localLock'[q][r] = None
        PROVE  lock'[q][r] = IF inContext'[q][r] = 0 THEN "none" ELSE "shared"
    <3>1. CASE q = p /\ r = s
      BY <1>10, <1>11, <1>12, <3>1
    <3>2. CASE ~(q = p /\ r = s)
      BY <1>1, <1>10, <1>12, <2>2, <3>2 DEF LocksInv, LockInv
    <3> QED
      BY <3>1, <3>2
  <2>3. ASSUME NEW q1 \in Processes, NEW q2 \in Processes, NEW r \in Sandboxes, q1 # q2,
               lock'[q1][r] = "exclusive"
        PROVE  lock'[q2][r] = "none"
    BY <1>12, <2>3 DEF LocksInv, LockInv
  <2> QED
    BY <2>1, <2>2, <2>3 DEF LockInv
<1> QED
  BY <1>5, <1>6, <1>7, <1>14, <1>15 DEF LocksInv

\* A thread that is inside nothing makes a new plan.
LEMMA UseExecutorStep ==
    ASSUME LocksInv, NEW t \in Threads, NEW order \in Orders, UseExecutor(t, order)
    PROVE  LocksInv'
<1> USE DEF Process
<1>1. /\ pc[t] = "idle" /\ plan' = [plan EXCEPT ![t] = order] /\ pc' = [pc EXCEPT ![t] = "entering"]
      /\ UNCHANGED <<depth, localLock, inContext, lock, content, fixups, lastCheck, torn>>
  BY DEF UseExecutor, Goto, diskVars
<1>2. /\ depth[t] = 0 /\ order \in Seq(Sandboxes) /\ Len(order) \in Nat \ {0}
      /\ "idle" \notin Getting /\ "entering" \notin Getting /\ "entering" \in Places
  BY <1>1, SandboxAssumption DEF LocksInv, DepthInv, Getting, Exclusive, Installing, Places
<1>3. SandboxTypeOK'
  BY <1>1, <1>2 DEF LocksInv, SandboxTypeOK
<1>4. DepthInv'
  BY <1>1, <1>2 DEF LocksInv, SandboxTypeOK, DepthInv
<1>5. \A u \in Threads : Level(u)' = Level(u) /\ \A k \in 1..Level(u) : plan'[u][k] = plan[u][k]
  BY <1>1, <1>2 DEF LocksInv, SandboxTypeOK, Level
<1>6. CountInv'
  BY <1>1, <1>5, SlotsKept DEF LocksInv, CountInv
<1>7. ASSUME NEW u \in Threads, u # t PROVE pc'[u] = pc[u] /\ Target(u)' = Target(u)
  BY <1>1, <1>7 DEF LocksInv, SandboxTypeOK, Target
<1>8. pc'[t] \notin Getting /\ pc[t] \notin Getting
  BY <1>1, <1>2 DEF LocksInv, SandboxTypeOK
<1>9. LocalInv' /\ LockInv'
  <2>1. ASSUME NEW u \in Threads, pc'[u] \in Getting
        PROVE  /\ localLock'[Process(u)][Target(u)'] = u /\ inContext'[Process(u)][Target(u)'] = 1
               /\ lock'[Process(u)][Target(u)'] = ModeAt(pc'[u])
    <3>1. pc[u] \in Getting /\ pc'[u] = pc[u] /\ Target(u)' = Target(u)
      BY <1>7, <1>8, <2>1
    <3> QED
      BY <1>1, <3>1 DEF LocksInv, LocalInv, LockInv
  <2>2. ASSUME NEW q \in Processes, NEW r \in Sandboxes, NEW u \in Threads, localLock'[q][r] = u
        PROVE  Process(u) = q /\ pc'[u] \in Getting /\ Target(u)' = r
    BY <1>1, <1>7, <1>8, <2>2 DEF LocksInv, LocalInv
  <2> QED
    BY <1>1, <2>1, <2>2 DEF LocksInv, LocalInv, LockInv
<1> QED
  BY <1>3, <1>4, <1>6, <1>9 DEF LocksInv

\* The kernel drops the flocks of a process that dies, and its threads are gone.
LEMMA DieStep ==
    ASSUME LocksInv, NEW p \in Processes, Die(p)
    PROVE  LocksInv'
<1> USE DEF Process
<1>1. /\ pc' = [t \in Threads |-> IF Process(t) = p THEN "idle" ELSE pc[t]]
      /\ depth' = [t \in Threads |-> IF Process(t) = p THEN 0 ELSE depth[t]]
      /\ localLock' = [localLock EXCEPT ![p] = [s \in Sandboxes |-> None]]
      /\ inContext' = [inContext EXCEPT ![p] = [s \in Sandboxes |-> 0]]
      /\ lock' = [lock EXCEPT ![p] = [s \in Sandboxes |-> "none"]]
      /\ UNCHANGED <<plan, content, fixups, lastCheck>>
  BY DEF Die
<1>2. torn' \subseteq Sandboxes
  <2>1. ASSUME NEW u \in Threads, Tears(u) PROVE Target(u) \in Sandboxes
    <3>1. pc[u] \in Getting
      BY <2>1 DEF Tears, Getting, Exclusive, Installing
    <3> QED
      BY <3>1, TargetType DEF LocksInv
  <2> QED
    BY <2>1 DEF Die, LocksInv, SandboxTypeOK
<1>3. "idle" \notin Getting /\ "idle" \in Places
  BY DEF Getting, Exclusive, Installing, Places
<1>4. SandboxTypeOK'
  BY <1>1, <1>2, <1>3 DEF LocksInv, SandboxTypeOK, Modes
<1>5. DepthInv'
  <2>1. \A t \in Threads : Len(plan[t]) \in Nat
    BY DEF LocksInv, SandboxTypeOK
  <2> QED
    BY <1>1, <1>3, <2>1 DEF LocksInv, DepthInv
<1>6. ASSUME NEW u \in Threads, Process(u) # p
      PROVE  pc'[u] = pc[u] /\ Target(u)' = Target(u) /\ Level(u)' = Level(u)
  BY <1>1, <1>6 DEF Target, Level
<1>7. ASSUME NEW u \in Threads, Process(u) = p PROVE pc'[u] \notin Getting /\ Level(u)' = 0
  BY <1>1, <1>3, <1>7 DEF Level
<1>8. /\ \A s \in Sandboxes : inContext'[p][s] = 0 /\ localLock'[p][s] = None /\ lock'[p][s] = "none"
      /\ \A q \in Processes \ {p}, s \in Sandboxes :
            /\ inContext'[q][s] = inContext[q][s] /\ localLock'[q][s] = localLock[q][s]
            /\ lock'[q][s] = lock[q][s]
  BY <1>1 DEF LocksInv, SandboxTypeOK
<1>9. CountInv'
  <2>1. \A s : Slots(p, s)' = {}
    BY <1>7 DEF Slots
  <2>2. \A q \in Processes \ {p} : \A s : Slots(q, s)' = Slots(q, s)
    BY <1>1, <1>6 DEF Slots
  <2>3. IsFiniteSet({}) /\ Cardinality({}) = 0
    BY FS_EmptySet
  <2>4. ASSUME NEW q \in Processes, NEW s \in Sandboxes
        PROVE  IsFiniteSet(Slots(q, s)') /\ inContext'[q][s] = Cardinality(Slots(q, s)')
    <3>1. CASE q = p
      BY <1>8, <2>1, <2>3, <3>1
    <3>2. CASE q # p
      BY <1>8, <2>2, <3>2 DEF LocksInv, CountInv
    <3> QED
      BY <3>1, <3>2
  <2> QED
    BY <2>4 DEF CountInv
<1>10. ASSUME NEW u \in Threads, pc'[u] \in Getting
       PROVE  /\ Process(u) \in Processes \ {p} /\ pc[u] \in Getting
              /\ pc'[u] = pc[u] /\ Target(u)' = Target(u) /\ Target(u) \in Sandboxes
  BY <1>6, <1>7, <1>10, TargetType, SandboxAssumption DEF LocksInv
<1>11. LocalInv'
  <2>1. ASSUME NEW u \in Threads, pc'[u] \in Getting
        PROVE  localLock'[Process(u)][Target(u)'] = u /\ inContext'[Process(u)][Target(u)'] = 1
    BY <1>8, <1>10, <2>1 DEF LocksInv, LocalInv
  <2>2. ASSUME NEW q \in Processes, NEW r \in Sandboxes, NEW u \in Threads, localLock'[q][r] = u
        PROVE  Process(u) = q /\ pc'[u] \in Getting /\ Target(u)' = r
    <3>1. q # p
      BY <1>8, <2>2, SandboxAssumption
    <3>2. Process(u) = q /\ pc[u] \in Getting /\ Target(u) = r
      BY <1>8, <2>2, <3>1 DEF LocksInv, LocalInv
    <3> QED
      BY <1>6, <3>1, <3>2
  <2> QED
    BY <2>1, <2>2 DEF LocalInv
<1>12. LockInv'
  <2>1. ASSUME NEW u \in Threads, pc'[u] \in Getting
        PROVE  lock'[Process(u)][Target(u)'] = ModeAt(pc'[u])
    BY <1>8, <1>10, <2>1 DEF LocksInv, LockInv
  <2>2. ASSUME NEW q \in Processes, NEW r \in Sandboxes, localLock'[q][r] = None
        PROVE  lock'[q][r] = IF inContext'[q][r] = 0 THEN "none" ELSE "shared"
    BY <1>8, <2>2 DEF LocksInv, LockInv
  <2>3. ASSUME NEW q1 \in Processes, NEW q2 \in Processes, NEW r \in Sandboxes, q1 # q2,
               lock'[q1][r] = "exclusive"
        PROVE  lock'[q2][r] = "none"
    BY <1>8, <2>3 DEF LocksInv, LockInv
  <2> QED
    BY <2>1, <2>2, <2>3 DEF LockInv
<1> QED
  BY <1>4, <1>5, <1>9, <1>11, <1>12 DEF LocksInv

-----------------------------------------------------------------------------
(***************************************************************************)
(* The steps of _get keep the locks in order ...                           *)
(***************************************************************************)
LEMMA GettingFacts ==
    /\ Installing \subseteq Exclusive /\ Exclusive \subseteq Getting /\ Getting \subseteq Places
    /\ {"lock_shared", "check", "lock_exclusive", "downgrade"} \subseteq Getting
    /\ "recheck" \in Exclusive
    /\ \A place \in Exclusive : ModeAt(place) = "exclusive"
    /\ ModeAt("check") = "shared"
    /\ \A place \in {"lock_shared", "lock_exclusive", "downgrade"} : ModeAt(place) = "none"
BY DEF Getting, Exclusive, Installing, Places, ModeAt

\* A step inside _get that leaves the flock as it is.
LEMMA SameModeStep ==
    ASSUME LocksInv, NEW t \in Threads, NEW place \in Getting, pc[t] \in Getting,
           Goto(t, place), ModeAt(place) = ModeAt(pc[t]),
           UNCHANGED <<plan, depth, localLock, inContext, lock>>,
           content' \in [Sandboxes -> {"absent", "partial", "whole"}],
           fixups' \subseteq Sandboxes, torn' \subseteq Sandboxes,
           lastCheck' \in [Sandboxes -> {"absent", "recent", "old"}]
    PROVE  LocksInv'
<1>1. Target(t) \in Sandboxes /\ Process(t) \in Processes
  BY TargetType DEF LocksInv
<1>2. lock[Process(t)][Target(t)] = ModeAt(place)
  BY DEF LocksInv, LockInv
<1>3. SetLock(t, ModeAt(place))
  BY <1>1, <1>2 DEF SetLock, LocksInv, SandboxTypeOK
<1>4. ASSUME NEW q \in Others(t)
      PROVE  /\ ModeAt(place) = "exclusive" => lock[q][Target(t)] = "none"
             /\ ModeAt(place) = "shared" => lock[q][Target(t)] # "exclusive"
  BY <1>1, <1>2 DEF LocksInv, LockInv, Others
<1> QED
  BY <1>3, <1>4, GetStep

LEMMA GetLocks ==
    ASSUME LocksInv, NEW t \in Threads,
           \/ LockShared(t) \/ CheckPasses(t) \/ CheckFails(t) \/ LockExclusive(t) \/ RecheckPasses(t)
           \/ RemoveSome(t) \/ RemoveRest(t) \/ Extract(t) \/ ApplyFixups(t) \/ WriteOperative(t) \/ InstallDone(t)
           \/ Downgrade(t)
    PROVE  LocksInv'
<1> USE GettingFacts
<1>1. /\ content \in [Sandboxes -> {"absent", "partial", "whole"}]
      /\ lastCheck \in [Sandboxes -> {"absent", "recent", "old"}]
      /\ fixups \subseteq Sandboxes /\ torn \subseteq Sandboxes
  BY DEF LocksInv, SandboxTypeOK
<1>2. ASSUME pc[t] \in Getting PROVE Target(t) \in Sandboxes /\ Process(t) \in Processes
  BY <1>2, TargetType DEF LocksInv
<1>3. CASE LockShared(t)
  BY <1>1, <1>3, GetStep DEF LockShared, diskVars
<1>4. CASE CheckFails(t)
  BY <1>1, <1>4, GetStep DEF CheckFails, diskVars
<1>5. CASE LockExclusive(t)
  BY <1>1, <1>5, GetStep DEF LockExclusive, diskVars
<1>6. CASE RecheckPasses(t) \/ InstallDone(t)
  <2>1. /\ pc[t] \in Getting /\ Goto(t, "downgrade") /\ SetLock(t, "none")
        /\ lastCheck' = [lastCheck EXCEPT ![Target(t)] = "recent"]
        /\ UNCHANGED <<plan, depth, localLock, inContext, content, fixups, torn>>
    BY <1>6 DEF RecheckPasses, InstallDone, MarkChecked, Installing
  <2>2. lastCheck' \in [Sandboxes -> {"absent", "recent", "old"}]
    BY <1>1, <1>2, <2>1
  <2> QED
    BY <1>1, <2>1, <2>2, GetStep
<1>7. CASE RemoveSome(t) \/ RemoveRest(t) \/ Extract(t) \/ ApplyFixups(t) \/ WriteOperative(t)
  <2>1. pc[t] \in Exclusive
    BY <1>7 DEF RemoveSome, RemoveRest, Extract, ApplyFixups, WriteOperative, Installing
  <2>2. /\ \E place \in Installing : Goto(t, place)
        /\ UNCHANGED <<plan, depth, localLock, inContext, lock>>
    BY <1>7 DEF RemoveSome, RemoveRest, Extract, ApplyFixups, WriteOperative, Installing
  <2>3. /\ content' \in [Sandboxes -> {"absent", "partial", "whole"}]
        /\ lastCheck' \in [Sandboxes -> {"absent", "recent", "old"}]
        /\ fixups' \subseteq Sandboxes /\ torn' \subseteq Sandboxes
    BY <1>1, <1>2, <1>7, <2>1 DEF RemoveSome, RemoveRest, Extract, ApplyFixups, WriteOperative
  <2> QED
    BY <2>1, <2>2, <2>3, SameModeStep
<1>8. CASE CheckPasses(t)
  <2>1. /\ pc[t] = "check" /\ Entered(t) /\ Release(t)
        /\ lastCheck' = [lastCheck EXCEPT ![Target(t)] = "recent"]
        /\ UNCHANGED <<plan, inContext, lock, content, fixups, torn>>
    BY <1>8 DEF CheckPasses, MarkChecked
  <2>2. Target(t) \in Sandboxes /\ Process(t) \in Processes
    BY <1>2, <2>1
  <2>3. lock[Process(t)][Target(t)] = "shared"
    BY <2>1 DEF LocksInv, LockInv
  <2>4. SetLock(t, "shared")
    BY <2>1, <2>2, <2>3 DEF SetLock, LocksInv, SandboxTypeOK
  <2>5. \A q \in Others(t) : lock[q][Target(t)] # "exclusive"
    BY <2>2, <2>3 DEF LocksInv, LockInv, Others
  <2>6. lastCheck' \in [Sandboxes -> {"absent", "recent", "old"}]
    BY <1>1, <2>1, <2>2
  <2> QED
    BY <2>1, <2>4, <2>5, <2>6, EnteredStep
<1>9. CASE Downgrade(t)
  BY <1>1, <1>9, EnteredStep DEF Downgrade, diskVars
<1> QED
  BY <1>3, <1>4, <1>5, <1>6, <1>7, <1>8, <1>9

LEMMA LocksNext == LocksInv /\ [SandboxNext]_sandboxVars => LocksInv'
<1> SUFFICES ASSUME LocksInv, [SandboxNext]_sandboxVars PROVE LocksInv'
  OBVIOUS
<1>1. CASE UNCHANGED sandboxVars \/ \E s \in Sandboxes : TimePasses(s)
  <2>1. /\ UNCHANGED <<pc, plan, depth, localLock, inContext, lock, content, fixups, torn>>
        /\ lastCheck' \in [Sandboxes -> {"absent", "recent", "old"}]
    BY <1>1 DEF sandboxVars, threadVars, diskVars, TimePasses, LocksInv, SandboxTypeOK
  <2>2. SandboxTypeOK' /\ DepthInv'
    BY <2>1 DEF LocksInv, SandboxTypeOK, DepthInv
  <2>3. CountInv'
    BY <2>1 DEF LocksInv, CountInv, Slots, Level
  <2>4. LocalInv' /\ LockInv'
    BY <2>1 DEF LocksInv, LocalInv, LockInv, Target, Process
  <2> QED
    BY <2>2, <2>3, <2>4 DEF LocksInv
<1>2. ASSUME NEW t \in Threads,
             \/ \E order \in Orders : UseExecutor(t, order)
             \/ EnterAgain(t) \/ EnterFirst(t) \/ InstallFails(t) \/ Leave(t)
      PROVE  LocksInv'
  BY <1>2, UseExecutorStep, EnterAgainStep, EnterFirstStep, InstallFailsStep, LeaveStep
<1>3. ASSUME NEW p \in Processes, Die(p) PROVE LocksInv'
  BY <1>3, DieStep
<1> QED
  BY <1>1, <1>2, <1>3, GetLocks DEF SandboxNext

-----------------------------------------------------------------------------
(***************************************************************************)
(* ... and the directories as their users expect them.                     *)
(***************************************************************************)
\* A step of a thread that touches no directory, and ends no installation but one
\* that is complete.
LEMMA QuietStep ==
    ASSUME ContentInv, UsersSeeWhole, NEW t \in Threads,
           \A u \in Threads : u # t => pc'[u] = pc[u] /\ Target(u)' = Target(u),
           pc[t] \notin Installing \ {"marking"}, pc'[t] \notin Installing,
           pc'[t] = "downgrade" => Target(t)' \in torn \/ content[Target(t)'] = "whole",
           \A u \in Threads : \A s \in Inside(u)' : s \in Inside(u) \cup torn \/ content[s] = "whole",
           UNCHANGED <<content, fixups, torn>>
    PROVE  ContentInv' /\ UsersSeeWhole'
<1>1. UsersSeeWhole'
  BY DEF UsersSeeWhole
<1>2. ASSUME NEW s \in fixups' \ torn'
      PROVE  content'[s] = "whole" \/ \E u \in Threads : pc'[u] \in {"removing", "fixing"} /\ Target(u)' = s
  <2> SUFFICES ASSUME content[s] # "whole" PROVE \E u \in Threads : pc'[u] \in {"removing", "fixing"} /\ Target(u)' = s
    OBVIOUS
  <2>1. PICK u \in Threads : pc[u] \in {"removing", "fixing"} /\ Target(u) = s
    BY <1>2 DEF ContentInv
  <2>2. u # t
    BY <2>1 DEF Installing
  <2> QED
    BY <2>1, <2>2
<1>3. ASSUME NEW v \in Threads, pc'[v] = "downgrade", Target(v)' \notin torn'
      PROVE  \/ content'[Target(v)'] = "whole"
             \/ \E u \in Threads : pc'[u] \in Installing /\ Target(u)' = Target(v)'
  <2>1. CASE v = t
    BY <1>3, <2>1
  <2>2. CASE v # t
    <3>1. pc[v] = "downgrade" /\ Target(v)' = Target(v) /\ Target(v) \notin torn
      BY <1>3, <2>2
    <3> SUFFICES ASSUME content[Target(v)] # "whole"
                 PROVE  \E u \in Threads : pc'[u] \in Installing /\ Target(u)' = Target(v)
      BY <3>1
    <3>2. PICK u \in Threads : pc[u] \in Installing /\ Target(u) = Target(v)
      BY <3>1 DEF ContentInv
    <3>3. u # t
      BY <3>2 DEF ContentInv
    <3> QED
      BY <3>2, <3>3
  <2> QED
    BY <2>1, <2>2
<1>4. ASSUME NEW v \in Threads
      PROVE  /\ pc'[v] = "marking" => content'[Target(v)'] = "whole"
             /\ pc'[v] \in {"fetch", "extracting"} => Target(v)' \notin fixups'
  BY DEF ContentInv, Installing
<1> QED
  BY <1>1, <1>2, <1>3, <1>4 DEF ContentInv

\* A step of an installation.
LEMMA InstallStep ==
    ASSUME LocksInv, ContentInv, UsersSeeWhole, NEW t \in Threads, pc[t] \in Exclusive,
           UNCHANGED <<plan, depth>>, NEW place \in Installing, Goto(t, place),
           \A s \in Sandboxes \ {Target(t)} : /\ content'[s] = content[s]
                                              /\ s \in fixups' => s \in fixups
                                              /\ s \in torn => s \in torn',
           \/ place \in {"removing", "fixing"} \/ Target(t) \in torn'
           \/ Target(t) \in fixups' => content'[Target(t)] = "whole",
           place = "marking" => content'[Target(t)] = "whole",
           place \in {"fetch", "extracting"} => Target(t) \notin fixups',
           fixups' \subseteq Sandboxes
    PROVE  ContentInv' /\ UsersSeeWhole'
<1> DEFINE s == Target(t)
<1>1. /\ pc'[t] = place /\ \A u \in Threads : u # t => pc'[u] = pc[u]
      /\ \A u \in Threads : Target(u)' = Target(u) /\ Inside(u)' = Inside(u)
      /\ pc[t] \in Getting
  BY GettingFacts DEF Goto, LocksInv, SandboxTypeOK, Target, Inside
<1>2. \A u \in Threads : /\ s \notin Inside(u)
                        /\ (pc[u] \in Exclusive /\ Target(u) = s => u = t)
  BY ExclusiveIsAlone
<1>3. \A u \in Threads : Inside(u) \subseteq Sandboxes
  BY InsideType DEF LocksInv
<1>4. UsersSeeWhole'
  BY <1>1, <1>2, <1>3 DEF UsersSeeWhole
<1>5. ASSUME NEW r \in fixups' \ torn'
      PROVE  content'[r] = "whole" \/ \E u \in Threads : pc'[u] \in {"removing", "fixing"} /\ Target(u)' = r
  <2>1. CASE r = s
    BY <1>1, <1>5, <2>1
  <2>2. CASE r # s
    <3>1. r \in fixups \ torn /\ content'[r] = content[r]
      BY <1>5, <2>2
    <3> SUFFICES ASSUME content[r] # "whole" PROVE \E u \in Threads : pc'[u] \in {"removing", "fixing"} /\ Target(u)' = r
      BY <3>1
    <3>2. PICK u \in Threads : pc[u] \in {"removing", "fixing"} /\ Target(u) = r
      BY <3>1 DEF ContentInv
    <3> QED
      BY <1>1, <2>2, <3>2
  <2> QED
    BY <2>1, <2>2
<1>6. ASSUME NEW v \in Threads, pc'[v] = "downgrade", Target(v)' \notin torn'
      PROVE  \/ content'[Target(v)'] = "whole"
             \/ \E u \in Threads : pc'[u] \in Installing /\ Target(u)' = Target(v)'
  <2>1. v # t /\ pc[v] = "downgrade" /\ Target(v)' = Target(v)
    BY <1>1, <1>6 DEF Installing
  <2>2. CASE Target(v) = s
    BY <1>1, <2>1, <2>2
  <2>3. CASE Target(v) # s
    <3>1. Target(v) \in Sandboxes
      BY <2>1, TargetType, GettingFacts DEF LocksInv
    <3>2. Target(v) \notin torn /\ content'[Target(v)] = content[Target(v)]
      BY <1>6, <2>1, <2>3, <3>1
    <3> SUFFICES ASSUME content[Target(v)] # "whole"
                 PROVE  \E u \in Threads : pc'[u] \in Installing /\ Target(u)' = Target(v)
      BY <2>1, <3>2
    <3>3. PICK u \in Threads : pc[u] \in Installing /\ Target(u) = Target(v)
      BY <2>1, <3>2 DEF ContentInv
    <3> QED
      BY <1>1, <2>3, <3>3
  <2> QED
    BY <2>2, <2>3
<1>7. ASSUME NEW v \in Threads
      PROVE  /\ pc'[v] = "marking" => content'[Target(v)'] = "whole"
             /\ pc'[v] \in {"fetch", "extracting"} => Target(v)' \notin fixups'
  <2>1. CASE v = t
    BY <1>1, <2>1
  <2>2. CASE v # t
    <3> SUFFICES ASSUME pc[v] \in {"marking", "fetch", "extracting"}
                 PROVE  content'[Target(v)] = content[Target(v)] /\ (Target(v) \in fixups' => Target(v) \in fixups)
      BY <1>1, <2>2 DEF ContentInv
    <3>1. pc[v] \in Exclusive /\ pc[v] \in Getting
      BY GettingFacts DEF Installing
    <3>2. Target(v) # s /\ Target(v) \in Sandboxes
      BY <1>2, <2>2, <3>1, TargetType DEF LocksInv
    <3> QED
      BY <3>2
  <2> QED
    BY <2>1, <2>2
<1> QED
  BY <1>4, <1>5, <1>6, <1>7 DEF ContentInv

\* Threads give up: a failed installation, or the death of a process.
LEMMA AbortStep ==
    ASSUME ContentInv, UsersSeeWhole, NEW D \in SUBSET Threads,
           \A u \in Threads \ D : pc'[u] = pc[u] /\ Target(u)' = Target(u),
           \A u \in D : pc'[u] \notin Installing \cup {"downgrade"},
           \A u \in D : Tears(u) => Target(u) \in torn',
           torn \subseteq torn', UNCHANGED <<content, fixups>>,
           \A u \in Threads : Inside(u)' \subseteq Inside(u)
    PROVE  ContentInv' /\ UsersSeeWhole'
<1>1. UsersSeeWhole'
  BY DEF UsersSeeWhole
<1>2. ASSUME NEW s \in fixups' \ torn'
      PROVE  content'[s] = "whole" \/ \E u \in Threads : pc'[u] \in {"removing", "fixing"} /\ Target(u)' = s
  <2> SUFFICES ASSUME content[s] # "whole" PROVE \E u \in Threads : pc'[u] \in {"removing", "fixing"} /\ Target(u)' = s
    OBVIOUS
  <2>1. PICK u \in Threads : pc[u] \in {"removing", "fixing"} /\ Target(u) = s
    BY <1>2 DEF ContentInv
  <2>2. u \notin D
    BY <1>2, <2>1 DEF Tears
  <2> QED
    BY <2>1, <2>2
<1>3. ASSUME NEW v \in Threads, pc'[v] = "downgrade", Target(v)' \notin torn'
      PROVE  \/ content'[Target(v)'] = "whole"
             \/ \E u \in Threads : pc'[u] \in Installing /\ Target(u)' = Target(v)'
  <2>1. v \notin D /\ pc[v] = "downgrade" /\ Target(v)' = Target(v) /\ Target(v) \notin torn
    BY <1>3
  <2> SUFFICES ASSUME content[Target(v)] # "whole"
               PROVE  \E u \in Threads : pc'[u] \in Installing /\ Target(u)' = Target(v)
    BY <2>1
  <2>2. PICK u \in Threads : pc[u] \in Installing /\ Target(u) = Target(v)
    BY <2>1 DEF ContentInv
  <2>3. u \notin D
    BY <1>3, <2>1, <2>2 DEF Tears
  <2> QED
    BY <2>2, <2>3
<1>4. ASSUME NEW v \in Threads
      PROVE  /\ pc'[v] = "marking" => content'[Target(v)'] = "whole"
             /\ pc'[v] \in {"fetch", "extracting"} => Target(v)' \notin fixups'
  BY DEF ContentInv, Installing
<1> QED
  BY <1>1, <1>2, <1>3, <1>4 DEF ContentInv

\* __enter__ returns: the thread is inside one more.
LEMMA InsideEntered ==
    ASSUME LocksInv, NEW t \in Threads, Entered(t), UNCHANGED plan
    PROVE  /\ \A u \in Threads : \A s \in Inside(u)' : s \in Inside(u) \/ s = Target(t)
           /\ \A u \in Threads : u # t => pc'[u] = pc[u] /\ Target(u)' = Target(u)
           /\ pc'[t] \in {"using", "entering"}
<1>1. /\ depth' = [depth EXCEPT ![t] = depth[t] + 1] /\ depth \in [Threads -> Nat]
      /\ \A u \in Threads : u # t => pc'[u] = pc[u]
      /\ pc'[t] \in {"using", "entering"}
  BY DEF Entered, Goto, LocksInv, SandboxTypeOK
<1>2. \A u \in Threads : u # t => depth'[u] = depth[u]
  BY <1>1
<1>3. \A u \in Threads : u # t => Target(u)' = Target(u) /\ Inside(u)' = Inside(u)
  BY <1>2 DEF Target, Inside
<1>4. ASSUME NEW s \in Inside(t)' PROVE s \in Inside(t) \/ s = Target(t)
  <2>1. PICK k \in 1..(depth[t] + 1) : s = plan[t][k]
    BY <1>1 DEF Inside
  <2>2. k \in 1..depth[t] \/ k = depth[t] + 1
    BY <1>1, <2>1
  <2> QED
    BY <2>1, <2>2 DEF Inside, Target
<1> QED
  BY <1>1, <1>3, <1>4

LEMMA EnterContent ==
    ASSUME LocksInv, ContentInv, UsersSeeWhole, NEW t \in Threads,
           EnterAgain(t) \/ CheckPasses(t) \/ Downgrade(t)
    PROVE  ContentInv' /\ UsersSeeWhole'
<1> DEFINE p == Process(t)
           s == Target(t)
<1>1. /\ Entered(t) /\ UNCHANGED <<plan, content, fixups, torn>>
      /\ pc[t] \in {"entering", "check", "downgrade"}
  BY DEF EnterAgain, CheckPasses, Downgrade, diskVars
<1>2. s \in Sandboxes /\ p \in Processes
  BY <1>1, TargetType, GettingFacts DEF LocksInv
<1>3. s \in torn \/ content[s] = "whole"
  <2>1. CASE EnterAgain(t)
    <3>1. localLock[p][s] = None /\ inContext[p][s] > 0
      BY <2>1 DEF EnterAgain
    <3>2. Slots(p, s) # {}
      BY <1>2, <3>1, FS_EmptySet DEF LocksInv, CountInv
    <3>3. PICK u \in Threads, k \in Nat : Process(u) = p /\ k \in 1..Level(u) /\ plan[u][k] = s
      BY <3>2 DEF Slots
    <3>4. depth[u] \in Nat
      BY InsideType DEF LocksInv
    <3>5. k \in 1..depth[u]
      <4> SUFFICES ASSUME k \notin 1..depth[u] PROVE FALSE
        OBVIOUS
      <4>1. pc[u] \in Getting /\ k = depth[u] + 1
        BY <3>3, <3>4 DEF Level
      <4>2. localLock[p][s] = u
        BY <3>3, <4>1 DEF LocksInv, LocalInv, Target
      <4> QED
        BY <3>1, <4>2, SandboxAssumption
    <3>6. s \in Inside(u)
      BY <3>3, <3>5 DEF Inside
    <3> QED
      BY <3>6 DEF UsersSeeWhole
  <2>2. CASE CheckPasses(t)
    <3>1. pc[t] = "check" /\ s \in fixups
      BY <2>2 DEF CheckPasses, Installed
    <3>2. ASSUME NEW u \in Threads, pc[u] \in {"removing", "fixing"}, Target(u) = s PROVE FALSE
      <4>1. pc[u] \in Exclusive
        BY <3>2, GettingFacts DEF Installing
      <4>2. u = t
        BY <3>1, <3>2, <4>1, ExclusiveIsAlone
      <4> QED
        BY <3>1, <3>2, <4>2
    <3> QED
      BY <3>1, <3>2 DEF ContentInv
  <2>3. CASE Downgrade(t)
    <3>1. pc[t] = "downgrade" /\ \A q \in Others(t) : lock[q][s] # "exclusive"
      BY <2>3 DEF Downgrade
    <3>2. ASSUME NEW u \in Threads, pc[u] \in Installing, Target(u) = s PROVE FALSE
      <4>1. pc[u] \in Getting /\ Process(u) \in Processes /\ lock[Process(u)][s] = "exclusive"
        BY <3>2, GettingFacts, TargetType DEF LocksInv, LockInv
      <4>2. Process(u) = p
        BY <3>1, <4>1 DEF Others
      <4>3. u = t
        BY <3>1, <3>2, <4>1, <4>2, GetterIsAlone, GettingFacts
      <4> QED
        BY <3>1, <3>2, <4>3 DEF Installing
    <3> QED
      BY <3>1, <3>2 DEF ContentInv
  <2> QED
    BY <2>1, <2>2, <2>3
<1>4. pc[t] \notin Installing /\ pc'[t] \notin Installing \cup {"downgrade"}
  BY <1>1, InsideEntered DEF Installing
<1>5. \A u \in Threads : \A r \in Inside(u)' : r \in Inside(u) \cup torn \/ content[r] = "whole"
  BY <1>1, <1>3, InsideEntered
<1>6. \A u \in Threads : u # t => pc'[u] = pc[u] /\ Target(u)' = Target(u)
  BY <1>1, InsideEntered
<1> QED
  BY <1>1, <1>4, <1>5, <1>6, QuietStep

\* Steps that wait, lock, check or leave.
LEMMA OtherContent ==
    ASSUME LocksInv, ContentInv, UsersSeeWhole, NEW t \in Threads,
           \/ \E order \in Orders : UseExecutor(t, order)
           \/ EnterFirst(t) \/ LockShared(t) \/ CheckFails(t) \/ LockExclusive(t)
           \/ RecheckPasses(t) \/ InstallDone(t) \/ Leave(t)
    PROVE  ContentInv' /\ UsersSeeWhole'
<1>1. CASE \/ EnterFirst(t) \/ LockShared(t) \/ CheckFails(t) \/ LockExclusive(t)
           \/ RecheckPasses(t) \/ InstallDone(t)
  <2>1. /\ UNCHANGED <<plan, depth, content, fixups, torn>>
        /\ \E place \in {"lock_shared", "check", "lock_exclusive", "recheck", "downgrade"} : Goto(t, place)
        /\ pc[t] \notin Installing \ {"marking"}
    BY <1>1 DEF EnterFirst, LockShared, CheckFails, LockExclusive, RecheckPasses, InstallDone,
                diskVars, Installing
  <2>2. /\ \A u \in Threads : u # t => pc'[u] = pc[u]
        /\ \A u \in Threads : Target(u)' = Target(u) /\ Inside(u)' = Inside(u)
        /\ pc'[t] \notin Installing
    BY <2>1 DEF Goto, Target, Inside, Installing, LocksInv, SandboxTypeOK
  <2>3. ASSUME pc'[t] = "downgrade" PROVE Target(t) \in torn \/ content[Target(t)] = "whole"
    <3>1. RecheckPasses(t) \/ InstallDone(t)
      BY <1>1, <2>3
      DEF EnterFirst, LockShared, CheckFails, LockExclusive, Goto, LocksInv, SandboxTypeOK
    <3>2. CASE RecheckPasses(t)
      <4>1. pc[t] = "recheck" /\ Target(t) \in fixups
        BY <3>2 DEF RecheckPasses, Installed
      <4>2. ASSUME NEW u \in Threads, pc[u] \in {"removing", "fixing"}, Target(u) = Target(t) PROVE FALSE
        <5>1. pc[u] \in Exclusive /\ pc[t] \in Exclusive
          BY <4>1, <4>2, GettingFacts DEF Installing
        <5>2. u = t
          BY <4>2, <5>1, ExclusiveIsAlone
        <5> QED
          BY <4>1, <4>2, <5>2
      <4> QED
        BY <4>1, <4>2 DEF ContentInv
    <3>3. CASE InstallDone(t)
      BY <3>3 DEF InstallDone, ContentInv
    <3> QED
      BY <3>1, <3>2, <3>3
  <2> QED
    BY <2>1, <2>2, <2>3, QuietStep
<1>2. CASE Leave(t)
  <2>1. /\ UNCHANGED <<plan, content, fixups, torn>> /\ pc[t] \in {"using", "leaving"}
        /\ depth' = [depth EXCEPT ![t] = depth[t] - 1] /\ depth \in [Threads -> Nat]
        /\ pc'[t] \in {"idle", "leaving"} /\ \A u \in Threads : u # t => pc'[u] = pc[u]
    BY <1>2 DEF Leave, Goto, diskVars, LocksInv, SandboxTypeOK
  <2>2. \A u \in Threads : u # t => Target(u)' = Target(u) /\ Inside(u)' = Inside(u)
    BY <2>1 DEF Target, Inside
  <2>3. Inside(t)' \subseteq Inside(t)
    BY <2>1 DEF Inside
  <2>4. pc[t] \notin Installing /\ pc'[t] \notin Installing \cup {"downgrade"}
    BY <2>1 DEF Installing
  <2> QED
    BY <2>1, <2>2, <2>3, <2>4, QuietStep
<1>3. ASSUME NEW order \in Orders, UseExecutor(t, order) PROVE ContentInv' /\ UsersSeeWhole'
  <2>1. /\ pc[t] = "idle" /\ depth[t] = 0 /\ pc'[t] = "entering"
        /\ \A u \in Threads : u # t => pc'[u] = pc[u] /\ plan'[u] = plan[u]
        /\ UNCHANGED <<depth, content, fixups, torn>>
    BY <1>3 DEF UseExecutor, Goto, diskVars, LocksInv, SandboxTypeOK, DepthInv
  <2>2. \A u \in Threads : u # t => Target(u)' = Target(u) /\ Inside(u)' = Inside(u)
    BY <2>1 DEF Target, Inside
  <2>3. Inside(t)' = {}
    BY <2>1 DEF Inside
  <2>4. pc[t] \notin Installing /\ pc'[t] \notin Installing \cup {"downgrade"}
    BY <2>1 DEF Installing
  <2> QED
    BY <2>1, <2>2, <2>3, <2>4, QuietStep
<1> QED
  BY <1>1, <1>2, <1>3

LEMMA InstallContent ==
    ASSUME LocksInv, ContentInv, UsersSeeWhole, NEW t \in Threads,
           RemoveSome(t) \/ RemoveRest(t) \/ Extract(t) \/ ApplyFixups(t) \/ WriteOperative(t)
    PROVE  ContentInv' /\ UsersSeeWhole'
<1> DEFINE s == Target(t)
<1>1. pc[t] \in Exclusive /\ UNCHANGED <<plan, depth>>
  BY GettingFacts DEF RemoveSome, RemoveRest, Extract, ApplyFixups, WriteOperative, Installing
<1>2. /\ content \in [Sandboxes -> {"absent", "partial", "whole"}]
      /\ fixups \subseteq Sandboxes /\ s \in Sandboxes
  BY <1>1, GettingFacts, TargetType DEF LocksInv, SandboxTypeOK
<1>3. {"removing", "fetch", "extracting", "fixing", "marking"} = Installing
  BY DEF Installing
<1>4. CASE RemoveSome(t)
  BY <1>1, <1>2, <1>3, <1>4, InstallStep DEF RemoveSome
<1>5. CASE RemoveRest(t)
  BY <1>1, <1>2, <1>3, <1>5, InstallStep DEF RemoveRest
<1>6. CASE Extract(t)
  <2>1. s \notin fixups
    BY <1>6 DEF Extract, ContentInv
  <2> QED
    BY <1>1, <1>2, <1>3, <1>6, <2>1, InstallStep DEF Extract
<1>7. CASE ApplyFixups(t)
  BY <1>1, <1>2, <1>3, <1>7, InstallStep DEF ApplyFixups
<1>8. CASE WriteOperative(t)
  BY <1>1, <1>2, <1>3, <1>8, InstallStep DEF WriteOperative
<1> QED
  BY <1>4, <1>5, <1>6, <1>7, <1>8

LEMMA AbortContent ==
    ASSUME LocksInv, ContentInv, UsersSeeWhole,
           (\E t \in Threads : InstallFails(t)) \/ (\E p \in Processes : Die(p))
    PROVE  ContentInv' /\ UsersSeeWhole'
<1>1. ASSUME NEW t \in Threads, InstallFails(t) PROVE ContentInv' /\ UsersSeeWhole'
  <2>1. /\ pc'[t] \in {"idle", "leaving"} /\ \A u \in Threads : u # t => pc'[u] = pc[u]
        /\ torn' = (IF Tears(t) THEN torn \cup {Target(t)} ELSE torn)
        /\ UNCHANGED <<plan, depth, content, fixups>>
    BY <1>1 DEF InstallFails, Goto, LocksInv, SandboxTypeOK
  <2>2. \A u \in Threads : Target(u)' = Target(u) /\ Inside(u)' = Inside(u)
    BY <2>1 DEF Target, Inside
  <2>3. pc'[t] \notin Installing \cup {"downgrade"} /\ {t} \in SUBSET Threads
    BY <2>1 DEF Installing
  <2>4. torn \subseteq torn' /\ \A u \in {t} : Tears(u) => Target(u) \in torn'
    BY <2>1
  <2>5. /\ \A u \in Threads \ {t} : pc'[u] = pc[u] /\ Target(u)' = Target(u)
        /\ \A u \in {t} : pc'[u] \notin Installing \cup {"downgrade"}
    BY <2>1, <2>2, <2>3
  <2> QED
    BY <2>1, <2>2, <2>3, <2>4, <2>5, AbortStep
<1>2. ASSUME NEW p \in Processes, Die(p) PROVE ContentInv' /\ UsersSeeWhole'
  <2> DEFINE D == {t \in Threads : Process(t) = p}
  <2>1. /\ \A u \in D : pc'[u] = "idle" /\ depth'[u] = 0
        /\ \A u \in Threads \ D : pc'[u] = pc[u] /\ depth'[u] = depth[u]
        /\ torn' = torn \cup {Target(t) : t \in {u \in D : Tears(u)}}
        /\ UNCHANGED <<plan, content, fixups>>
    BY <1>2 DEF Die
  <2>2. \A u \in Threads \ D : Target(u)' = Target(u) /\ Inside(u)' = Inside(u)
    BY <2>1 DEF Target, Inside
  <2>3. \A u \in D : Inside(u)' = {}
    BY <2>1 DEF Inside
  <2>4. \A u \in D : pc'[u] \notin Installing \cup {"downgrade"}
    BY <2>1 DEF Installing
  <2>5. torn \subseteq torn' /\ \A u \in D : Tears(u) => Target(u) \in torn'
    BY <2>1
  <2>6. \A u \in Threads : Inside(u)' \subseteq Inside(u)
    BY <2>2, <2>3
  <2> QED
    BY <2>1, <2>2, <2>4, <2>5, <2>6, AbortStep
<1> QED
  BY <1>1, <1>2

-----------------------------------------------------------------------------
LEMMA SandboxInitInv == SandboxInit => SandboxInv
<1> SUFFICES ASSUME SandboxInit PROVE SandboxInv
  OBVIOUS
<1> USE DEF SandboxInit
<1>1. "idle" \in Places /\ "idle" \notin Getting /\ "none" \in Modes
  BY DEF Places, Getting, Exclusive, Installing, Modes
<1>2. SandboxTypeOK
  BY <1>1 DEF SandboxTypeOK
<1>3. DepthInv
  BY <1>1 DEF DepthInv
<1>4. CountInv
  <2>1. \A p, s : Slots(p, s) = {}
    BY <1>1 DEF Slots, Level
  <2> QED
    BY <2>1, FS_EmptySet DEF CountInv
<1>5. LocalInv /\ LockInv
  BY <1>1, SandboxAssumption DEF LocalInv, LockInv
<1>6. ContentInv
  BY DEF ContentInv
<1>7. \A t \in Threads : Inside(t) = {}
  BY DEF Inside
<1> QED
  BY <1>2, <1>3, <1>4, <1>5, <1>6, <1>7 DEF SandboxInv, LocksInv, UsersSeeWhole

LEMMA SandboxNextInv == SandboxInv /\ [SandboxNext]_sandboxVars => SandboxInv'
<1> SUFFICES ASSUME SandboxInv, [SandboxNext]_sandboxVars PROVE SandboxInv'
  OBVIOUS
<1>1. LocksInv /\ ContentInv /\ UsersSeeWhole
  BY DEF SandboxInv
<1>2. LocksInv'
  BY <1>1, LocksNext
<1>3. ContentInv' /\ UsersSeeWhole'
  <2>1. CASE UNCHANGED sandboxVars \/ \E s \in Sandboxes : TimePasses(s)
    <3>1. UNCHANGED <<pc, plan, depth, content, fixups, torn>>
      BY <2>1 DEF sandboxVars, threadVars, diskVars, TimePasses
    <3>2. \A u \in Threads : Target(u)' = Target(u) /\ Inside(u)' = Inside(u)
      BY <3>1 DEF Target, Inside
    <3> QED
      BY <1>1, <3>1, <3>2 DEF ContentInv, UsersSeeWhole
  <2>2. CASE SandboxNext
    BY <1>1, <2>1, <2>2, EnterContent, OtherContent, InstallContent, AbortContent DEF SandboxNext
  <2> QED
    BY <2>1, <2>2
<1> QED
  BY <1>2, <1>3 DEF SandboxInv

\* Locks, counters and directories agree, for any number of processes, threads and
\* sandboxes.
THEOREM SandboxConsistent == SandboxSpec => []SandboxInv
BY SandboxInitInv, SandboxNextInv, PTL DEF SandboxSpec

\* Whoever installs a sandbox is alone with it on the machine: local_lock keeps the
\* threads of the process out, the flock the other processes.
THEOREM InstallerIsAlwaysAlone == SandboxSpec => []InstallerIsAlone
<1>1. SandboxInv => InstallerIsAlone
  BY ExclusiveIsAlone, GettingFacts DEF SandboxInv, InstallerIsAlone
<1> QED
  BY <1>1, SandboxConsistent, PTL

\* Whoever is inside a sandbox sees it whole, but for the two exceptions that
\* UsersSeeWhole names, whatever failed or was killed before.
THEOREM UsersAlwaysSeeWhole == SandboxSpec => []UsersSeeWhole
<1>1. SandboxInv => UsersSeeWhole
  BY DEF SandboxInv
<1> QED
  BY <1>1, SandboxConsistent, PTL

-----------------------------------------------------------------------------
(***************************************************************************)
(* Deadlock.                                                               *)
(***************************************************************************)
\* The ranks rise along the order.
RisesAlong(rank, order) ==
    \A j, k \in DOMAIN order : j < k => rank[order[j]] < rank[order[k]]

\* There is one order of the sandboxes that every thread follows.
OneOrder ==
    \E top \in Nat : \E rank \in [Sandboxes -> 0..top] :
        \A order \in Orders : RisesAlong(rank, order)

\* A thread enters the sandboxes in one of the orders.
PlanInv == \A t \in Threads : plan[t] \in Orders \cup {<<>>}

Waiting == {"entering", "lock_shared", "lock_exclusive", "downgrade"}

\* Grows from a thread to the one it waits for: first the sandbox, then whether the
\* thread has its local_lock.
Progress(rank, t) == 2 * rank[Target(t)] + IF pc[t] \in Getting THEN 1 ELSE 0

LEMMA PlansAreOrders == SandboxSpec => []PlanInv
<1>1. SandboxInit => PlanInv
  BY DEF SandboxInit, PlanInv
<1>2. ASSUME SandboxTypeOK, PlanInv, [SandboxNext]_sandboxVars PROVE PlanInv'
  <2>1. UNCHANGED plan \/ \E t \in Threads, order \in Orders : plan' = [plan EXCEPT ![t] = order]
    <3>1. ASSUME NEW t \in Threads,
                 \/ EnterAgain(t) \/ EnterFirst(t) \/ LockShared(t) \/ CheckPasses(t) \/ CheckFails(t)
                 \/ LockExclusive(t) \/ RecheckPasses(t) \/ RemoveSome(t) \/ RemoveRest(t)
                 \/ Extract(t) \/ ApplyFixups(t) \/ WriteOperative(t) \/ InstallDone(t) \/ Downgrade(t)
                 \/ InstallFails(t) \/ Leave(t)
          PROVE  UNCHANGED plan
      BY <3>1 DEF EnterAgain, EnterFirst, LockShared, CheckPasses, CheckFails, LockExclusive,
                  RecheckPasses, RemoveSome, RemoveRest, Extract, ApplyFixups, WriteOperative, InstallDone,
                  Downgrade, InstallFails, Leave
    <3> QED
      BY <1>2, <3>1 DEF SandboxNext, UseExecutor, Die, TimePasses, sandboxVars, threadVars
  <2> QED
    BY <1>2, <2>1 DEF PlanInv, SandboxTypeOK
<1>3. SandboxInv => SandboxTypeOK
  BY DEF SandboxInv, LocksInv
<1> QED
  BY <1>1, <1>2, <1>3, SandboxConsistent, PTL DEF SandboxSpec

\* Whom a waiting thread waits for is further, if it waits as well.
LEMMA WaitingRises ==
    ASSUME LocksInv, PlanInv, NEW top \in Nat, NEW rank \in [Sandboxes -> 0..top],
           \A order \in Orders : RisesAlong(rank, order),
           NEW t \in Threads, NEW u \in Threads, WaitsFor(t, u), pc[u] \in Waiting
    PROVE  /\ Progress(rank, t) \in 0..(2 * top + 1) /\ Progress(rank, u) \in 0..(2 * top + 1)
           /\ Progress(rank, t) < Progress(rank, u)
<1> DEFINE s == Target(t)
<1>1. /\ pc[t] \in Waiting /\ pc[t] \in Getting \cup {"entering"}
      /\ pc[u] \in Getting \cup {"entering"} /\ "entering" \notin Getting
  BY GettingFacts DEF WaitsFor, Waiting, Getting, Exclusive, Installing
<1>2. s \in Sandboxes /\ Target(u) \in Sandboxes /\ Process(t) \in Processes /\ Process(u) \in Processes
  BY <1>1, TargetType DEF LocksInv
<1>3. rank[s] \in 0..top /\ rank[Target(u)] \in 0..top
  BY <1>2
<1>4. /\ Progress(rank, t) \in {2 * rank[s], 2 * rank[s] + 1}
      /\ Progress(rank, u) \in {2 * rank[Target(u)], 2 * rank[Target(u)] + 1}
      /\ pc[t] = "entering" => Progress(rank, t) = 2 * rank[s]
      /\ pc[u] \in Getting => Progress(rank, u) = 2 * rank[Target(u)] + 1
  BY <1>1, <1>3 DEF Progress
<1>5. Progress(rank, t) \in 0..(2 * top + 1) /\ Progress(rank, u) \in 0..(2 * top + 1)
  BY <1>3, <1>4
<1>6. CASE pc[t] = "entering" /\ localLock[Process(t)][s] = u
  <2>1. pc[u] \in Getting /\ Target(u) = s
    BY <1>2, <1>6 DEF LocksInv, LocalInv
  <2> QED
    BY <1>3, <1>4, <1>5, <1>6, <2>1
<1>7. CASE s \in Inside(u)
  <2>1. PICK k \in 1..depth[u] : plan[u][k] = s
    BY <1>7 DEF Inside
  <2>2. depth[u] \in Nat /\ depth[u] + 1 \in 1..Len(plan[u]) /\ plan[u] \in Seq(Sandboxes)
    BY <1>1, TargetType DEF LocksInv, SandboxTypeOK
  <2>3. plan[u] \in Orders
    BY <2>2 DEF PlanInv
  <2>4. k \in DOMAIN plan[u] /\ depth[u] + 1 \in DOMAIN plan[u] /\ k < depth[u] + 1
    BY <2>1, <2>2
  <2>5. rank[s] < rank[Target(u)]
    BY <2>1, <2>3, <2>4 DEF RisesAlong, Target
  <2> QED
    BY <1>3, <1>4, <1>5, <2>5
<1>8. CASE /\ lock[Process(u)][s] \in {"shared", "exclusive"}
           /\ localLock[Process(u)][s] = u
  <2>1. pc[u] \in Getting /\ Target(u) = s
    BY <1>2, <1>8 DEF LocksInv, LocalInv
  <2>2. lock[Process(u)][s] = ModeAt(pc[u])
    BY <2>1 DEF LocksInv, LockInv
  <2>3. ModeAt(pc[u]) = "none"
    BY <1>1, <2>1, GettingFacts DEF Waiting
  <2> QED
    BY <1>8, <2>2, <2>3
<1> QED
  BY <1>5, <1>6, <1>7, <1>8 DEF WaitsFor

\* A bounded set of numbers has a greatest one.
LEMMA GreatestElement ==
    ASSUME NEW bound \in Nat, NEW T \in SUBSET (0..bound), T # {}
    PROVE  \E x \in T : \A y \in T : y <= x
<1> DEFINE R == OpToRel(<, Nat)
           Below == {bound - x : x \in T}
<1>1. IsWellFoundedOn(R, Nat)
  BY NatLessThanWellFounded
<1>2. \A x, y \in Nat : <<x, y>> \in R <=> x < y
  BY DEF OpToRel
<1> HIDE DEF R
<1>3. Below \subseteq Nat /\ Below # {}
  <2>1. \A x \in T : bound - x \in Nat
    OBVIOUS
  <2> QED
    BY <2>1
<1>4. PICK low \in Below : \A y \in Below : ~ (<<y, low>> \in R)
  <2> HIDE DEF Below
  <2> QED
    BY <1>1, <1>3, WFMin
<1>5. PICK x \in T : low = bound - x
  BY <1>4
<1>6. ASSUME NEW y \in T PROVE y <= x
  <2>1. bound - y \in Below /\ bound - y \in Nat /\ low \in Nat /\ y \in 0..bound /\ x \in 0..bound
    BY <1>3, <1>4
  <2>2. ~ (bound - y < low)
    BY <1>2, <1>4, <2>1
  <2> QED
    BY <1>5, <2>1, <2>2
<1> QED
  BY <1>6

\* Threads that enter sandboxes in one common order never wait for each other in a
\* circle, through the local locks of their processes and the flocks between them,
\* whatever installations and deaths come in between.  CompoundSandboxExecutor, which
\* does not keep to one order, is what the hypothesis excludes.
THEOREM OneOrderNeverDeadlocks ==
    OneOrder => (SandboxSpec => []NoDeadlock)
<1> SUFFICES ASSUME OneOrder PROVE SandboxSpec => []NoDeadlock
  OBVIOUS
<1>1. ASSUME SandboxInv, PlanInv PROVE NoDeadlock
  <2>1. PICK top \in Nat : \E rank \in [Sandboxes -> 0..top] :
                              \A order \in Orders : RisesAlong(rank, order)
    BY DEF OneOrder
  <2>2. PICK rank \in [Sandboxes -> 0..top] : \A order \in Orders : RisesAlong(rank, order)
    BY <2>1
  <2>3. SUFFICES ASSUME NEW S \in SUBSET Threads, S # {},
                        \A t \in S : \E u \in S : WaitsFor(t, u)
                 PROVE  FALSE
    BY DEF NoDeadlock
  <2>4. LocksInv
    BY <1>1 DEF SandboxInv
  <2>5. \A t \in S : pc[t] \in Waiting
    BY <2>3 DEF WaitsFor, Waiting
  <2> DEFINE T == {Progress(rank, t) : t \in S}
  <2>6. \A t \in S : \E u \in S : /\ Progress(rank, t) \in 0..(2 * top + 1)
                                  /\ Progress(rank, u) \in 0..(2 * top + 1)
                                  /\ Progress(rank, t) < Progress(rank, u)
    BY <1>1, <2>2, <2>3, <2>4, <2>5, WaitingRises
  <2>7. PICK x \in T : \A y \in T : y <= x
    <3>1. T \in SUBSET (0..(2 * top + 1)) /\ T # {} /\ 2 * top + 1 \in Nat
      BY <2>3, <2>6
    <3> HIDE DEF T
    <3> QED
      BY <3>1, GreatestElement
  <2>8. PICK t \in S : x = Progress(rank, t)
    BY <2>7
  <2>9. PICK u \in S : /\ Progress(rank, t) \in 0..(2 * top + 1)
                       /\ Progress(rank, u) \in 0..(2 * top + 1)
                       /\ Progress(rank, t) < Progress(rank, u)
    BY <2>6
  <2>10. Progress(rank, u) <= x
    BY <2>7
  <2> QED
    BY <2>8, <2>9, <2>10
<1> QED
  BY <1>1, SandboxConsistent, PlansAreOrders, PTL
=============================================================================
