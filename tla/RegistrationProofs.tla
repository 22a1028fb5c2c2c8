-------------------------- MODULE RegistrationProofs --------------------------
(***************************************************************************)
(* Registration is right for any number of connections and names, and the  *)
(* composition with the worker processes keeps it so: a task the daemon    *)
(* waits for is on the connection whose loss would end it.                 *)
(*                                                                         *)
(* AcceptedIsRegistered is not inductive: the loss of a connection whose   *)
(* newWorker has not ended unregisters its name.  UndecidedIsAlone says    *)
(* why this does no harm as long as the name has not clashed.              *)
(***************************************************************************)
EXTENDS WorkerProcess, FiniteSetTheorems, TLAPS

\* Where no handshakes overlapped, at most one connection of a name is between its
\* check and its registration, and the name is free meanwhile.
UndecidedIsAlone ==
    \A c, d \in Connections :
        /\ NameOf[c] = NameOf[d] /\ NameOf[c] \notin clashed
        /\ phase[c] \in {"calling", "failed"}
        => /\ phase[d] \in {"calling", "failed"} => c = d
           /\ proto[NameOf[c]] = None

RegInv ==
    /\ RegTypeOK
    /\ RegisteredIsConnected
    /\ IgnoredIsOpen
    /\ AcceptedIsRegistered
    /\ UndecidedIsAlone

LEMMA RegInitInv == RegInit => RegInv
BY RegistrationAssumption DEF RegInit, RegInv, RegTypeOK, Phases, RegisteredIsConnected,
   IgnoredIsOpen, AcceptedIsRegistered, UndecidedIsAlone

\* A handshake begins.
LEMMA ConnectionMadeStep ==
    ASSUME RegInv, NEW c \in Connections, ConnectionMade(c)
    PROVE  RegInv'
BY RegistrationAssumption DEF RegInv, RegTypeOK, Phases, RegisteredIsConnected, IgnoredIsOpen,
   AcceptedIsRegistered, UndecidedIsAlone, ConnectionMade, schedulerVars

\* The name is checked.
LEMMA HelloStep ==
    ASSUME RegInv, NEW c \in Connections, Hello(c)
    PROVE  RegInv'
<1>1. CASE proto[NameOf[c]] = None /\ Passes(c)
  <2>1. RegTypeOK'
    BY <1>1, RegistrationAssumption DEF RegInv, RegTypeOK, Phases, Hello, Passes, schedulerVars
  <2>3. RegisteredIsConnected' /\ AcceptedIsRegistered'
    BY <1>1, RegistrationAssumption DEF RegInv, RegTypeOK, RegisteredIsConnected,
       AcceptedIsRegistered, Hello, Passes, schedulerVars
  <2>4. IgnoredIsOpen'
    BY <1>1 DEF RegInv, RegTypeOK, IgnoredIsOpen, Hello, Passes
  <2>2. UndecidedIsAlone'
    BY <1>1, RegistrationAssumption DEF RegInv, RegTypeOK, UndecidedIsAlone, Hello, Passes, Undecided
  <2> QED
    BY <2>1, <2>2, <2>3, <2>4 DEF RegInv
<1>2. CASE proto[NameOf[c]] # None
  BY <1>2, RegistrationAssumption DEF RegInv, RegTypeOK, Phases, RegisteredIsConnected, IgnoredIsOpen,
     AcceptedIsRegistered, UndecidedIsAlone, Hello, schedulerVars
<1> QED
  BY <1>1, <1>2 DEF Hello

\* newWorker ends, one way or another.
LEMMA AcceptStep ==
    ASSUME RegInv, NEW c \in Connections, Accept(c)
    PROVE  RegInv'
<1> USE RegistrationAssumption DEF RegInv, Accept
<1>1. RegTypeOK'
  BY DEF RegTypeOK, Phases
<1>2. RegisteredIsConnected'
  BY DEF RegTypeOK, RegisteredIsConnected, UndecidedIsAlone
<1>3. IgnoredIsOpen'
  BY DEF RegTypeOK, IgnoredIsOpen
<1>4. AcceptedIsRegistered'
  BY DEF RegTypeOK, AcceptedIsRegistered, UndecidedIsAlone
<1>5. UndecidedIsAlone'
  BY DEF RegTypeOK, UndecidedIsAlone
<1> QED
  BY <1>1, <1>2, <1>3, <1>4, <1>5

LEMMA RefusalStep ==
    ASSUME RegInv, NEW c \in Connections,
           Reject(c) \/ GetRunningFails(c) \/ LateReply(c) \/ CallTimesOut(c)
    PROVE  RegInv'
BY RegistrationAssumption DEF RegInv, RegTypeOK, Phases, RegisteredIsConnected, IgnoredIsOpen,
   AcceptedIsRegistered, UndecidedIsAlone, Reject, GetRunningFails, LateReply, CallTimesOut,
   schedulerVars

\* A connection is lost.
LEMMA ConnectionLostStep ==
    ASSUME RegInv, NEW c \in Connections, ConnectionLost(c)
    PROVE  RegInv'
<1> USE RegistrationAssumption DEF RegInv, ConnectionLost, WorkerLost, schedulerVars
<1>1. RegTypeOK'
  BY DEF RegTypeOK, Phases
<1>2. RegisteredIsConnected'
  BY DEF RegTypeOK, RegisteredIsConnected, IgnoredIsOpen
<1>3. IgnoredIsOpen'
  BY DEF RegTypeOK, IgnoredIsOpen
<1>4. AcceptedIsRegistered'
  <2> SUFFICES ASSUME NEW d \in Connections, phase'[d] = "accepted", NameOf[d] \notin clashed'
               PROVE  proto'[NameOf[d]] = d
    BY DEF AcceptedIsRegistered
  <2>1. d # c /\ phase[d] = "accepted" /\ proto[NameOf[d]] = d /\ d # None
    BY DEF RegTypeOK, AcceptedIsRegistered
  <2>2. CASE proto' = proto
    BY <2>1, <2>2
  <2>3. CASE c \notin ignoreSet /\ phase[c] # "hello" /\ NameOf[c] # NameOf[d]
    BY <2>1, <2>3 DEF RegTypeOK
  <2>4. CASE c \notin ignoreSet /\ phase[c] # "hello" /\ NameOf[c] = NameOf[d]
    <3>1. phase[c] \in {"calling", "failed", "accepted"}
      BY <2>4 DEF RegTypeOK, Phases, IgnoredIsOpen
    <3> QED
      BY <3>1, <2>1, <2>4 DEF AcceptedIsRegistered, UndecidedIsAlone
  <2> QED
    BY <2>2, <2>3, <2>4
<1>5. UndecidedIsAlone'
  BY DEF RegTypeOK, UndecidedIsAlone
<1> QED
  BY <1>1, <1>2, <1>3, <1>4, <1>5

LEMMA RegNextInv == RegInv /\ [RegNext]_regVars => RegInv'
<1> SUFFICES ASSUME RegInv, [RegNext]_regVars PROVE RegInv'
  OBVIOUS
<1>1. CASE UNCHANGED regVars
  BY <1>1 DEF regVars, schedulerVars, RegInv, RegTypeOK, RegisteredIsConnected, IgnoredIsOpen,
     AcceptedIsRegistered, UndecidedIsAlone
<1>2. CASE RegNext
  BY <1>2, ConnectionMadeStep, HelloStep, AcceptStep, RefusalStep, ConnectionLostStep DEF RegNext
<1> QED
  BY <1>1, <1>2

\* The registration's state, over all interleavings of handshakes and losses.
THEOREM RegistrationConsistent == RegSpec => []RegInv
<1> QED
  BY RegInitInv, RegNextInv, PTL DEF RegSpec

-----------------------------------------------------------------------------
(***************************************************************************)
(* The composition with the worker processes.                              *)
(***************************************************************************)
LEMMA ProcessStepRegisters == [ProcessNext]_processVars => [RegNext]_regVars
BY DEF ProcessNext, RegNext, processVars, Connect, Handshake, Register, LoseConnection, Reply,
   UnclaimedReply, CmdRun, WorkerLosesConnection, RunOnWorker, Send, Timeout, ThreadDone, OrphanDone

\* Daemon and workers, whatever the calls, replies, orphans and reconnections, use
\* registration as it is specified.
THEOREM ProcessImplementsRegistration == ProcessSpec => RegSpec
<1>1. ProcessInit => RegInit
  BY DEF ProcessInit
<1> QED
  BY <1>1, ProcessStepRegisters, PTL DEF ProcessSpec, RegSpec

PendingInv ==
    /\ RegInv
    /\ tasks \in [Connections -> SUBSET Tasks]
    /\ PendingIsRegistered

\* Steps of the daemon that register or unregister a connection.
LEMMA ConnectionSteps ==
    ASSUME PendingInv, NEW c \in Connections,
           Connect(c) \/ Handshake(c) \/ Register(c) \/ LoseConnection(c)
    PROVE  tasks' \in [Connections -> SUBSET Tasks] /\ PendingIsRegistered'
<1> USE RegistrationAssumption DEF PendingInv, RegInv, PendingIsRegistered
<1>1. CASE Connect(c)
  BY <1>1 DEF Connect, ConnectionMade, managerVars
<1>2. CASE Handshake(c)
  BY <1>2 DEF Handshake, Hello, Passes, Reject, GetRunningFails, LateReply, managerVars
<1>3. CASE Register(c)
  BY <1>3 DEF Register, Accept, RegTypeOK, UndecidedIsAlone
<1>4. CASE LoseConnection(c)
  <2>1. \A n \in Names : proto'[n] = proto[n] \/ proto'[n] = None
    BY <1>4 DEF LoseConnection, ConnectionLost, WorkerLost, RegTypeOK
  <2>2. clashed' = clashed
    BY <1>4 DEF LoseConnection, ConnectionLost
  <2> QED
    BY <1>4, <2>1, <2>2 DEF LoseConnection
<1> QED
  BY <1>1, <1>2, <1>3, <1>4

\* Steps that give a worker a task or end one.
LEMMA TaskSteps ==
    ASSUME PendingInv, NEW c \in Connections, NEW t \in Tasks,
           RunOnWorker(t, c) \/ Timeout(t, c)
    PROVE  tasks' \in [Connections -> SUBSET Tasks] /\ PendingIsRegistered'
<1> USE DEF PendingInv, PendingIsRegistered
<1>1. CASE RunOnWorker(t, c)
  BY <1>1 DEF RunOnWorker, Send, regVars
<1>2. CASE Timeout(t, c)
  BY <1>2 DEF Timeout, Free, CallTimesOut
<1> QED
  BY <1>1, <1>2

LEMMA PendingNextInv == PendingInv /\ [ProcessNext]_processVars => PendingInv'
<1> SUFFICES ASSUME PendingInv, [ProcessNext]_processVars PROVE PendingInv'
  OBVIOUS
<1>1. RegInv'
  BY RegNextInv, ProcessStepRegisters DEF PendingInv
<1>2. tasks' \in [Connections -> SUBSET Tasks] /\ PendingIsRegistered'
  <2>1. CASE UNCHANGED <<regVars, managerVars>>
    BY <2>1 DEF regVars, managerVars, PendingInv, PendingIsRegistered
  <2>2. CASE \E c \in Connections :
                Connect(c) \/ Handshake(c) \/ Register(c) \/ LoseConnection(c)
    BY <2>2, ConnectionSteps
  <2>3. CASE \E c \in Connections : Reply(c)
    BY <2>3 DEF Reply, Free, regVars, managerVars, PendingInv, PendingIsRegistered
  <2>4. CASE \E t \in Tasks, c \in Connections : RunOnWorker(t, c) \/ Timeout(t, c)
    BY <2>4, TaskSteps
  <2>6. CASE \E c \in Connections : UnclaimedReply(c)
    BY <2>2, <2>6 DEF UnclaimedReply, CallTimesOut, managerVars, PendingInv, PendingIsRegistered
  <2>5. CASE (\E c \in Connections : CmdRun(c) \/ WorkerLosesConnection(c))
             \/ (\E t \in Tasks, c \in Connections : ThreadDone(t, c))
             \/ (\E n \in Names : OrphanDone(n))
    BY <2>1, <2>5 DEF CmdRun, WorkerLosesConnection, ThreadDone, OrphanDone
  <2> QED
    BY <2>1, <2>2, <2>3, <2>4, <2>5, <2>6 DEF ProcessNext, processVars
<1> QED
  BY <1>1, <1>2 DEF PendingInv

\* No task the daemon waits for is left on a connection whose loss would not end it,
\* for any number of workers, connections and tasks: `PendingIsRegistered'.
THEOREM PendingStaysRegistered == ProcessSpec => []PendingIsRegistered
<1>1. ProcessInit => PendingInv
  BY RegInitInv DEF ProcessInit, PendingInv, PendingIsRegistered
<1>2. PendingInv => PendingIsRegistered
  BY DEF PendingInv
<1> QED
  BY <1>1, <1>2, PendingNextInv, PTL DEF ProcessSpec

\* The registered connection of a name is a live one of that name, the scheduler
\* knows exactly the registered names, and it keeps no other WorkerInfo of a name
\* whose handshakes did not overlap.
THEOREM RegisteredStaysConnected == ProcessSpec => []RegisteredIsConnected
<1>1. RegInv => RegisteredIsConnected
  BY DEF RegInv
<1> QED
  BY <1>1, ProcessImplementsRegistration, RegistrationConsistent, PTL

\* An accepted worker stays registered until its own connection is lost, unless
\* handshakes of its name overlapped.
THEOREM AcceptedStaysRegistered == ProcessSpec => []AcceptedIsRegistered
<1>1. RegInv => AcceptedIsRegistered
  BY DEF RegInv
<1> QED
  BY <1>1, ProcessImplementsRegistration, RegistrationConsistent, PTL

-----------------------------------------------------------------------------
(***************************************************************************)
(* The daemon and its workers agree on who executes what, for any number   *)
(* of workers, connections, tasks and slots: no job is refused by a busy   *)
(* worker, and an exclusive job is alone on its connection.                *)
(*                                                                         *)
(* The daemon decides by its own record of a worker, tasks[c], and the     *)
(* worker by `running', of which the daemon hears later.  The invariant    *)
(* accounts for what is under way: every call is in one place, the daemon  *)
(* counts at least all of them as long as the connection is the registered *)
(* one and is not being closed, and an exclusive one is the only one.      *)
(* None of this needs the worker to be alive, and for the refusals and the *)
(* exclusive jobs not even that names do not clash.                        *)
(***************************************************************************)
Replies == [task : Tasks, refused : BOOLEAN]

ProcessTypeOK ==
    /\ cpuExec \subseteq Connections /\ connected \subseteq Connections
    /\ toWorker \in [Connections -> Seq(Tasks)]
    /\ toDaemon \in [Connections -> Seq(Replies)]
    /\ running \in [Connections -> SUBSET Tasks]
    /\ \A c \in Connections : IsFiniteSet(running[c])

\* The tasks of the calls and of the replies that are on their way.
Called(c) == {toWorker[c][i] : i \in DOMAIN toWorker[c]}
Answered(c) == {toDaemon[c][i].task : i \in DOMAIN toDaemon[c]}
UnderWay(c) == Called(c) \cup running[c] \cup Answered(c)

\* A call that the worker or the daemon has not dealt with is in one place.
OnePlace(c) ==
    /\ \A i, j \in DOMAIN toWorker[c] : toWorker[c][i] = toWorker[c][j] => i = j
    /\ \A i, j \in DOMAIN toDaemon[c] : toDaemon[c][i].task = toDaemon[c][j].task => i = j
    /\ Called(c) \cap running[c] = {}
    /\ Called(c) \cap Answered(c) = {}
    /\ running[c] \cap Answered(c) = {}

\* Nothing is under way where nothing can be.
NothingStray(c) ==
    /\ c \notin connected => toWorker[c] = <<>> /\ running[c] = {}
    /\ phase[c] # "accepted" => toDaemon[c] = <<>>
    /\ phase[c] \notin {"accepted", "closed"} => toWorker[c] = <<>> /\ running[c] = {}

\* The daemon's record of an exclusive task.
ExclusiveCounted(c) ==
    \A t \in tasks[c] : Exclusive(t) => c \in cpuExec /\ tasks[c] = {t}

\* A connection that the daemon reads.
Used(c) == phase[c] = "accepted" /\ c \notin closing

UsedInv(c) ==
    Used(c) =>
        /\ \A i \in DOMAIN toDaemon[c] : ~toDaemon[c][i].refused
        /\ \A t \in UnderWay(c) : Exclusive(t) => UnderWay(c) = {t}
        /\ proto[NameOf[c]] = c =>
              /\ UnderWay(c) \subseteq tasks[c]
              /\ c \in connected => UnderWay(c) = tasks[c]

ConnectionInv(c) ==
    /\ OnePlace(c)
    /\ NothingStray(c)
    /\ ExclusiveCounted(c)
    /\ UsedInv(c)

ProcessInv ==
    /\ PendingInv
    /\ ProcessTypeOK
    /\ \A c \in Connections : ConnectionInv(c)
    /\ NeverRefused

-----------------------------------------------------------------------------
(***************************************************************************)
(* The two channels of a connection.                                       *)
(***************************************************************************)
LEMMA AppendElements ==
    ASSUME NEW T, NEW s \in Seq(T), NEW x \in T
    PROVE  /\ Append(s, x) \in Seq(T) /\ DOMAIN s = 1..Len(s) /\ Len(s) \in Nat
           /\ DOMAIN Append(s, x) = 1..(Len(s) + 1)
           /\ \A i \in 1..Len(s) : Append(s, x)[i] = s[i]
           /\ Append(s, x)[Len(s) + 1] = x
OBVIOUS

LEMMA TailElements ==
    ASSUME NEW T, NEW s \in Seq(T), s # <<>>
    PROVE  /\ Tail(s) \in Seq(T) /\ Head(s) \in T /\ Head(s) = s[1]
           /\ DOMAIN s = 1..Len(s) /\ Len(s) \in Nat \ {0}
           /\ DOMAIN Tail(s) = 1..(Len(s) - 1)
           /\ \A i \in 1..(Len(s) - 1) : Tail(s)[i] = s[i + 1]
OBVIOUS

LEMMA CallAdded ==
    ASSUME ProcessTypeOK, NEW c \in Connections, NEW t \in Tasks,
           toWorker' = [toWorker EXCEPT ![c] = Append(@, t)]
    PROVE  /\ toWorker' \in [Connections -> Seq(Tasks)]
           /\ Called(c)' = Called(c) \cup {t}
           /\ /\ t \notin Called(c)
              /\ \A i, j \in DOMAIN toWorker[c] : toWorker[c][i] = toWorker[c][j] => i = j
              => \A i, j \in DOMAIN toWorker'[c] : toWorker'[c][i] = toWorker'[c][j] => i = j
<1> DEFINE s == toWorker[c]
<1>1. s \in Seq(Tasks) /\ toWorker'[c] = Append(s, t)
  BY DEF ProcessTypeOK
<1>2. /\ Append(s, t) \in Seq(Tasks) /\ DOMAIN s = 1..Len(s) /\ Len(s) \in Nat
      /\ DOMAIN Append(s, t) = 1..(Len(s) + 1)
      /\ \A i \in 1..Len(s) : Append(s, t)[i] = s[i]
      /\ Append(s, t)[Len(s) + 1] = t
  BY <1>1, AppendElements
<1>3. toWorker' \in [Connections -> Seq(Tasks)]
  BY <1>2 DEF ProcessTypeOK
<1>4. \A i \in 1..(Len(s) + 1) : i \in 1..Len(s) \/ i = Len(s) + 1
  BY <1>2
<1>5. Called(c) = {s[i] : i \in 1..Len(s)} /\ Called(c)' = {Append(s, t)[i] : i \in 1..(Len(s) + 1)}
  BY <1>1, <1>2 DEF Called
<1>6. Len(s) + 1 \in 1..(Len(s) + 1) /\ 1..Len(s) \subseteq 1..(Len(s) + 1)
  BY <1>2
<1> HIDE DEF s
<1>7. Called(c)' = Called(c) \cup {t}
  BY <1>2, <1>4, <1>5, <1>6
<1>8. ASSUME t \notin Called(c), \A i, j \in 1..Len(s) : s[i] = s[j] => i = j,
             NEW i \in 1..(Len(s) + 1), NEW j \in 1..(Len(s) + 1), Append(s, t)[i] = Append(s, t)[j]
      PROVE  i = j
  BY <1>2, <1>4, <1>5, <1>8
<1> QED
  BY <1>1, <1>2, <1>3, <1>7, <1>8 DEF s

LEMMA CallTaken ==
    ASSUME ProcessTypeOK, NEW c \in Connections, toWorker[c] # <<>>,
           \A i, j \in DOMAIN toWorker[c] : toWorker[c][i] = toWorker[c][j] => i = j,
           toWorker' = [toWorker EXCEPT ![c] = Tail(@)]
    PROVE  /\ toWorker' \in [Connections -> Seq(Tasks)]
           /\ Head(toWorker[c]) \in Called(c) /\ Head(toWorker[c]) \in Tasks
           /\ Called(c)' = Called(c) \ {Head(toWorker[c])}
           /\ \A i, j \in DOMAIN toWorker'[c] : toWorker'[c][i] = toWorker'[c][j] => i = j
<1> DEFINE s == toWorker[c]
           z == Tail(s)
<1>1. s \in Seq(Tasks) /\ toWorker'[c] = z /\ s # <<>>
  BY DEF ProcessTypeOK
<1>2. /\ z \in Seq(Tasks) /\ Head(s) \in Tasks /\ Head(s) = s[1]
      /\ DOMAIN s = 1..Len(s) /\ Len(s) \in Nat \ {0}
      /\ DOMAIN z = 1..(Len(s) - 1)
      /\ \A i \in 1..(Len(s) - 1) : z[i] = s[i + 1]
  BY <1>1, TailElements
<1>3. toWorker' \in [Connections -> Seq(Tasks)]
  BY <1>2 DEF ProcessTypeOK
<1> HIDE DEF z
<1>4. Called(c) = {s[i] : i \in 1..Len(s)} /\ Called(c)' = {z[i] : i \in 1..(Len(s) - 1)}
  <2>1. Called(c) = {s[i] : i \in DOMAIN s} /\ Called(c)' = {z[i] : i \in DOMAIN z}
    BY <1>1 DEF Called
  <2> HIDE DEF s
  <2> QED
    BY <1>2, <2>1
<1>5. \A i, j \in 1..Len(s) : s[i] = s[j] => i = j
  BY <1>2
<1> HIDE DEF s
<1>6. 1 \in 1..Len(s) /\ \A i \in 1..(Len(s) - 1) : i + 1 \in 1..Len(s) /\ i + 1 # 1
  BY <1>2
<1>7. \A i \in 1..Len(s) : i # 1 => i - 1 \in 1..(Len(s) - 1) /\ (i - 1) + 1 = i
  BY <1>2
<1>8. ASSUME NEW x PROVE x \in Called(c)' <=> x \in Called(c) \ {Head(s)}
  <2>1. ASSUME x \in Called(c)' PROVE x \in Called(c) \ {Head(s)}
    BY <1>2, <1>4, <1>5, <1>6, <2>1
  <2>2. ASSUME x \in Called(c) \ {Head(s)} PROVE x \in Called(c)'
    <3>1. PICK i \in 1..Len(s) : x = s[i]
      BY <1>4, <2>2
    <3>2. i - 1 \in 1..(Len(s) - 1) /\ z[i - 1] = s[i]
      BY <1>2, <1>7, <2>2, <3>1
    <3> QED
      BY <1>4, <3>1, <3>2
  <2> QED
    BY <2>1, <2>2
<1>9. Called(c)' = Called(c) \ {Head(s)}
  BY <1>8
<1>10. ASSUME NEW i \in 1..(Len(s) - 1), NEW j \in 1..(Len(s) - 1), z[i] = z[j]
       PROVE  i = j
  BY <1>2, <1>5, <1>6, <1>10
<1>11. s[1] \in Called(c) /\ s = toWorker[c]
  BY <1>4, <1>6 DEF s
<1> QED
  BY <1>1, <1>2, <1>3, <1>9, <1>10, <1>11

LEMMA ReplyAdded ==
    ASSUME ProcessTypeOK, NEW c \in Connections, NEW t \in Tasks, NEW refused \in BOOLEAN,
           toDaemon' = [toDaemon EXCEPT ![c] = Append(@, [task |-> t, refused |-> refused])]
    PROVE  /\ toDaemon' \in [Connections -> Seq(Replies)]
           /\ Answered(c)' = Answered(c) \cup {t}
           /\ /\ t \notin Answered(c)
              /\ \A i, j \in DOMAIN toDaemon[c] : toDaemon[c][i].task = toDaemon[c][j].task => i = j
              => \A i, j \in DOMAIN toDaemon'[c] : toDaemon'[c][i].task = toDaemon'[c][j].task => i = j
           /\ ~refused /\ (\A i \in DOMAIN toDaemon[c] : ~toDaemon[c][i].refused)
              => \A i \in DOMAIN toDaemon'[c] : ~toDaemon'[c][i].refused
<1> DEFINE s == toDaemon[c]
           r == [task |-> t, refused |-> refused]
<1>1. s \in Seq(Replies) /\ toDaemon'[c] = Append(s, r) /\ r \in Replies
  BY DEF ProcessTypeOK, Replies
<1>a. r.task = t /\ r.refused = refused
  OBVIOUS
<1> HIDE DEF r
<1>2. /\ Append(s, r) \in Seq(Replies) /\ DOMAIN s = 1..Len(s) /\ Len(s) \in Nat
      /\ DOMAIN Append(s, r) = 1..(Len(s) + 1)
      /\ \A i \in 1..Len(s) : Append(s, r)[i] = s[i]
      /\ Append(s, r)[Len(s) + 1] = r
  BY <1>1, AppendElements
<1>3. toDaemon' \in [Connections -> Seq(Replies)]
  BY <1>1, <1>2 DEF ProcessTypeOK, r
<1>4. \A i \in 1..(Len(s) + 1) : i \in 1..Len(s) \/ i = Len(s) + 1
  BY <1>2
<1>5. /\ Answered(c) = {s[i].task : i \in 1..Len(s)}
      /\ Answered(c)' = {Append(s, r)[i].task : i \in 1..(Len(s) + 1)}
  BY <1>1, <1>2 DEF Answered
<1>6. Len(s) + 1 \in 1..(Len(s) + 1) /\ 1..Len(s) \subseteq 1..(Len(s) + 1)
  BY <1>2
<1> HIDE DEF s
<1>7. Answered(c)' = Answered(c) \cup {t}
  BY <1>2, <1>4, <1>5, <1>6, <1>a
<1>8. ASSUME t \notin Answered(c), \A i, j \in 1..Len(s) : s[i].task = s[j].task => i = j,
             NEW i \in 1..(Len(s) + 1), NEW j \in 1..(Len(s) + 1),
             Append(s, r)[i].task = Append(s, r)[j].task
      PROVE  i = j
  BY <1>2, <1>4, <1>5, <1>8, <1>a
<1>9. ASSUME ~refused, \A i \in 1..Len(s) : ~s[i].refused, NEW i \in 1..(Len(s) + 1)
      PROVE  ~Append(s, r)[i].refused
  BY <1>2, <1>4, <1>9, <1>a
<1>10. s = toDaemon[c]
  BY DEF s
<1> QED
  BY <1>1, <1>2, <1>3, <1>7, <1>8, <1>9, <1>10

LEMMA ReplyTaken ==
    ASSUME ProcessTypeOK, NEW c \in Connections, toDaemon[c] # <<>>,
           \A i, j \in DOMAIN toDaemon[c] : toDaemon[c][i].task = toDaemon[c][j].task => i = j,
           toDaemon' = [toDaemon EXCEPT ![c] = Tail(@)]
    PROVE  /\ toDaemon' \in [Connections -> Seq(Replies)]
           /\ Head(toDaemon[c]).task \in Answered(c)
           /\ 1 \in DOMAIN toDaemon[c] /\ Head(toDaemon[c]) = toDaemon[c][1]
           /\ Answered(c)' = Answered(c) \ {Head(toDaemon[c]).task}
           /\ \A i, j \in DOMAIN toDaemon'[c] : toDaemon'[c][i].task = toDaemon'[c][j].task => i = j
           /\ (\A i \in DOMAIN toDaemon[c] : ~toDaemon[c][i].refused)
              => \A i \in DOMAIN toDaemon'[c] : ~toDaemon'[c][i].refused
<1> DEFINE s == toDaemon[c]
           z == Tail(s)
<1>1. s \in Seq(Replies) /\ toDaemon'[c] = z /\ s # <<>>
  BY DEF ProcessTypeOK
<1>2. /\ z \in Seq(Replies) /\ Head(s) = s[1]
      /\ DOMAIN s = 1..Len(s) /\ Len(s) \in Nat \ {0}
      /\ DOMAIN z = 1..(Len(s) - 1)
      /\ \A i \in 1..(Len(s) - 1) : z[i] = s[i + 1]
  BY <1>1, TailElements
<1>3. toDaemon' \in [Connections -> Seq(Replies)]
  BY <1>2 DEF ProcessTypeOK
<1> HIDE DEF z
<1>4. Answered(c) = {s[i].task : i \in 1..Len(s)} /\ Answered(c)' = {z[i].task : i \in 1..(Len(s) - 1)}
  <2>1. Answered(c) = {s[i].task : i \in DOMAIN s} /\ Answered(c)' = {z[i].task : i \in DOMAIN z}
    BY <1>1 DEF Answered
  <2> HIDE DEF s
  <2> QED
    BY <1>2, <2>1
<1>5. \A i, j \in 1..Len(s) : s[i].task = s[j].task => i = j
  BY <1>2
<1> HIDE DEF s
<1>6. 1 \in 1..Len(s) /\ \A i \in 1..(Len(s) - 1) : i + 1 \in 1..Len(s) /\ i + 1 # 1
  BY <1>2
<1>7. \A i \in 1..Len(s) : i # 1 => i - 1 \in 1..(Len(s) - 1) /\ (i - 1) + 1 = i
  BY <1>2
<1>8. ASSUME NEW x PROVE x \in Answered(c)' <=> x \in Answered(c) \ {Head(s).task}
  <2>1. ASSUME x \in Answered(c)' PROVE x \in Answered(c) \ {Head(s).task}
    BY <1>2, <1>4, <1>5, <1>6, <2>1
  <2>2. ASSUME x \in Answered(c) \ {Head(s).task} PROVE x \in Answered(c)'
    <3>1. PICK i \in 1..Len(s) : x = s[i].task
      BY <1>4, <2>2
    <3>2. i - 1 \in 1..(Len(s) - 1) /\ z[i - 1] = s[i]
      BY <1>2, <1>7, <2>2, <3>1
    <3> QED
      BY <1>4, <3>1, <3>2
  <2> QED
    BY <2>1, <2>2
<1>9. Answered(c)' = Answered(c) \ {Head(s).task}
  BY <1>8
<1>10. ASSUME NEW i \in 1..(Len(s) - 1), NEW j \in 1..(Len(s) - 1), z[i].task = z[j].task
       PROVE  i = j
  BY <1>2, <1>5, <1>6, <1>10
<1>11. ASSUME \A i \in 1..Len(s) : ~s[i].refused, NEW i \in 1..(Len(s) - 1)
       PROVE  ~z[i].refused
  BY <1>2, <1>6, <1>11
<1>12. s[1].task \in Answered(c) /\ s = toDaemon[c]
  BY <1>4, <1>6 DEF s
<1> QED
  BY <1>1, <1>2, <1>3, <1>6, <1>9, <1>10, <1>11, <1>12

-----------------------------------------------------------------------------
(***************************************************************************)
(* The steps.                                                              *)
(***************************************************************************)
LEMMA CallsKept ==
    ASSUME NEW c \in Connections, toWorker'[c] = toWorker[c], toDaemon'[c] = toDaemon[c],
           running'[c] = running[c]
    PROVE  /\ Called(c)' = Called(c) /\ Answered(c)' = Answered(c) /\ UnderWay(c)' = UnderWay(c)
           /\ OnePlace(c) => OnePlace(c)'
BY DEF Called, Answered, UnderWay, OnePlace

\* Nothing is on a connection that was just made or is being registered.
LEMMA NothingUnderWay ==
    ASSUME NEW c \in Connections, toWorker[c] = <<>>, toDaemon[c] = <<>>, running[c] = {}
    PROVE  UnderWay(c) = {} /\ OnePlace(c) /\ \A i \in DOMAIN toDaemon[c] : ~toDaemon[c][i].refused
<1>1. Called(c) = {} /\ Answered(c) = {}
  BY DEF Called, Answered
<1> QED
  BY <1>1 DEF UnderWay, OnePlace

\* What a step of another connection can do: unregister the name, and then forget
\* the tasks.
LEMMA OtherConnection ==
    ASSUME NEW c \in Connections, ConnectionInv(c),
           toWorker'[c] = toWorker[c], toDaemon'[c] = toDaemon[c], running'[c] = running[c],
           phase'[c] = phase[c],
           c \in connected' <=> c \in connected,
           c \in closing => c \in closing',
           proto'[NameOf[c]] = c => proto[NameOf[c]] = c,
           \/ tasks'[c] = tasks[c] /\ (c \in cpuExec => c \in cpuExec')
           \/ tasks'[c] = {} /\ proto'[NameOf[c]] # c
    PROVE  ConnectionInv(c)'
<1>1. UnderWay(c)' = UnderWay(c) /\ OnePlace(c)'
  BY CallsKept DEF ConnectionInv
<1>2. NothingStray(c)'
  BY DEF ConnectionInv, NothingStray
<1>3. ExclusiveCounted(c)'
  BY DEF ConnectionInv, ExclusiveCounted
<1>4. UsedInv(c)'
  BY <1>1 DEF ConnectionInv, UsedInv, Used
<1> QED
  BY <1>1, <1>2, <1>3, <1>4 DEF ConnectionInv

LEMMA ConnectStep ==
    ASSUME ProcessInv, NEW c \in Connections, Connect(c)
    PROVE  ProcessTypeOK' /\ (\A d \in Connections : ConnectionInv(d)') /\ NeverRefused'
<1> USE DEF Connect, ConnectionMade, managerVars
<1>1. /\ toWorker' = [toWorker EXCEPT ![c] = <<>>] /\ toDaemon' = [toDaemon EXCEPT ![c] = <<>>]
      /\ running' = [running EXCEPT ![c] = {}] /\ connected' = connected \cup {c}
      /\ phase' = [phase EXCEPT ![c] = "hello"]
      /\ UNCHANGED <<closing, proto, tasks, cpuExec, busyErrors>>
  OBVIOUS
<1>2. ProcessTypeOK /\ RegTypeOK
  BY DEF ProcessInv, PendingInv, RegInv
<1>3. ProcessTypeOK'
  BY <1>1, <1>2, FS_EmptySet DEF ProcessTypeOK
<1>4. ASSUME NEW d \in Connections, d # c PROVE ConnectionInv(d)'
  BY <1>1, <1>2, <1>4, OtherConnection DEF ProcessInv, ProcessTypeOK, RegTypeOK
<1>5. toWorker'[c] = <<>> /\ toDaemon'[c] = <<>> /\ running'[c] = {} /\ phase'[c] = "hello"
  BY <1>1, <1>2 DEF ProcessTypeOK, RegTypeOK
<1>6. OnePlace(c)'
  BY <1>5 DEF OnePlace, Called, Answered
<1>7. ConnectionInv(c)'
  <2>1. ExclusiveCounted(c)'
    BY <1>1 DEF ProcessInv, ConnectionInv, ExclusiveCounted
  <2> QED
    BY <1>1, <1>5, <1>6, <2>1 DEF ConnectionInv, NothingStray, UsedInv, Used
<1> QED
  BY <1>1, <1>3, <1>4, <1>7 DEF ProcessInv, NeverRefused

LEMMA HandshakeStep ==
    ASSUME ProcessInv, NEW c \in Connections, Handshake(c)
    PROVE  ProcessTypeOK' /\ (\A d \in Connections : ConnectionInv(d)') /\ NeverRefused'
<1>1. /\ UNCHANGED <<proto, tasks, cpuExec, busyErrors, toWorker, toDaemon, connected, running>>
      /\ phase[c] \in {"hello", "calling", "failed"}
      /\ \E place \in {"calling", "ignored", "failed"} : phase' = [phase EXCEPT ![c] = place]
      /\ closing \subseteq closing'
  <2>1. RegTypeOK
    BY DEF ProcessInv, PendingInv, RegInv
  <2> QED
    BY <2>1 DEF Handshake, Hello, Passes, Reject, GetRunningFails, LateReply, managerVars,
                channelVars, machineVars, RegTypeOK
<1>2. ProcessTypeOK /\ RegTypeOK
  BY DEF ProcessInv, PendingInv, RegInv
<1>3. ProcessTypeOK'
  BY <1>1, <1>2 DEF ProcessTypeOK
<1>4. ASSUME NEW d \in Connections, d # c PROVE ConnectionInv(d)'
  BY <1>1, <1>2, <1>4, OtherConnection DEF ProcessInv, RegTypeOK
<1>5. phase'[c] \in {"calling", "ignored", "failed"}
  BY <1>1, <1>2 DEF RegTypeOK
<1>6. ConnectionInv(c)
  BY DEF ProcessInv
<1>7. OnePlace(c)'
  BY <1>1, <1>6, CallsKept DEF ConnectionInv
<1>8. ConnectionInv(c)'
  BY <1>1, <1>5, <1>6, <1>7 DEF ConnectionInv, NothingStray, ExclusiveCounted, UsedInv, Used
<1> QED
  BY <1>1, <1>3, <1>4, <1>8 DEF ProcessInv, NeverRefused

LEMMA RegisterStep ==
    ASSUME ProcessInv, NEW c \in Connections, Register(c)
    PROVE  ProcessTypeOK' /\ (\A d \in Connections : ConnectionInv(d)') /\ NeverRefused'
<1>1. /\ UNCHANGED <<closing, busyErrors, toWorker, toDaemon, connected, running>>
      /\ phase[c] = "calling" /\ phase' = [phase EXCEPT ![c] = "accepted"]
      /\ proto' = [proto EXCEPT ![NameOf[c]] = c]
      /\ tasks' = [tasks EXCEPT ![c] = {}] /\ cpuExec' = cpuExec \ {c}
  BY DEF Register, Accept, channelVars, machineVars
<1>2. ProcessTypeOK /\ RegTypeOK /\ tasks \in [Connections -> SUBSET Tasks]
  BY DEF ProcessInv, PendingInv, RegInv
<1>3. ProcessTypeOK'
  BY <1>1, <1>2 DEF ProcessTypeOK
<1>4. ASSUME NEW d \in Connections, d # c PROVE ConnectionInv(d)'
  <2>1. /\ phase'[d] = phase[d] /\ tasks'[d] = tasks[d] /\ (d \in cpuExec => d \in cpuExec')
        /\ proto'[NameOf[d]] = d => proto[NameOf[d]] = d
    BY <1>1, <1>2, <1>4, RegistrationAssumption DEF RegTypeOK
  <2> QED
    BY <1>1, <2>1, OtherConnection DEF ProcessInv
<1>5. ConnectionInv(c)
  BY DEF ProcessInv
<1>6. toWorker[c] = <<>> /\ toDaemon[c] = <<>> /\ running[c] = {}
  BY <1>1, <1>5 DEF ConnectionInv, NothingStray
<1>7. /\ UnderWay(c)' = {} /\ OnePlace(c)'
      /\ \A i \in DOMAIN toDaemon'[c] : ~toDaemon'[c][i].refused
  BY <1>1, <1>6, NothingUnderWay, CallsKept
<1>8. phase'[c] = "accepted" /\ tasks'[c] = {}
  BY <1>1, <1>2 DEF RegTypeOK
<1>9. ConnectionInv(c)'
  BY <1>1, <1>5, <1>6, <1>7, <1>8 DEF ConnectionInv, NothingStray, ExclusiveCounted, UsedInv, Used
<1> QED
  BY <1>1, <1>3, <1>4, <1>9 DEF ProcessInv, NeverRefused

\* The loss of one connection can end the tasks of another one, which is then no
\* longer registered.
LEMMA LoseConnectionStep ==
    ASSUME ProcessInv, NEW c \in Connections, LoseConnection(c)
    PROVE  ProcessTypeOK' /\ (\A d \in Connections : ConnectionInv(d)') /\ NeverRefused'
<1> DEFINE lost == {d \in Connections : proto[NameOf[d]] = d /\ proto'[NameOf[d]] = None}
<1>1. /\ UNCHANGED <<busyErrors, toWorker, connected, running>>
      /\ phase' = [phase EXCEPT ![c] = "closed"] /\ closing' = closing \ {c}
      /\ toDaemon' = [toDaemon EXCEPT ![c] = <<>>]
      /\ tasks' = [d \in Connections |-> IF d \in lost THEN {} ELSE tasks[d]]
      /\ cpuExec' = cpuExec \ lost
  BY DEF LoseConnection, ConnectionLost, machineVars
<1>2. ProcessTypeOK /\ RegTypeOK
  BY DEF ProcessInv, PendingInv, RegInv
<1>3. \A n \in Names : proto'[n] = proto[n] \/ proto'[n] = None
  BY <1>2 DEF LoseConnection, ConnectionLost, WorkerLost, RegTypeOK
<1>4. \A d \in Connections : \/ d \in lost /\ tasks'[d] = {} /\ proto'[NameOf[d]] # d
                             \/ d \notin lost /\ tasks'[d] = tasks[d] /\ (d \in cpuExec => d \in cpuExec')
  BY <1>1, RegistrationAssumption
<1>5. \A d \in Connections : proto'[NameOf[d]] = d => proto[NameOf[d]] = d
  BY <1>3, RegistrationAssumption
<1> HIDE DEF lost
<1>6. ProcessTypeOK'
  BY <1>1, <1>2 DEF ProcessTypeOK
<1>7. ASSUME NEW d \in Connections, d # c PROVE ConnectionInv(d)'
  <2>1. phase'[d] = phase[d] /\ toDaemon'[d] = toDaemon[d] /\ (d \in closing => d \in closing')
    BY <1>1, <1>2, <1>7 DEF RegTypeOK, ProcessTypeOK
  <2> QED
    BY <1>1, <1>4, <1>5, <2>1, OtherConnection DEF ProcessInv
<1>8. ConnectionInv(c)'
  <2>1. phase'[c] = "closed" /\ toDaemon'[c] = <<>> /\ ConnectionInv(c)
    BY <1>1, <1>2 DEF RegTypeOK, ProcessTypeOK, ProcessInv
  <2>2. Called(c)' = Called(c) /\ Answered(c)' = {}
    BY <1>1, <2>1 DEF Called, Answered
  <2>3. OnePlace(c)'
    BY <1>1, <2>1, <2>2 DEF ConnectionInv, OnePlace
  <2>4. ExclusiveCounted(c)'
    BY <1>4, <2>1 DEF ConnectionInv, ExclusiveCounted
  <2> QED
    BY <1>1, <2>1, <2>3, <2>4 DEF ConnectionInv, NothingStray, UsedInv, Used
<1> QED
  BY <1>1, <1>6, <1>7, <1>8 DEF ProcessInv, NeverRefused

\* A call is sent: it is nowhere yet.
LEMMA RunOnWorkerStep ==
    ASSUME ProcessInv, NEW c \in Connections, NEW t \in Tasks, RunOnWorker(t, c)
    PROVE  ProcessTypeOK' /\ (\A d \in Connections : ConnectionInv(d)') /\ NeverRefused'
<1>1. /\ UNCHANGED <<phase, closing, proto, busyErrors, toDaemon, connected, running>>
      /\ tasks' = [tasks EXCEPT ![c] = tasks[c] \cup {t}]
      /\ cpuExec' = IF Exclusive(t) THEN cpuExec \cup {c} ELSE cpuExec
      /\ \/ c \in connected /\ toWorker' = [toWorker EXCEPT ![c] = Append(@, t)]
         \/ (c \in closing \/ c \notin connected) /\ UNCHANGED toWorker
      /\ proto[NameOf[c]] = c /\ c \notin cpuExec /\ (Exclusive(t) => tasks[c] = {})
  BY DEF RunOnWorker, Send, regVars, machineVars
<1>2. ProcessTypeOK /\ RegTypeOK /\ tasks \in [Connections -> SUBSET Tasks] /\ ConnectionInv(c)
  BY DEF ProcessInv, PendingInv, RegInv
<1>3. t \notin UnderWay(c)
  BY DEF RunOnWorker, Unseen, UnderWay, Called, Answered
<1>4. phase[c] = "accepted"
  BY <1>1, RegistrationAssumption DEF ProcessInv, PendingInv, RegInv, RegisteredIsConnected
<1>5. tasks'[c] = tasks[c] \cup {t}
  BY <1>1, <1>2
<1>6. /\ toWorker' \in [Connections -> Seq(Tasks)]
      /\ Called(c)' = Called(c) \/ Called(c)' = Called(c) \cup {t}
      /\ c \notin closing /\ c \in connected => Called(c)' = Called(c) \cup {t}
      /\ c \notin connected => toWorker'[c] = toWorker[c]
      /\ \A i, j \in DOMAIN toWorker'[c] : toWorker'[c][i] = toWorker'[c][j] => i = j
  <2>1. CASE c \in connected /\ toWorker' = [toWorker EXCEPT ![c] = Append(@, t)]
    BY <1>2, <1>3, <2>1, CallAdded DEF ConnectionInv, OnePlace, UnderWay
  <2>2. CASE (c \in closing \/ c \notin connected) /\ UNCHANGED toWorker
    BY <1>2, <2>2 DEF ConnectionInv, OnePlace, Called, ProcessTypeOK
  <2> QED
    BY <1>1, <2>1, <2>2
<1>7. ProcessTypeOK'
  BY <1>1, <1>2, <1>6 DEF ProcessTypeOK
<1>8. ASSUME NEW d \in Connections, d # c PROVE ConnectionInv(d)'
  <2>1. toWorker'[d] = toWorker[d] /\ tasks'[d] = tasks[d] /\ (d \in cpuExec => d \in cpuExec')
    BY <1>1, <1>2, <1>8 DEF ProcessTypeOK
  <2> QED
    BY <1>1, <2>1, OtherConnection DEF ProcessInv
<1>9. Answered(c)' = Answered(c) /\ running'[c] = running[c]
  BY <1>1 DEF Answered
<1>10. OnePlace(c)'
  BY <1>1, <1>2, <1>3, <1>6, <1>9 DEF ConnectionInv, OnePlace, UnderWay
<1>11. NothingStray(c)'
  BY <1>1, <1>2, <1>4, <1>6 DEF ConnectionInv, NothingStray
<1>12. ExclusiveCounted(c)'
  BY <1>1, <1>2, <1>5 DEF ConnectionInv, ExclusiveCounted
<1>13. UsedInv(c)'
  <2> SUFFICES ASSUME Used(c)' PROVE UsedInv(c)'
    BY DEF UsedInv
  <2>1. Used(c) /\ c \notin closing
    BY <1>1 DEF Used
  <2>2. /\ \A i \in DOMAIN toDaemon'[c] : ~toDaemon'[c][i].refused
        /\ UnderWay(c) \subseteq tasks[c] /\ (c \in connected => UnderWay(c) = tasks[c])
        /\ \A u \in UnderWay(c) : Exclusive(u) => UnderWay(c) = {u}
    BY <1>1, <1>2, <2>1 DEF ConnectionInv, UsedInv
  <2>3. /\ UnderWay(c)' = UnderWay(c) \/ UnderWay(c)' = UnderWay(c) \cup {t}
        /\ c \in connected => UnderWay(c)' = UnderWay(c) \cup {t}
    BY <1>6, <1>9, <2>1 DEF UnderWay
  <2>4. \A u \in UnderWay(c) : ~Exclusive(u)
    BY <1>1, <1>2, <2>2 DEF ConnectionInv, ExclusiveCounted
  <2>5. ASSUME NEW u \in UnderWay(c)', Exclusive(u) PROVE UnderWay(c)' = {u}
    <3>1. u = t
      BY <2>3, <2>4, <2>5
    <3>2. UnderWay(c) = {}
      BY <1>1, <2>2, <2>5, <3>1
    <3> QED
      BY <2>3, <2>5, <3>1, <3>2
  <2>6. UnderWay(c)' \subseteq tasks'[c] /\ (c \in connected' => UnderWay(c)' = tasks'[c])
    BY <1>1, <1>5, <2>2, <2>3
  <2> QED
    BY <2>2, <2>5, <2>6 DEF UsedInv
<1> QED
  BY <1>1, <1>7, <1>8, <1>10, <1>11, <1>12, <1>13 DEF ProcessInv, NeverRefused, ConnectionInv

\* What ends a task in the daemon keeps its record of exclusive ones.
LEMMA FreeCounted ==
    ASSUME NEW c \in Connections, NEW t, ExclusiveCounted(c), tasks \in [Connections -> SUBSET Tasks],
           Free(t, c), t \in tasks[c]
    PROVE  /\ ExclusiveCounted(c)' /\ tasks'[c] = tasks[c] \ {t}
           /\ \A d \in Connections : d # c => tasks'[d] = tasks[d] /\ (d \in cpuExec => d \in cpuExec')
<1>1. tasks' = [tasks EXCEPT ![c] = tasks[c] \ {t}] /\ cpuExec' = cpuExec \ {c}
  BY DEF Free
<1>2. tasks'[c] = tasks[c] \ {t}
  BY <1>1
<1>3. ExclusiveCounted(c)'
  BY <1>2 DEF ExclusiveCounted
<1> QED
  BY <1>1, <1>2, <1>3

LEMMA TimeoutStep ==
    ASSUME ProcessInv, NEW c \in Connections, NEW t \in Tasks, Timeout(t, c)
    PROVE  ProcessTypeOK' /\ (\A d \in Connections : ConnectionInv(d)') /\ NeverRefused'
<1>1. /\ UNCHANGED <<phase, proto, busyErrors, toWorker, toDaemon, connected, running>>
      /\ closing' = closing \cup {c} /\ t \in tasks[c] /\ Free(t, c)
  BY DEF Timeout, CallTimesOut, channelVars, machineVars
<1>2. ProcessTypeOK /\ tasks \in [Connections -> SUBSET Tasks] /\ ConnectionInv(c)
  BY DEF ProcessInv, PendingInv
<1>3. /\ ExclusiveCounted(c)'
      /\ \A d \in Connections : d # c => tasks'[d] = tasks[d] /\ (d \in cpuExec => d \in cpuExec')
  BY <1>1, <1>2, FreeCounted DEF ConnectionInv
<1>4. ProcessTypeOK'
  BY <1>1, <1>2 DEF ProcessTypeOK, Free
<1>5. ASSUME NEW d \in Connections, d # c PROVE ConnectionInv(d)'
  BY <1>1, <1>3, <1>5, OtherConnection DEF ProcessInv
<1>6. OnePlace(c)'
  BY <1>1, <1>2, CallsKept DEF ConnectionInv
<1>7. ConnectionInv(c)'
  BY <1>1, <1>2, <1>3, <1>6 DEF ConnectionInv, NothingStray, UsedInv, Used
<1> QED
  BY <1>1, <1>4, <1>5, <1>7 DEF ProcessInv, NeverRefused

\* The daemon reads a reply: it never is a refusal.
LEMMA ReplyStep ==
    ASSUME ProcessInv, NEW c \in Connections, Reply(c)
    PROVE  ProcessTypeOK' /\ (\A d \in Connections : ConnectionInv(d)') /\ NeverRefused'
<1> DEFINE t == Head(toDaemon[c]).task
<1>1. /\ UNCHANGED <<phase, closing, proto, toWorker, connected, running>>
      /\ Used(c) /\ toDaemon[c] # <<>> /\ toDaemon' = [toDaemon EXCEPT ![c] = Tail(@)]
      /\ t \in tasks[c] /\ Free(t, c)
      /\ busyErrors' = IF Head(toDaemon[c]).refused THEN busyErrors \cup {t} ELSE busyErrors
  BY DEF Reply, Readable, Used, regVars, machineVars
<1>2. ProcessTypeOK /\ tasks \in [Connections -> SUBSET Tasks] /\ ConnectionInv(c)
  BY DEF ProcessInv, PendingInv
<1>3. /\ toDaemon' \in [Connections -> Seq(Replies)]
      /\ t \in Answered(c) /\ 1 \in DOMAIN toDaemon[c] /\ Head(toDaemon[c]) = toDaemon[c][1]
      /\ Answered(c)' = Answered(c) \ {t}
      /\ \A i, j \in DOMAIN toDaemon'[c] : toDaemon'[c][i].task = toDaemon'[c][j].task => i = j
      /\ (\A i \in DOMAIN toDaemon[c] : ~toDaemon[c][i].refused)
         => \A i \in DOMAIN toDaemon'[c] : ~toDaemon'[c][i].refused
  BY <1>1, <1>2, ReplyTaken DEF ConnectionInv, OnePlace
<1>4. \A i \in DOMAIN toDaemon[c] : ~toDaemon[c][i].refused
  BY <1>1, <1>2 DEF ConnectionInv, UsedInv
<1>5. ~Head(toDaemon[c]).refused
  BY <1>3, <1>4
<1>6. busyErrors' = busyErrors
  BY <1>1, <1>5
<1>7. /\ ExclusiveCounted(c)' /\ tasks'[c] = tasks[c] \ {t}
      /\ \A d \in Connections : d # c => tasks'[d] = tasks[d] /\ (d \in cpuExec => d \in cpuExec')
  BY <1>1, <1>2, FreeCounted DEF ConnectionInv
<1>8. ProcessTypeOK'
  BY <1>1, <1>2, <1>3 DEF ProcessTypeOK, Free
<1>9. \A d \in Connections : d # c => toDaemon'[d] = toDaemon[d]
  BY <1>1, <1>2 DEF ProcessTypeOK
<1> HIDE DEF t
<1>10. ASSUME NEW d \in Connections, d # c PROVE ConnectionInv(d)'
  BY <1>1, <1>7, <1>9, <1>10, OtherConnection DEF ProcessInv
<1>11. Called(c)' = Called(c) /\ running'[c] = running[c]
  BY <1>1 DEF Called
<1>12. OnePlace(c)'
  BY <1>1, <1>2, <1>3, <1>11 DEF ConnectionInv, OnePlace
<1>13. NothingStray(c)'
  BY <1>1, <1>2 DEF ConnectionInv, NothingStray, Used
<1>14. UnderWay(c)' = UnderWay(c) \ {t}
  BY <1>2, <1>3, <1>11 DEF ConnectionInv, OnePlace, UnderWay
<1>15. UsedInv(c)'
  BY <1>1, <1>2, <1>3, <1>4, <1>7, <1>14 DEF ConnectionInv, UsedInv, Used
<1> QED
  BY <1>6, <1>7, <1>8, <1>10, <1>12, <1>13, <1>15 DEF ProcessInv, NeverRefused, ConnectionInv

\* It reads the reply of a task that it gave up.
LEMMA UnclaimedReplyStep ==
    ASSUME ProcessInv, NEW c \in Connections, UnclaimedReply(c)
    PROVE  ProcessTypeOK' /\ (\A d \in Connections : ConnectionInv(d)') /\ NeverRefused'
<1>1. CASE LoseConnection(c)
  BY <1>1, LoseConnectionStep
<1>2. CASE CallTimesOut(c) /\ toDaemon' = [toDaemon EXCEPT ![c] = Tail(@)]
           /\ UNCHANGED <<managerVars, toWorker, machineVars>>
  <2>1. /\ UNCHANGED <<phase, proto, tasks, cpuExec, busyErrors, toWorker, connected, running>>
        /\ closing' = closing \cup {c} /\ toDaemon[c] # <<>>
        /\ phase[c] = "accepted"
    BY <1>2 DEF CallTimesOut, UnclaimedReply, Readable, managerVars, machineVars
  <2>2. ProcessTypeOK /\ ConnectionInv(c)
    BY DEF ProcessInv
  <2>3. /\ toDaemon' \in [Connections -> Seq(Replies)]
        /\ Answered(c)' \subseteq Answered(c)
        /\ \A i, j \in DOMAIN toDaemon'[c] : toDaemon'[c][i].task = toDaemon'[c][j].task => i = j
    BY <1>2, <2>1, <2>2, ReplyTaken DEF ConnectionInv, OnePlace
  <2>4. ProcessTypeOK'
    BY <2>1, <2>2, <2>3 DEF ProcessTypeOK
  <2>5. ASSUME NEW d \in Connections, d # c PROVE ConnectionInv(d)'
    <3>1. toDaemon'[d] = toDaemon[d]
      BY <1>2, <2>2, <2>5 DEF ProcessTypeOK
    <3> QED
      BY <2>1, <2>5, <3>1, OtherConnection DEF ProcessInv
  <2>6. Called(c)' = Called(c) /\ running'[c] = running[c]
    BY <2>1 DEF Called
  <2>7. OnePlace(c)'
    BY <2>1, <2>2, <2>3, <2>6 DEF ConnectionInv, OnePlace
  <2>8. ConnectionInv(c)'
    BY <2>1, <2>2, <2>7 DEF ConnectionInv, NothingStray, ExclusiveCounted, UsedInv, Used
  <2> QED
    BY <2>1, <2>4, <2>5, <2>8 DEF ProcessInv, NeverRefused
<1> QED
  BY <1>1, <1>2 DEF UnclaimedReply

\* What the worker's steps on a connection have in common: the daemon's state is
\* left alone, and nothing comes under way that was not.
LEMMA WorkerStep ==
    ASSUME ProcessInv, NEW c \in Connections, ProcessTypeOK', OnePlace(c)', NothingStray(c)',
           UNCHANGED <<phase, closing, proto, tasks, cpuExec, busyErrors, connected>>,
           \A d \in Connections : d # c => /\ toWorker'[d] = toWorker[d] /\ toDaemon'[d] = toDaemon[d]
                                           /\ running'[d] = running[d],
           Used(c) => /\ UnderWay(c)' = UnderWay(c)
                      /\ \A i \in DOMAIN toDaemon'[c] : ~toDaemon'[c][i].refused
    PROVE  ProcessTypeOK' /\ (\A d \in Connections : ConnectionInv(d)') /\ NeverRefused'
<1>1. ASSUME NEW d \in Connections, d # c PROVE ConnectionInv(d)'
  BY <1>1, OtherConnection DEF ProcessInv
<1>2. ConnectionInv(c)
  BY DEF ProcessInv
<1>3. ExclusiveCounted(c)'
  BY <1>2 DEF ConnectionInv, ExclusiveCounted
<1>4. UsedInv(c)'
  BY <1>2 DEF ConnectionInv, UsedInv, Used
<1> QED
  BY <1>1, <1>3, <1>4 DEF ProcessInv, NeverRefused, ConnectionInv

\* A reply is sent, or lost with the connection.
LEMMA Responded ==
    ASSUME ProcessInv, NEW c \in Connections, NEW t \in Tasks, NEW refused \in BOOLEAN,
           Respond(c, t, refused), t \notin Answered(c)
    PROVE  /\ toDaemon' \in [Connections -> Seq(Replies)]
           /\ Answered(c)' \subseteq Answered(c) \cup {t}
           /\ phase[c] # "closed" => Answered(c)' = Answered(c) \cup {t}
           /\ phase[c] = "closed" => toDaemon' = toDaemon
           /\ \A i, j \in DOMAIN toDaemon'[c] : toDaemon'[c][i].task = toDaemon'[c][j].task => i = j
           /\ ~refused /\ (\A i \in DOMAIN toDaemon[c] : ~toDaemon[c][i].refused)
              => \A i \in DOMAIN toDaemon'[c] : ~toDaemon'[c][i].refused
           /\ \A d \in Connections : d # c => toDaemon'[d] = toDaemon[d]
<1>1. ProcessTypeOK /\ OnePlace(c)
  BY DEF ProcessInv, ConnectionInv
<1>2. CASE phase[c] = "closed"
  <2>1. toDaemon' = toDaemon
    BY <1>2 DEF Respond
  <2> QED
    BY <1>1, <1>2, <2>1 DEF ProcessTypeOK, OnePlace, Answered
<1>3. CASE phase[c] # "closed"
  <2>1. toDaemon' = [toDaemon EXCEPT ![c] = Append(@, [task |-> t, refused |-> refused])]
    BY <1>3 DEF Respond
  <2>2. \A d \in Connections : d # c => toDaemon'[d] = toDaemon[d]
    BY <1>1, <2>1 DEF ProcessTypeOK
  <2> QED
    BY <1>1, <1>3, <2>1, <2>2, ReplyAdded DEF OnePlace
<1> QED
  BY <1>2, <1>3

\* cmd_run: the worker refuses a job only on a connection the daemon no longer reads.
LEMMA CmdRunStep ==
    ASSUME ProcessInv, NEW c \in Connections, CmdRun(c)
    PROVE  ProcessTypeOK' /\ (\A d \in Connections : ConnectionInv(d)') /\ NeverRefused'
<1> DEFINE t == Head(toWorker[c])
<1>1. /\ UNCHANGED <<phase, closing, proto, tasks, cpuExec, busyErrors, connected>>
      /\ c \in connected /\ toWorker[c] # <<>> /\ toWorker' = [toWorker EXCEPT ![c] = Tail(@)]
      /\ \/ Refused(t, c) /\ Respond(c, t, TRUE) /\ UNCHANGED running
         \/ ~Refused(t, c) /\ running' = [running EXCEPT ![c] = @ \cup {t}] /\ UNCHANGED toDaemon
  BY DEF CmdRun, regVars, managerVars
<1>2. ProcessTypeOK /\ ConnectionInv(c) /\ OnePlace(c) /\ NothingStray(c)
  BY DEF ProcessInv, ConnectionInv
<1>3. /\ toWorker' \in [Connections -> Seq(Tasks)] /\ t \in Called(c) /\ t \in Tasks
      /\ Called(c)' = Called(c) \ {t}
      /\ \A i, j \in DOMAIN toWorker'[c] : toWorker'[c][i] = toWorker'[c][j] => i = j
  BY <1>1, <1>2, CallTaken DEF OnePlace
<1>4. t \notin running[c] /\ t \notin Answered(c) /\ phase[c] \in {"accepted", "closed"}
  BY <1>1, <1>2, <1>3 DEF OnePlace, NothingStray
<1>5. \A d \in Connections : d # c => toWorker'[d] = toWorker[d]
  BY <1>1, <1>2 DEF ProcessTypeOK
<1>6. Refused(t, c) => ~Used(c)
  <2> SUFFICES ASSUME Refused(t, c), Used(c) PROVE FALSE
    OBVIOUS
  <2>1. \A u \in UnderWay(c) : Exclusive(u) => UnderWay(c) = {u}
    BY <1>2 DEF ConnectionInv, UsedInv
  <2>2. t \in UnderWay(c) /\ running[c] \subseteq UnderWay(c)
    BY <1>3 DEF UnderWay
  <2>3. PICK u \in running[c] : JobType[t] = "cpu-exec" \/ JobType[u] = "cpu-exec"
    BY DEF Refused
  <2> HIDE DEF t
  <2> QED
    BY <1>4, <2>1, <2>2, <2>3 DEF Exclusive
<1> HIDE DEF t
<1>7. CASE Refused(t, c) /\ Respond(c, t, TRUE) /\ UNCHANGED running
  <2>1. /\ toDaemon' \in [Connections -> Seq(Replies)]
        /\ Answered(c)' \subseteq Answered(c) \cup {t}
        /\ phase[c] = "closed" => toDaemon' = toDaemon
        /\ \A i, j \in DOMAIN toDaemon'[c] : toDaemon'[c][i].task = toDaemon'[c][j].task => i = j
        /\ \A d \in Connections : d # c => toDaemon'[d] = toDaemon[d]
    BY <1>3, <1>4, <1>7, Responded
  <2>2. ProcessTypeOK'
    BY <1>1, <1>2, <1>3, <1>7, <2>1 DEF ProcessTypeOK
  <2>3. OnePlace(c)'
    BY <1>2, <1>3, <1>4, <1>7, <2>1 DEF OnePlace
  <2>4. NothingStray(c)'
    BY <1>1, <1>2, <1>4, <1>7, <2>1 DEF NothingStray
  <2> QED
    BY <1>1, <1>5, <1>6, <1>7, <2>1, <2>2, <2>3, <2>4, WorkerStep
<1>8. CASE ~Refused(t, c) /\ running' = [running EXCEPT ![c] = @ \cup {t}] /\ UNCHANGED toDaemon
  <2>1. running'[c] = running[c] \cup {t} /\ \A d \in Connections : d # c => running'[d] = running[d]
    BY <1>2, <1>8 DEF ProcessTypeOK
  <2>2. IsFiniteSet(running[c] \cup {t})
    BY <1>2, FS_AddElement DEF ProcessTypeOK
  <2>3. ProcessTypeOK'
    BY <1>1, <1>2, <1>3, <1>8, <2>1, <2>2 DEF ProcessTypeOK
  <2>4. Answered(c)' = Answered(c)
    BY <1>8 DEF Answered
  <2>5. OnePlace(c)'
    BY <1>2, <1>3, <1>4, <1>8, <2>1, <2>4 DEF OnePlace
  <2>6. NothingStray(c)'
    BY <1>1, <1>2, <1>4, <1>8 DEF NothingStray
  <2>7. UnderWay(c)' = UnderWay(c)
    BY <1>3, <2>1, <2>4 DEF UnderWay
  <2>8. Used(c) => \A i \in DOMAIN toDaemon'[c] : ~toDaemon'[c][i].refused
    BY <1>2, <1>8 DEF ConnectionInv, UsedInv
  <2> QED
    BY <1>1, <1>5, <1>8, <2>1, <2>3, <2>5, <2>6, <2>7, <2>8, WorkerStep
<1> QED
  BY <1>1, <1>7, <1>8

LEMMA ThreadDoneStep ==
    ASSUME ProcessInv, NEW c \in Connections, NEW t \in Tasks, ThreadDone(t, c)
    PROVE  ProcessTypeOK' /\ (\A d \in Connections : ConnectionInv(d)') /\ NeverRefused'
<1>1. /\ UNCHANGED <<phase, closing, proto, tasks, cpuExec, busyErrors, connected, toWorker>>
      /\ c \in connected /\ t \in running[c] /\ Respond(c, t, FALSE)
      /\ running' = [running EXCEPT ![c] = @ \ {t}]
  BY DEF ThreadDone, regVars, managerVars
<1>2. ProcessTypeOK /\ ConnectionInv(c) /\ OnePlace(c) /\ NothingStray(c)
  BY DEF ProcessInv, ConnectionInv
<1>3. t \notin Called(c) /\ t \notin Answered(c) /\ phase[c] \in {"accepted", "closed"}
  BY <1>1, <1>2 DEF OnePlace, NothingStray
<1>4. /\ toDaemon' \in [Connections -> Seq(Replies)]
      /\ Answered(c)' \subseteq Answered(c) \cup {t}
      /\ phase[c] # "closed" => Answered(c)' = Answered(c) \cup {t}
      /\ phase[c] = "closed" => toDaemon' = toDaemon
      /\ \A i, j \in DOMAIN toDaemon'[c] : toDaemon'[c][i].task = toDaemon'[c][j].task => i = j
      /\ (\A i \in DOMAIN toDaemon[c] : ~toDaemon[c][i].refused)
         => \A i \in DOMAIN toDaemon'[c] : ~toDaemon'[c][i].refused
      /\ \A d \in Connections : d # c => toDaemon'[d] = toDaemon[d]
  BY <1>1, <1>3, Responded
<1>5. running'[c] = running[c] \ {t} /\ \A d \in Connections : d # c => running'[d] = running[d]
  BY <1>1, <1>2 DEF ProcessTypeOK
<1>6. IsFiniteSet(running[c] \ {t})
  BY <1>2, FS_Subset DEF ProcessTypeOK
<1>7. ProcessTypeOK'
  BY <1>1, <1>2, <1>4, <1>5, <1>6 DEF ProcessTypeOK
<1>8. Called(c)' = Called(c)
  BY <1>1 DEF Called
<1>9. OnePlace(c)'
  BY <1>1, <1>2, <1>3, <1>4, <1>5, <1>8 DEF OnePlace
<1>10. NothingStray(c)'
  BY <1>1, <1>2, <1>3, <1>4 DEF NothingStray
<1>11. Used(c) => /\ UnderWay(c)' = UnderWay(c)
                  /\ \A i \in DOMAIN toDaemon'[c] : ~toDaemon'[c][i].refused
  BY <1>1, <1>2, <1>4, <1>5, <1>8 DEF UnderWay, Used, ConnectionInv, UsedInv
<1> QED
  BY <1>1, <1>4, <1>5, <1>7, <1>9, <1>10, <1>11, WorkerStep

\* The daemon does not know yet that the worker is gone, and counts more than is
\* under way.
LEMMA WorkerLosesStep ==
    ASSUME ProcessInv, NEW c \in Connections, WorkerLosesConnection(c)
    PROVE  ProcessTypeOK' /\ (\A d \in Connections : ConnectionInv(d)') /\ NeverRefused'
<1>1. /\ UNCHANGED <<phase, closing, proto, tasks, cpuExec, busyErrors, toDaemon>>
      /\ connected' = connected \ {c}
      /\ running' = [running EXCEPT ![c] = {}] /\ toWorker' = [toWorker EXCEPT ![c] = <<>>]
  BY DEF WorkerLosesConnection, regVars, managerVars
<1>2. ProcessTypeOK /\ ConnectionInv(c)
  BY DEF ProcessInv
<1>3. ProcessTypeOK'
  BY <1>1, <1>2, FS_EmptySet DEF ProcessTypeOK
<1>4. ASSUME NEW d \in Connections, d # c PROVE ConnectionInv(d)'
  BY <1>1, <1>2, <1>4, OtherConnection DEF ProcessInv, ProcessTypeOK
<1>5. toWorker'[c] = <<>> /\ running'[c] = {} /\ c \notin connected'
  BY <1>1, <1>2 DEF ProcessTypeOK
<1>6. Called(c)' = {} /\ Answered(c)' = Answered(c)
  BY <1>1, <1>5 DEF Called, Answered
<1>7. OnePlace(c)'
  BY <1>1, <1>2, <1>5, <1>6 DEF ConnectionInv, OnePlace
<1>8. NothingStray(c)' /\ ExclusiveCounted(c)'
  BY <1>1, <1>2, <1>5 DEF ConnectionInv, NothingStray, ExclusiveCounted
<1>9. UnderWay(c)' \subseteq UnderWay(c)
  BY <1>5, <1>6 DEF UnderWay
<1>10. UsedInv(c)'
  BY <1>1, <1>2, <1>5, <1>9 DEF ConnectionInv, UsedInv, Used
<1> QED
  BY <1>1, <1>3, <1>4, <1>7, <1>8, <1>10 DEF ProcessInv, NeverRefused, ConnectionInv

LEMMA ProcessInitInv == ProcessInit => ProcessInv
<1> SUFFICES ASSUME ProcessInit PROVE ProcessInv
  OBVIOUS
<1> USE DEF ProcessInit
<1>1. PendingInv
  BY RegInitInv DEF PendingInv, PendingIsRegistered
<1>2. ProcessTypeOK
  BY FS_EmptySet DEF ProcessTypeOK
<1>3. ASSUME NEW c \in Connections PROVE ConnectionInv(c)
  <2>1. OnePlace(c)
    BY NothingUnderWay
  <2>2. ~Used(c)
    BY DEF RegInit, Used
  <2> QED
    BY <2>1, <2>2 DEF ConnectionInv, NothingStray, ExclusiveCounted, UsedInv
<1> QED
  BY <1>1, <1>2, <1>3 DEF ProcessInv, NeverRefused

LEMMA ProcessNextInv == ProcessInv /\ [ProcessNext]_processVars => ProcessInv'
<1> SUFFICES ASSUME ProcessInv, [ProcessNext]_processVars PROVE ProcessInv'
  OBVIOUS
<1>1. PendingInv'
  BY PendingNextInv DEF ProcessInv
<1>2. ProcessTypeOK' /\ (\A d \in Connections : ConnectionInv(d)') /\ NeverRefused'
  <2>1. CASE UNCHANGED processVars \/ \E n \in Names : OrphanDone(n)
    <3>1. UNCHANGED <<phase, closing, proto, tasks, cpuExec, busyErrors, toWorker, toDaemon,
                      connected, running>>
      BY <2>1 DEF OrphanDone, processVars, regVars, managerVars, channelVars, machineVars
    <3>2. ASSUME NEW d \in Connections PROVE ConnectionInv(d)'
      BY <3>1, OtherConnection DEF ProcessInv
    <3> QED
      BY <3>1, <3>2 DEF ProcessInv, ProcessTypeOK, NeverRefused
  <2>2. CASE ProcessNext
    BY <2>1, <2>2, ConnectStep, HandshakeStep, RegisterStep, LoseConnectionStep, ReplyStep,
       UnclaimedReplyStep, CmdRunStep, WorkerLosesStep, RunOnWorkerStep, TimeoutStep, ThreadDoneStep DEF ProcessNext
  <2> QED
    BY <2>1, <2>2
<1> QED
  BY <1>1, <1>2 DEF ProcessInv

\* The daemon, its workers and the connections between them, over all orders of
\* calls, replies, timeouts, losses and reconnections.
THEOREM ProcessConsistent == ProcessSpec => []ProcessInv
BY ProcessInitInv, ProcessNextInv, PTL DEF ProcessSpec

\* No task fails because its worker was busy, for any number of slots and tasks.
THEOREM WorkersNeverRefuse == ProcessSpec => []NeverRefused
<1>1. ProcessInv => NeverRefused
  BY DEF ProcessInv
<1> QED
  BY <1>1, ProcessConsistent, PTL

\* An exclusive job is alone on its connection, as long as no call of it has timed
\* out.  (That nothing else is on the machine is the hypothesis on the orphans.)
THEOREM ExclusiveStaysAlone == ProcessSpec => []ExclusiveWhileConnected
<1>1. ASSUME ProcessInv PROVE ExclusiveWhileConnected
  <2> SUFFICES ASSUME NEW c \in connected \ closing, phase[c] = "accepted",
                      NEW t \in running[c], Exclusive(t)
               PROVE  running[c] = {t}
    BY DEF ExclusiveWhileConnected
  <2>1. c \in Connections /\ Used(c) /\ ConnectionInv(c)
    BY <1>1 DEF ProcessInv, ProcessTypeOK, Used
  <2>2. t \in UnderWay(c) /\ running[c] \subseteq UnderWay(c)
    BY DEF UnderWay
  <2>3. UnderWay(c) = {t}
    BY <2>1, <2>2 DEF ConnectionInv, UsedInv
  <2> QED
    BY <2>2, <2>3
<1> QED
  BY <1>1, ProcessConsistent, PTL

-----------------------------------------------------------------------------
(***************************************************************************)
(* How many calls are under way.                                           *)
(***************************************************************************)
\* A list without repetitions has as many values as it is long.
LEMMA DistinctValues ==
    ASSUME NEW n \in Nat, NEW S, NEW f \in [1..n -> S],
           \A i, j \in 1..n : f[i] = f[j] => i = j,
           \A x \in S : \E i \in 1..n : f[i] = x
    PROVE  IsFiniteSet(S) /\ Cardinality(S) = n
<1>1. f \in Bijection(1..n, S)
  BY DEF Bijection, Injection, Surjection, IsInjective
<1>2. ExistsBijection(1..n, S)
  BY <1>1 DEF ExistsBijection
<1>3. IsFiniteSet(1..n) /\ Cardinality(1..n) = n
  <2>1. 1 \in Int /\ n \in Int
    OBVIOUS
  <2>2. IsFiniteSet(1..n) /\ Cardinality(1..n) = IF 1 > n THEN 0 ELSE n - 1 + 1
    BY ONLY <2>1, FS_Interval, Zenon
  <2> QED
    BY <2>2
<1> QED
  BY <1>2, <1>3, FS_Bijection

\* A union of two finite sets that have nothing in common.
LEMMA DisjointUnion ==
    ASSUME NEW S, NEW T, IsFiniteSet(S), IsFiniteSet(T), S \cap T = {}
    PROVE  IsFiniteSet(S \cup T) /\ Cardinality(S \cup T) = Cardinality(S) + Cardinality(T)
<1>1. /\ IsFiniteSet(S \cup T)
      /\ Cardinality(S \cup T) = Cardinality(S) + Cardinality(T) - Cardinality(S \cap T)
  BY FS_Union, Zenon
<1>2. Cardinality(S) \in Nat /\ Cardinality(T) \in Nat /\ Cardinality(S \cap T) = 0
  BY FS_CardinalityType, FS_EmptySet
<1> QED
  BY <1>1, <1>2

LEMMA UnderWayCounted ==
    ASSUME ProcessInv, NEW c \in Connections
    PROVE  Cardinality(UnderWay(c)) = Unsettled(c)
<1>1. OnePlace(c) /\ ProcessTypeOK
  BY DEF ProcessInv, ConnectionInv
<1>2. IsFiniteSet(Called(c)) /\ Cardinality(Called(c)) = Len(toWorker[c])
  <2> DEFINE s == toWorker[c]
  <2>1. s \in Seq(Tasks)
    BY <1>1 DEF ProcessTypeOK
  <2>2. Len(s) \in Nat /\ DOMAIN s = 1..Len(s) /\ s = [i \in 1..Len(s) |-> s[i]]
    BY <2>1
  <2>3. \A i, j \in 1..Len(s) : s[i] = s[j] => i = j
    BY <1>1, <2>2 DEF OnePlace
  <2>4. Called(c) = {s[i] : i \in 1..Len(s)}
    BY <2>2 DEF Called
  <2>5. s \in [1..Len(s) -> Called(c)] /\ \A x \in Called(c) : \E i \in 1..Len(s) : s[i] = x
    BY <2>2, <2>4
  <2> HIDE DEF s
  <2>6. IsFiniteSet(Called(c)) /\ Cardinality(Called(c)) = Len(s)
    BY <2>2, <2>3, <2>5, DistinctValues
  <2> QED
    BY <2>6 DEF s
<1>3. IsFiniteSet(Answered(c)) /\ Cardinality(Answered(c)) = Len(toDaemon[c])
  <2> DEFINE s == toDaemon[c]
             f == [i \in 1..Len(s) |-> s[i].task]
  <2>1. s \in Seq(Replies)
    BY <1>1 DEF ProcessTypeOK
  <2>2. Len(s) \in Nat /\ DOMAIN s = 1..Len(s)
    BY <2>1
  <2>3. \A i, j \in 1..Len(s) : f[i] = f[j] => i = j
    BY <1>1, <2>2 DEF OnePlace
  <2>4. Answered(c) = {f[i] : i \in 1..Len(s)} /\ f = [i \in 1..Len(s) |-> f[i]]
    BY <2>2 DEF Answered
  <2>5. f \in [1..Len(s) -> Answered(c)] /\ \A x \in Answered(c) : \E i \in 1..Len(s) : f[i] = x
    BY <2>4
  <2> HIDE DEF s, f
  <2>6. IsFiniteSet(Answered(c)) /\ Cardinality(Answered(c)) = Len(s)
    BY <2>2, <2>3, <2>5, DistinctValues
  <2> QED
    BY <2>6 DEF s
<1>4. IsFiniteSet(running[c])
  BY <1>1 DEF ProcessTypeOK
<1>6. /\ IsFiniteSet(Called(c) \cup running[c])
      /\ Cardinality(Called(c) \cup running[c]) = Len(toWorker[c]) + Cardinality(running[c])
  BY <1>1, <1>2, <1>4, DisjointUnion DEF OnePlace
<1>7. (Called(c) \cup running[c]) \cap Answered(c) = {}
  BY <1>1 DEF OnePlace
<1>8. Cardinality((Called(c) \cup running[c]) \cup Answered(c))
        = Cardinality(Called(c) \cup running[c]) + Cardinality(Answered(c))
  BY <1>3, <1>6, <1>7, DisjointUnion, Zenon
<1> QED
  BY <1>3, <1>6, <1>8 DEF UnderWay, Unsettled

\* While both ends use a connection, the tasks the daemon counts are exactly those
\* that are on their way, executing or answered, each once.
THEOREM EndsAlwaysAgree == ProcessSpec => []EndsAgree
<1>1. ASSUME ProcessInv PROVE EndsAgree
  <2> SUFFICES ASSUME NEW c \in connected \ closing, phase[c] = "accepted",
                      NameOf[c] \notin clashed
               PROVE  tasks[c] = UnderWay(c) /\ Cardinality(tasks[c]) = Unsettled(c)
    BY DEF EndsAgree, UnderWay, Called, Answered
  <2>1. c \in Connections /\ Used(c) /\ ConnectionInv(c)
    BY <1>1 DEF ProcessInv, ProcessTypeOK, Used
  <2>2. proto[NameOf[c]] = c
    BY <1>1, <2>1 DEF ProcessInv, PendingInv, RegInv, AcceptedIsRegistered
  <2>3. tasks[c] = UnderWay(c)
    BY <2>1, <2>2 DEF ConnectionInv, UsedInv
  <2> QED
    BY <1>1, <2>1, <2>3, UnderWayCounted
<1> QED
  BY <1>1, ProcessConsistent, PTL
=============================================================================
