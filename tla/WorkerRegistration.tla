-------------------------- MODULE WorkerRegistration --------------------------
(***************************************************************************)
(* How connections of workers become registered workers and stop being     *)
(* ones: WorkerServer and WorkerServerFactory (server.py), newWorker and   *)
(* workerLost (workermanager.py), over the handshake of protocol/rpc.py.   *)
(*                                                                         *)
(* newWorker yields while it waits for get_running, so the handlers of     *)
(* other connections, and the loss of this one, run between its check of   *)
(* the name and the registration.  The manager is keyed by worker name,    *)
(* the factory by uniqueID (name@host:port), of which a connection of this *)
(* model is one.                                                           *)
(*                                                                         *)
(* Operators called Wrong... are faulty variants of the definition that    *)
(* follows them, used only by the sensitivity checks.                      *)
(***************************************************************************)
CONSTANTS
    Connections,    \* connections, each reopened only after it was lost
    Names,          \* worker names
    NameOf,         \* [Connections -> Names]: the name in the hello data
    None

ASSUME RegistrationAssumption ==
    NameOf \in [Connections -> Names] /\ None \notin Connections

VARIABLES
    phase,      \* [Connections -> Phases]
    closing,    \* connections whose transport got loseConnection()
    ignoreSet,  \* WorkerServerFactory.ignore_set
    proto,      \* [Names -> Connections or None]: WorkerManager.workers (and the
                \* keys of workerData, which are written together)
    sched,      \* keys of the scheduler's workers, by the two callbacks
    leftover,   \* names of which the scheduler's worker queues keep a WorkerInfo
                \* that its workers no longer have
    clashed     \* history: names of which two handshakes overlapped

schedulerVars == <<sched, leftover>>
regVars == <<phase, closing, ignoreSet, proto, schedulerVars, clashed>>

\* "hello": connected, no hello yet.  "calling": established, newWorker waits for
\* get_running.  "accepted": newWorker finished.  "ignored": DuplicateWorker or
\* WorkerRejected.  "failed": newWorker raised something else.
Phases == {"closed", "hello", "calling", "accepted", "ignored", "failed"}

ConnectionMade(c) ==
    /\ phase[c] = "closed"
    /\ phase' = [phase EXCEPT ![c] = "hello"]
    /\ UNCHANGED <<closing, ignoreSet, proto, schedulerVars, clashed>>

\* Connections that passed the check of their name and are not registered: their
\* newWorker has not ended, or has failed.
Undecided(n) == {c \in Connections : NameOf[c] = n /\ phase[c] \in {"calling", "failed"}}

\* What newWorker does when it finds the name free: it calls get_running and waits.
Passes(c) ==
    /\ phase' = [phase EXCEPT ![c] = "calling"]
    /\ clashed' = IF Undecided(NameOf[c]) = {} THEN clashed ELSE clashed \cup {NameOf[c]}
    /\ UNCHANGED <<closing, ignoreSet>>

\* Does not look for the name before it asks the worker.
WrongHello(c) ==
    /\ phase[c] = "hello"
    /\ Passes(c)
    /\ UNCHANGED <<proto, schedulerVars>>

\* hello: hello_ack, established, workerConnected, newWorker up to its yield.  A
\* name that is taken drops the connection.
Hello(c) ==
    /\ phase[c] = "hello"
    /\ \/ proto[NameOf[c]] = None /\ Passes(c)
       \/ /\ proto[NameOf[c]] # None
          /\ phase' = [phase EXCEPT ![c] = "ignored"]
          /\ closing' = closing \cup {c}
          /\ ignoreSet' = ignoreSet \cup {c}
          /\ UNCHANGED clashed
    /\ UNCHANGED <<proto, schedulerVars>>

\* get_running answered with [] and the client info is valid: the rest of
\* newWorker and newWorkerCallback, which ends in addWorker: a WorkerInfo that the
\* name still has is replaced in the scheduler's workers but not in its queues.
Accept(c) ==
    /\ phase[c] = "calling"
    /\ phase' = [phase EXCEPT ![c] = "accepted"]
    /\ proto' = [proto EXCEPT ![NameOf[c]] = c]
    /\ sched' = sched \cup {NameOf[c]}
    /\ leftover' = IF NameOf[c] \in sched THEN leftover \cup {NameOf[c]} ELSE leftover
    /\ UNCHANGED <<closing, ignoreSet, clashed>>

\* WorkerRejected: it is running something or its client info is invalid.  The
\* connection stays open.
Reject(c) ==
    /\ phase[c] = "calling"
    /\ phase' = [phase EXCEPT ![c] = "ignored"]
    /\ ignoreSet' = ignoreSet \cup {c}
    /\ UNCHANGED <<closing, proto, schedulerVars, clashed>>

\* get_running raised TimeoutError or RemoteError, which workerConnected does
\* not catch.
GetRunningFails(c) ==
    /\ phase[c] = "calling"
    /\ phase' = [phase EXCEPT ![c] = "failed"]
    /\ UNCHANGED <<closing, ignoreSet, proto, schedulerVars, clashed>>

\* A reply after the timeout is a ProtocolError.
LateReply(c) ==
    /\ phase[c] = "failed" /\ c \notin closing
    /\ closing' = closing \cup {c}
    /\ UNCHANGED <<phase, ignoreSet, proto, schedulerVars, clashed>>

\* loseConnection() of a registered worker: a call to it ran into its timeout, or it
\* answered one that had.
CallTimesOut(c) ==
    /\ phase[c] = "accepted"
    /\ closing' = closing \cup {c}
    /\ UNCHANGED <<phase, ignoreSet, proto, schedulerVars, clashed>>

\* Does not tell the scheduler.
WrongWorkerLost(c) ==
    /\ proto' = [proto EXCEPT ![NameOf[c]] = None]
    /\ UNCHANGED schedulerVars

\* workerLost: a KeyError, logged and without effect, when the name is not
\* registered; otherwise the entry of the name goes and lostWorkerCallback runs.
\* delWorker takes the WorkerInfo of `workers' out of the queues, and no other.
WorkerLost(c) ==
    /\ proto' = [proto EXCEPT ![NameOf[c]] = None]
    /\ sched' = IF proto[NameOf[c]] = None THEN sched ELSE sched \ {NameOf[c]}
    /\ UNCHANGED leftover

\* connectionLost and workerDisconnected.  Before hello the connection has no
\* uniqueID, and the KeyError of factory.workers ends the handler.
ConnectionLost(c) ==
    /\ phase[c] # "closed"
    /\ phase' = [phase EXCEPT ![c] = "closed"]
    /\ closing' = closing \ {c}
    /\ \/ /\ c \in ignoreSet
          /\ ignoreSet' = ignoreSet \ {c}
          /\ UNCHANGED <<proto, schedulerVars>>
       \/ /\ c \notin ignoreSet /\ phase[c] = "hello"
          /\ UNCHANGED <<ignoreSet, proto, schedulerVars>>
       \/ /\ c \notin ignoreSet /\ phase[c] # "hello"
          /\ WorkerLost(c)
          /\ UNCHANGED ignoreSet
    /\ UNCHANGED clashed

RegInit ==
    /\ phase = [c \in Connections |-> "closed"]
    /\ closing = {} /\ ignoreSet = {}
    /\ sched = {} /\ leftover = {} /\ clashed = {}
    /\ proto = [n \in Names |-> None]

RegNext ==
    \E c \in Connections :
        \/ ConnectionMade(c)
        \/ Hello(c)
        \/ Accept(c)
        \/ Reject(c)
        \/ GetRunningFails(c)
        \/ LateReply(c)
        \/ CallTimesOut(c)
        \/ ConnectionLost(c)

RegSpec == RegInit /\ [][RegNext]_regVars

-----------------------------------------------------------------------------
(***************************************************************************)
(* Correctness.                                                            *)
(***************************************************************************)
\* Types of the registration state.
RegTypeOK ==
    /\ phase \in [Connections -> Phases]
    /\ closing \subseteq Connections /\ ignoreSet \subseteq Connections
    /\ proto \in [Names -> Connections \cup {None}]
    /\ sched \subseteq Names /\ leftover \subseteq Names /\ clashed \subseteq Names

\* The manager's entry of a name is a live, accepted connection of that name, so
\* that a call to a worker never goes to a dead or rejected connection, and the
\* scheduler knows exactly the names that have an entry, so that delWorker finds
\* its worker; both even when names clash.  The queues of the scheduler offer no
\* other worker ("There is exactly one instance of this class for each running
\* worker", WorkerInfo) as long as no two handshakes of a name overlap: then the
\* first WorkerInfo stays in them, and outlives both connections.
RegisteredIsConnected ==
    \A n \in Names :
        /\ proto[n] # None => phase[proto[n]] = "accepted" /\ NameOf[proto[n]] = n
        /\ n \in sched <=> proto[n] # None
        /\ n \in leftover => n \in clashed

\* A connection that was told it is a worker is the one the manager uses for its
\* name, until it is lost: "Worker {w} connected twice and was dropped" keeps a
\* second connection from replacing it, and the loss of another connection does
\* not unregister it.  The check before newWorker's yield achieves this only as
\* long as no two connections of the name pass it before one is registered.
AcceptedIsRegistered ==
    \A c \in Connections :
        phase[c] = "accepted" /\ NameOf[c] \notin clashed => proto[NameOf[c]] = c

\* ignore_set holds open connections only: an entry that stayed would make the
\* factory ignore the loss of a later worker with the same address.
IgnoredIsOpen == ignoreSet = {c \in Connections : phase[c] = "ignored"}
=============================================================================
