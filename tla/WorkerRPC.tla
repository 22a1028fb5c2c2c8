------------------------------ MODULE WorkerRPC -------------------------------
(***************************************************************************)
(* The call protocol between the daemon and a worker (protocol/rpc.py):    *)
(* the hello handshake, calls in both directions, replies, timeouts and    *)
(* the loss of the connection, for one connection with its two ends.       *)
(*                                                                         *)
(* A call waits for a reply or for its timer, whichever comes first.  Made *)
(* before the handshake is over it waits for `ready' first, with its timer *)
(* already running.                                                        *)
(*                                                                         *)
(* Operators called Wrong... are faulty variants of the definition that    *)
(* follows them, used only by the sensitivity checks.                      *)
(***************************************************************************)
EXTENDS Integers, Sequences

CONSTANTS
    MaxCalls,       \* bound on the calls each end makes
    EarlyCalls      \* whether an end calls before its handshake is over

ASSUME RPCAssumption == MaxCalls \in Nat /\ EarlyCalls \in BOOLEAN

Ends == {"client", "server"}
Peer(e) == IF e = "client" THEN "server" ELSE "client"
Ids == 0..(MaxCalls - 1)

VARIABLES
    state,      \* [Ends -> States]
    requestID,  \* [Ends -> Nat]
    chained,    \* [Ends -> sequence of ids]: calls that wait for `ready'
    pending,    \* [Ends -> sets of ids]: keys of pendingCalls
    timer,      \* [Ends -> [Ids -> Timers]]
    fired,      \* [Ends -> [Ids -> Outcomes]]: how the Deferred of a call fired
    executing,  \* [Ends -> sets of ids]: calls of the peer being executed
    inbox,      \* [Ends -> sequence of messages on their way to the end]
    closing     \* ends whose transport got loseConnection()

rpcVars == <<state, requestID, chained, pending, timer, fired, executing, inbox, closing>>

States == {"connected", "sent_hello", "established", "lost"}
Timers == {"unset", "armed", "fired", "cancelled"}
Outcomes == {"no", "result", "error", "timeout"}
Messages == [type : {"hello", "hello_ack"}, id : {-1}]
                \cup [type : {"call", "result", "error"}, id : Ids]

Message(type, i) == [type |-> type, id |-> i]
Handshake(type) == Message(type, -1)

\* The call messages of a sequence of ids.
CallsOf(ids) == [k \in DOMAIN ids |-> Message("call", ids[k])]

\* connectionMade on both ends: the client says hello.
RPCInit ==
    /\ state = [e \in Ends |-> IF e = "client" THEN "sent_hello" ELSE "connected"]
    /\ requestID = [e \in Ends |-> 0]
    /\ chained = [e \in Ends |-> <<>>]
    /\ pending = [e \in Ends |-> {}]
    /\ timer = [e \in Ends |-> [i \in Ids |-> "unset"]]
    /\ fired = [e \in Ends |-> [i \in Ids |-> "no"]]
    /\ executing = [e \in Ends |-> {}]
    /\ inbox = [e \in Ends |-> IF e = "server" THEN <<Handshake("hello")>> ELSE <<>>]
    /\ closing = {}

\* What is sent to an end whose connection is lost goes nowhere.
Delivered(e, messages) == IF state[e] = "lost" THEN <<>> ELSE messages

-----------------------------------------------------------------------------
\* Does not count the request.
WrongCall(e) ==
    /\ requestID[e] < MaxCalls /\ state[e] = "established"
    /\ timer' = [timer EXCEPT ![e][requestID[e]] = "armed"]
    /\ pending' = [pending EXCEPT ![e] = @ \cup {requestID[e]}]
    /\ inbox' = [inbox EXCEPT ![Peer(e)] =
                    @ \o Delivered(Peer(e), <<Message("call", requestID[e])>>)]
    /\ UNCHANGED <<state, requestID, chained, fired, executing, closing>>

\* call(): a timer, and the message now or when `ready' fires.
Call(e) ==
    /\ requestID[e] < MaxCalls /\ state[e] # "lost"
    /\ LET i == requestID[e]
       IN  /\ timer' = [timer EXCEPT ![e][i] = "armed"]
           /\ \/ /\ state[e] = "established"
                 /\ pending' = [pending EXCEPT ![e] = @ \cup {i}]
                 /\ inbox' = [inbox EXCEPT ![Peer(e)] =
                                 @ \o Delivered(Peer(e), <<Message("call", i)>>)]
                 /\ UNCHANGED chained
              \/ /\ state[e] # "established" /\ EarlyCalls
                 /\ chained' = [chained EXCEPT ![e] = Append(@, i)]
                 /\ UNCHANGED <<pending, inbox>>
    /\ requestID' = [requestID EXCEPT ![e] = @ + 1]
    /\ UNCHANGED <<state, fired, executing, closing>>

\* The next message an end handles, if it handles any.  An end that is closing handles
\* what it had read before it lost the connection.
Incoming(e) ==
    IF inbox[e] = <<>> \/ state[e] = "lost" THEN {} ELSE {Head(inbox[e])}

\* Sends the calls that waited before it acknowledges the hello.
WrongEstablish(e, ack) ==
    /\ state' = [state EXCEPT ![e] = "established"]
    /\ pending' = [pending EXCEPT ![e] = @ \cup {chained[e][k] : k \in DOMAIN chained[e]}]
    /\ chained' = [chained EXCEPT ![e] = <<>>]
    /\ inbox' = [inbox EXCEPT ![e] = Tail(@), ![Peer(e)] =
                    @ \o Delivered(Peer(e), CallsOf(chained[e]) \o ack)]
    /\ UNCHANGED <<requestID, timer, fired, executing, closing>>

\* The state becomes established, `ready' fires and the calls that waited for it
\* are sent in order.
Establish(e, ack) ==
    /\ state' = [state EXCEPT ![e] = "established"]
    /\ pending' = [pending EXCEPT ![e] = @ \cup {chained[e][k] : k \in DOMAIN chained[e]}]
    /\ chained' = [chained EXCEPT ![e] = <<>>]
    /\ inbox' = [inbox EXCEPT ![e] = Tail(@), ![Peer(e)] =
                    @ \o Delivered(Peer(e), ack \o CallsOf(chained[e]))]
    /\ UNCHANGED <<requestID, timer, fired, executing, closing>>

ReceiveHello(e) ==
    /\ Incoming(e) = {Handshake("hello")} /\ state[e] = "connected"
    /\ Establish(e, <<Handshake("hello_ack")>>)

ReceiveHelloAck(e) ==
    /\ Incoming(e) = {Handshake("hello_ack")} /\ state[e] = "sent_hello"
    /\ Establish(e, <<>>)

ReceiveCall(e) ==
    /\ state[e] = "established"
    /\ \E m \in Incoming(e) :
          /\ m.type = "call"
          /\ executing' = [executing EXCEPT ![e] = @ \cup {m.id}]
    /\ inbox' = [inbox EXCEPT ![e] = Tail(@)]
    /\ UNCHANGED <<state, requestID, chained, pending, timer, fired, closing>>

\* Leaves the call pending, with its timer running.
WrongReceiveReply(e) ==
    /\ state[e] = "established"
    /\ \E m \in Incoming(e) :
          /\ m.type \in {"result", "error"} /\ m.id \in pending[e]
          /\ fired' = [fired EXCEPT ![e][m.id] = m.type]
    /\ inbox' = [inbox EXCEPT ![e] = Tail(@)]
    /\ UNCHANGED <<state, requestID, chained, pending, timer, executing, closing>>

\* A reply to a pending call: callback or errback, then timer.cancel(), which
\* raises AlreadyCalled when the timer has fired: stringReceived closes.
ReceiveReply(e) ==
    /\ state[e] = "established"
    /\ \E m \in Incoming(e) :
          /\ m.type \in {"result", "error"} /\ m.id \in pending[e]
          /\ pending' = [pending EXCEPT ![e] = @ \ {m.id}]
          /\ fired' = [fired EXCEPT ![e][m.id] = m.type]
          /\ \/ /\ timer[e][m.id] = "armed"
                /\ timer' = [timer EXCEPT ![e][m.id] = "cancelled"]
                /\ UNCHANGED closing
             \/ /\ timer[e][m.id] # "armed"
                /\ closing' = closing \cup {e}
                /\ UNCHANGED timer
    /\ inbox' = [inbox EXCEPT ![e] = Tail(@)]
    /\ UNCHANGED <<state, requestID, chained, executing>>

\* ProtocolError: a reply to a call that is not pending, or a message out of
\* place.  stringReceived closes the connection.
ProtocolError(e) ==
    /\ \E m \in Incoming(e) :
          \/ state[e] = "established" /\ m.type \in {"result", "error"} /\ m.id \notin pending[e]
          \/ state[e] = "connected" /\ m.type # "hello"
          \/ state[e] = "sent_hello" /\ m.type # "hello_ack"
    /\ closing' = closing \cup {e}
    /\ inbox' = [inbox EXCEPT ![e] = Tail(@)]
    /\ UNCHANGED <<state, requestID, chained, pending, timer, fired, executing>>

\* The method ends: _reply or _replyError.
Answer(e, i, type) ==
    /\ i \in executing[e]
    /\ executing' = [executing EXCEPT ![e] = @ \ {i}]
    /\ inbox' = IF state[e] = "lost" THEN inbox
                ELSE [inbox EXCEPT ![Peer(e)] = @ \o Delivered(Peer(e), <<Message(type, i)>>)]
    /\ UNCHANGED <<state, requestID, chained, pending, timer, fired, closing>>

\* Forgets the errback.
WrongTimerFires(e, i) ==
    /\ timer[e][i] = "armed"
    /\ timer' = [timer EXCEPT ![e][i] = "fired"]
    /\ pending' = [pending EXCEPT ![e] = @ \ {i}]
    /\ UNCHANGED <<state, requestID, chained, fired, executing, inbox, closing>>

\* _timeout: TimeoutError for a pending call; for one that still waits for
\* `ready' a KeyError, logged and without effect.
TimerFires(e, i) ==
    /\ timer[e][i] = "armed"
    /\ timer' = [timer EXCEPT ![e][i] = "fired"]
    /\ pending' = [pending EXCEPT ![e] = @ \ {i}]
    /\ fired' = IF i \in pending[e] THEN [fired EXCEPT ![e][i] = "timeout"] ELSE fired
    /\ UNCHANGED <<state, requestID, chained, executing, inbox, closing>>

\* connectionLost cancels the timers of the pending calls; their Deferreds are
\* left to whoever made the calls (workerLost errbacks the run calls).
ConnectionLost(e) ==
    /\ state[e] # "lost"
    /\ state' = [state EXCEPT ![e] = "lost"]
    /\ timer' = [timer EXCEPT ![e] = [i \in Ids |->
                    IF i \in pending[e] /\ timer[e][i] = "armed" THEN "cancelled"
                    ELSE timer[e][i]]]
    /\ inbox' = [inbox EXCEPT ![e] = <<>>]
    /\ closing' = closing \ {e}
    /\ UNCHANGED <<requestID, chained, pending, fired, executing>>

-----------------------------------------------------------------------------
Receive(e) ==
    \/ ReceiveHello(e)
    \/ ReceiveHelloAck(e)
    \/ ReceiveCall(e)
    \/ ReceiveReply(e)
    \/ ProtocolError(e)

RPCNext ==
    \E e \in Ends :
        \/ Call(e)
        \/ Receive(e)
        \/ \E i \in Ids, type \in {"result", "error"} : Answer(e, i, type)
        \/ \E i \in Ids : TimerFires(e, i)
        \/ ConnectionLost(e)

RPCSpec == RPCInit /\ [][RPCNext]_rpcVars

\* Messages arrive at an end that is not closing, timers fire, a transport that is
\* closing or whose peer is gone is lost; the peer's method may never end.
FairRPCSpec ==
    /\ RPCSpec
    /\ \A e \in Ends : WF_rpcVars(e \notin closing /\ Receive(e))
    /\ \A e \in Ends, i \in Ids : WF_rpcVars(TimerFires(e, i))
    /\ \A e \in Ends : WF_rpcVars(/\ e \in closing \/ state[Peer(e)] = "lost"
                                  /\ ConnectionLost(e))

-----------------------------------------------------------------------------
(***************************************************************************)
(* Correctness.                                                            *)
(***************************************************************************)
\* Types of the two ends.
RPCTypeOK ==
    /\ state \in [Ends -> States]
    /\ requestID \in [Ends -> 0..MaxCalls]
    /\ chained \in [Ends -> Seq(Ids)]
    /\ pending \in [Ends -> SUBSET Ids]
    /\ timer \in [Ends -> [Ids -> Timers]]
    /\ fired \in [Ends -> [Ids -> Outcomes]]
    /\ executing \in [Ends -> SUBSET Ids]
    /\ inbox \in [Ends -> Seq(Messages)]
    /\ closing \subseteq Ends

\* The Deferred of a call fires at most once, whatever the order of its reply,
\* its timer and the loss of the connection.
FiresOnce ==
    [][\A e \in Ends, i \in Ids : fired[e][i] # "no" => fired'[e][i] = fired[e][i]]_rpcVars

\* A connection is closed for a protocol error only after some call of that end
\* ran into its timeout: handshake and calls never get out of step by themselves.
ClosedOnlyAfterTimeout ==
    \A e \in closing : \E i \in Ids : timer[e][i] = "fired"

\* Each reply under way answers a call that its caller made and, unless the call
\* timed out, still waits for; no call has two replies.
RepliesAreExpected ==
    \A e \in Ends :
        LET replies == {k \in DOMAIN inbox[e] : inbox[e][k].type \in {"result", "error"}}
        IN  /\ \A k \in replies : LET i == inbox[e][k].id
                                  IN  i \in pending[e] \/ timer[e][i] = "fired"
            /\ \A j, k \in replies : inbox[e][j].id = inbox[e][k].id => j = k

\* call(): "Raises RemoteError if something goes wrong on the remote end and
\* TimeoutError on timeout": every call that reached pendingCalls with its timer
\* running ends, unless its connection is lost, though the peer never answers.
CallsEnd ==
    \A e \in Ends, i \in Ids :
        i \in pending[e] /\ timer[e][i] = "armed" ~> fired[e][i] # "no" \/ state[e] = "lost"
=============================================================================
