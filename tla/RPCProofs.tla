------------------------------- MODULE RPCProofs ------------------------------
(***************************************************************************)
(* The call protocol for any number of calls: the Deferred of a call fires *)
(* at most once, replies are expected, and a connection is closed only     *)
(* after a timeout.                                                        *)
(*                                                                         *)
(* FiresOnce follows from where an identifier can be: not yet used, among  *)
(* the calls that wait for `ready', in pendingCalls, or gone.  In all but  *)
(* the last place its Deferred has not fired, and what fires a Deferred    *)
(* moves the identifier to the last place (RPCInv).                        *)
(*                                                                         *)
(* The rest follows a call through both ends: as a message to the peer,    *)
(* being executed there, as a reply under way.  It is in one of the three  *)
(* at a time, and its caller has it in pendingCalls or let it time out     *)
(* (OpenInv); hello and hello_ack come before everything else              *)
(* (HandshakeInv).                                                         *)
(***************************************************************************)
EXTENDS WorkerRPC, SequenceTheorems, TLAPS

Waiting(e) == {chained[e][k] : k \in DOMAIN chained[e]}

\* Where the identifiers of an end are.
PlacesInv(e) ==
    /\ \A i \in pending[e] \cup Waiting(e) : i < requestID[e]
    /\ pending[e] \cap Waiting(e) = {}
    /\ \A i \in Ids : i \in pending[e] \cup Waiting(e) \/ i >= requestID[e]
                          => fired[e][i] = "no"

RPCInv == RPCTypeOK /\ \A e \in Ends : PlacesInv(e)

-----------------------------------------------------------------------------
LEMMA IdFacts == Ids \subseteq Int /\ \A n \in 0..MaxCalls : n < MaxCalls => n \in Ids
BY RPCAssumption DEF Ids

LEMMA PeerFacts ==
    ASSUME NEW e \in Ends
    PROVE  Peer(e) \in Ends /\ Peer(e) # e
BY DEF Peer, Ends

LEMMA MessageFacts ==
    /\ \A type \in {"call", "result", "error"}, i \in Ids : Message(type, i) \in Messages
    /\ \A type \in {"hello", "hello_ack"} : Handshake(type) \in Messages
    /\ \A m \in Messages : m.type = "call" => m.id \in Ids
BY DEF Message, Handshake, Messages

LEMMA CallsOfType ==
    ASSUME NEW ids \in Seq(Ids)
    PROVE  CallsOf(ids) \in Seq(Messages)
<1>1. DOMAIN ids = 1..Len(ids) /\ Len(ids) \in Nat /\ \A k \in 1..Len(ids) : ids[k] \in Ids
  OBVIOUS
<1>2. \A k \in 1..Len(ids) : Message("call", ids[k]) \in Messages
  BY <1>1, MessageFacts
<1>3. CallsOf(ids) = [k \in 1..Len(ids) |-> Message("call", ids[k])]
  BY <1>1 DEF CallsOf
<1> QED
  BY <1>1, <1>2, <1>3, IsASeq

LEMMA IncomingFacts ==
    ASSUME RPCTypeOK, NEW e \in Ends, Incoming(e) # {}
    PROVE  inbox[e] # <<>> /\ Tail(inbox[e]) \in Seq(Messages) /\ Incoming(e) \subseteq Messages
BY DEF RPCTypeOK, Incoming

LEMMA InitInv == RPCInit => RPCInv
<1> SUFFICES ASSUME RPCInit PROVE RPCInv
  OBVIOUS
<1>1. RPCTypeOK
  BY RPCAssumption, MessageFacts DEF RPCInit, RPCTypeOK, States, Timers, Outcomes
<1>2. \A e \in Ends : PlacesInv(e)
  BY DEF RPCInit, PlacesInv, Waiting
<1> QED
  BY <1>1, <1>2 DEF RPCInv

LEMMA CallStep ==
    ASSUME RPCInv, NEW e \in Ends, Call(e)
    PROVE  RPCInv'
<1> USE DEF RPCInv, RPCTypeOK
<1> DEFINE i == requestID[e]
<1>1. i \in Ids /\ i \in Nat /\ i + 1 \in 0..MaxCalls
  BY IdFacts, RPCAssumption DEF Call
<1> HIDE DEF i
<1>2. Message("call", i) \in Messages
  BY <1>1, MessageFacts
<1>3. /\ timer' = [timer EXCEPT ![e][i] = "armed"]
      /\ requestID' = [requestID EXCEPT ![e] = i + 1]
      /\ UNCHANGED <<state, fired, executing, closing>>
  BY DEF Call, i
<1>4. CASE /\ pending' = [pending EXCEPT ![e] = @ \cup {i}]
           /\ inbox' = [inbox EXCEPT ![Peer(e)] =
                           @ \o Delivered(Peer(e), <<Message("call", i)>>)]
           /\ UNCHANGED chained
  <2>1. Delivered(Peer(e), <<Message("call", i)>>) \in Seq(Messages)
    BY <1>2 DEF Delivered
  <2>2. inbox' \in [Ends -> Seq(Messages)]
    BY <1>4, <2>1, PeerFacts
  <2>3. RPCTypeOK'
    BY <1>1, <1>3, <1>4, <2>2 DEF Timers
  <2>4. \A d \in Ends : PlacesInv(d) /\ Waiting(d)' = Waiting(d)
    BY <1>4 DEF Waiting
  <2>5. ASSUME NEW d \in Ends PROVE PlacesInv(d)'
    <3>1. CASE d # e
      BY <1>3, <1>4, <2>4, <3>1 DEF PlacesInv
    <3>2. CASE d = e
      <4>1. pending'[e] = pending[e] \cup {i} /\ requestID'[e] = i + 1 /\ requestID[e] = i
        BY <1>3, <1>4 DEF i
      <4>2. Waiting(e) \subseteq Ids /\ pending[e] \subseteq Ids
        BY DEF Waiting
      <4>3. i \notin Waiting(e) /\ \A j \in pending[e] \cup Waiting(e) : j < i
        BY <1>1, <2>4, <4>1, <4>2, IdFacts DEF PlacesInv
      <4>4. ASSUME NEW j \in pending'[e] \cup Waiting(e)' PROVE j < requestID'[e]
        <5>1. j = i \/ j \in pending[e] \cup Waiting(e)
          BY <2>4, <4>1
        <5>2. j \in Int /\ (j = i \/ j < i)
          BY <1>1, <4>2, <4>3, <5>1, IdFacts
        <5> QED
          BY <1>1, <4>1, <5>2
      <4>5. pending'[e] \cap Waiting(e)' = {}
        BY <2>4, <4>1, <4>3 DEF PlacesInv
      <4>6. \A j \in Ids : j \in pending'[e] \cup Waiting(e)' \/ j >= requestID'[e]
                               => fired'[e][j] = "no"
        BY <1>1, <1>3, <2>4, <4>1, IdFacts DEF PlacesInv
      <4> QED
        BY <3>2, <4>4, <4>5, <4>6 DEF PlacesInv
    <3> QED
      BY <3>1, <3>2
  <2> QED
    BY <2>3, <2>5
<1>5. CASE chained' = [chained EXCEPT ![e] = Append(@, i)] /\ UNCHANGED <<pending, inbox>>
  <2>1. chained' \in [Ends -> Seq(Ids)]
    BY <1>1, <1>5
  <2>2. RPCTypeOK'
    BY <1>1, <1>3, <1>5, <2>1 DEF Timers
  <2>3. Waiting(e)' = Waiting(e) \cup {i}
    <3> DEFINE c == chained[e]
    <3>1. c \in Seq(Ids) /\ chained'[e] = Append(c, i)
      BY <1>5
    <3> HIDE DEF c
    <3>2. /\ DOMAIN c = 1..Len(c) /\ Len(c) \in Nat
          /\ DOMAIN Append(c, i) = 1..(Len(c) + 1)
          /\ \A k \in 1..Len(c) : Append(c, i)[k] = c[k]
          /\ Append(c, i)[Len(c) + 1] = i
      BY <1>1, <3>1
    <3>3. {Append(c, i)[k] : k \in 1..(Len(c) + 1)} = {c[k] : k \in 1..Len(c)} \cup {i}
      BY <3>2
    <3>4. Waiting(e)' = {Append(c, i)[k] : k \in DOMAIN Append(c, i)}
      BY <3>1 DEF Waiting
    <3>5. Waiting(e) = {c[k] : k \in DOMAIN c}
      BY DEF Waiting, c
    <3> QED
      BY <3>2, <3>3, <3>4, <3>5
  <2>4. \A d \in Ends \ {e} : Waiting(d)' = Waiting(d)
    BY <1>5 DEF Waiting
  <2>5. ASSUME NEW d \in Ends PROVE PlacesInv(d)'
    <3>1. CASE d # e
      BY <1>3, <1>5, <2>4, <3>1 DEF PlacesInv
    <3>2. CASE d = e
      <4>1. PlacesInv(e) /\ requestID'[e] = i + 1 /\ requestID[e] = i /\ pending'[e] = pending[e]
        BY <1>3, <1>5 DEF i
      <4>2. Waiting(e) \subseteq Ids /\ pending[e] \subseteq Ids
        BY DEF Waiting
      <4>3. i \notin pending[e] /\ \A j \in pending[e] \cup Waiting(e) : j < i
        BY <1>1, <4>1, <4>2, IdFacts DEF PlacesInv
      <4>4. ASSUME NEW j \in pending'[e] \cup Waiting(e)' PROVE j < requestID'[e]
        <5>1. j = i \/ j \in pending[e] \cup Waiting(e)
          BY <2>3, <4>1
        <5>2. j \in Int /\ (j = i \/ j < i)
          BY <1>1, <4>2, <4>3, <5>1, IdFacts
        <5> QED
          BY <1>1, <4>1, <5>2
      <4>5. pending'[e] \cap Waiting(e)' = {}
        BY <2>3, <4>1, <4>3 DEF PlacesInv
      <4>6. \A j \in Ids : j \in pending'[e] \cup Waiting(e)' \/ j >= requestID'[e]
                               => fired'[e][j] = "no"
        BY <1>1, <1>3, <2>3, <4>1, IdFacts DEF PlacesInv
      <4> QED
        BY <3>2, <4>4, <4>5, <4>6 DEF PlacesInv
    <3> QED
      BY <3>1, <3>2
  <2> QED
    BY <2>2, <2>5
<1> QED
  BY <1>4, <1>5 DEF Call, i

LEMMA EstablishStep ==
    ASSUME RPCInv, NEW e \in Ends, NEW ack \in Seq(Messages), Incoming(e) # {},
           Establish(e, ack)
    PROVE  RPCInv'
<1> USE DEF RPCInv
<1>1. /\ state' = [state EXCEPT ![e] = "established"]
      /\ pending' = [pending EXCEPT ![e] = @ \cup Waiting(e)]
      /\ chained' = [chained EXCEPT ![e] = <<>>]
      /\ inbox' = [inbox EXCEPT ![e] = Tail(@), ![Peer(e)] =
                      @ \o Delivered(Peer(e), ack \o CallsOf(chained[e]))]
      /\ UNCHANGED <<requestID, timer, fired, executing, closing>>
  BY DEF Establish, Waiting
<1>2. Waiting(e) \subseteq Ids
  BY DEF Waiting, RPCTypeOK
<1>3. inbox' \in [Ends -> Seq(Messages)]
  <2>1. ack \o CallsOf(chained[e]) \in Seq(Messages)
    BY CallsOfType DEF RPCTypeOK
  <2>2. Delivered(Peer(e), ack \o CallsOf(chained[e])) \in Seq(Messages)
    BY <2>1 DEF Delivered
  <2>3. Tail(inbox[e]) \in Seq(Messages) /\ inbox \in [Ends -> Seq(Messages)]
    BY IncomingFacts DEF RPCTypeOK
  <2>4. inbox[Peer(e)] \o Delivered(Peer(e), ack \o CallsOf(chained[e])) \in Seq(Messages)
    BY <2>2, <2>3, PeerFacts
  <2> HIDE DEF RPCInv
  <2> QED
    BY <1>1, <2>3, <2>4, PeerFacts
<1>4. RPCTypeOK'
  <2>1. pending' \in [Ends -> SUBSET Ids] /\ chained' \in [Ends -> Seq(Ids)]
    BY <1>1, <1>2 DEF RPCTypeOK
  <2> QED
    BY <1>1, <1>3, <2>1 DEF RPCTypeOK, States
<1>5. Waiting(e)' = {} /\ \A d \in Ends \ {e} : Waiting(d)' = Waiting(d)
  BY <1>1 DEF RPCTypeOK, Waiting
<1>6. ASSUME NEW d \in Ends PROVE PlacesInv(d)'
  BY <1>1, <1>5 DEF PlacesInv, RPCTypeOK
<1> QED
  BY <1>4, <1>6

\* Steps that fire no Deferred and move no identifier.
LEMMA OtherSteps ==
    ASSUME RPCInv, RPCTypeOK', UNCHANGED <<requestID, chained, pending, fired>>
    PROVE  RPCInv'
BY DEF RPCInv, PlacesInv, Waiting

\* Steps that take an identifier out of pendingCalls, and fire no other Deferred.
LEMMA Fires ==
    ASSUME RPCInv, RPCTypeOK', NEW e \in Ends, NEW i \in Ids, NEW outcome,
           pending' = [pending EXCEPT ![e] = @ \ {i}],
           fired' = IF i \in pending[e] THEN [fired EXCEPT ![e][i] = outcome] ELSE fired,
           UNCHANGED <<requestID, chained>>
    PROVE  RPCInv'
<1>1. \A d \in Ends : Waiting(d)' = Waiting(d)
  BY DEF Waiting
<1>2. ASSUME NEW d \in Ends PROVE PlacesInv(d)'
  <2>1. PlacesInv(d) /\ PlacesInv(e)
    BY DEF RPCInv
  <2>2. CASE d # e
    BY <1>1, <2>1, <2>2 DEF PlacesInv, RPCInv, RPCTypeOK
  <2>3. CASE d = e
    BY <1>1, <2>1, <2>3, IdFacts DEF PlacesInv, RPCInv, RPCTypeOK
  <2> QED
    BY <2>2, <2>3
<1> QED
  BY <1>2 DEF RPCInv

LEMMA ReceiveReplyStep ==
    ASSUME RPCInv, NEW e \in Ends, ReceiveReply(e)
    PROVE  RPCInv'
<1>1. PICK m \in Incoming(e) :
          /\ m.type \in {"result", "error"} /\ m.id \in pending[e]
          /\ pending' = [pending EXCEPT ![e] = @ \ {m.id}]
          /\ fired' = [fired EXCEPT ![e][m.id] = m.type]
          /\ \/ timer' = [timer EXCEPT ![e][m.id] = "cancelled"] /\ UNCHANGED closing
             \/ closing' = closing \cup {e} /\ UNCHANGED timer
          /\ inbox' = [inbox EXCEPT ![e] = Tail(@)]
          /\ UNCHANGED <<state, requestID, chained, executing>>
  BY DEF ReceiveReply
<1>2. m.id \in Ids /\ RPCTypeOK
  BY <1>1 DEF RPCInv, RPCTypeOK
<1>3. RPCTypeOK'
  <2>1. fired' \in [Ends -> [Ids -> Outcomes]]
    BY <1>1, <1>2 DEF RPCTypeOK, Outcomes
  <2>3. timer' \in [Ends -> [Ids -> Timers]] /\ closing' \subseteq Ends
    <3>1. [timer EXCEPT ![e][m.id] = "cancelled"] \in [Ends -> [Ids -> Timers]]
      BY <1>2 DEF RPCTypeOK, Timers
    <3> QED
      BY <1>1, <1>2, <3>1 DEF RPCTypeOK
  <2>2. inbox' \in [Ends -> Seq(Messages)]
    BY <1>1, <1>2, IncomingFacts DEF RPCTypeOK
  <2> QED
    BY <1>1, <1>2, <2>1, <2>2, <2>3 DEF RPCTypeOK
<1> QED
  BY <1>1, <1>2, <1>3, Fires

LEMMA TimerFiresStep ==
    ASSUME RPCInv, NEW e \in Ends, NEW i \in Ids, TimerFires(e, i)
    PROVE  RPCInv'
<1>1. RPCTypeOK'
  BY DEF TimerFires, RPCInv, RPCTypeOK, Timers, Outcomes
<1> QED
  BY <1>1, Fires DEF TimerFires

LEMMA RPCStep == RPCInv /\ [RPCNext]_rpcVars => RPCInv'
<1> SUFFICES ASSUME RPCInv, [RPCNext]_rpcVars PROVE RPCInv'
  OBVIOUS
<1>1. RPCTypeOK
  BY DEF RPCInv
<1>2. ASSUME NEW e \in Ends, ReceiveHello(e) PROVE RPCInv'
  <2>1. <<Handshake("hello_ack")>> \in Seq(Messages)
    BY MessageFacts
  <2> QED
    BY <1>2, <2>1, EstablishStep DEF ReceiveHello
<1>3. ASSUME NEW e \in Ends, ReceiveHelloAck(e) PROVE RPCInv'
  <2>1. <<>> \in Seq(Messages)
    OBVIOUS
  <2> QED
    BY <1>3, <2>1, EstablishStep DEF ReceiveHelloAck
<1>4. ASSUME NEW e \in Ends, ReceiveCall(e) PROVE RPCInv'
  <2>1. RPCTypeOK'
    BY <1>1, <1>4, IncomingFacts, MessageFacts DEF ReceiveCall, RPCTypeOK
  <2> QED
    BY <1>4, <2>1, OtherSteps DEF ReceiveCall
<1>5. ASSUME NEW e \in Ends, ProtocolError(e) PROVE RPCInv'
  <2>1. RPCTypeOK'
    BY <1>1, <1>5, IncomingFacts DEF ProtocolError, RPCTypeOK
  <2> QED
    BY <1>5, <2>1, OtherSteps DEF ProtocolError
<1>6. ASSUME NEW e \in Ends, NEW i \in Ids, NEW type \in {"result", "error"},
             Answer(e, i, type)
      PROVE  RPCInv'
  <2>1. Delivered(Peer(e), <<Message(type, i)>>) \in Seq(Messages)
    BY MessageFacts DEF Delivered
  <2>2. inbox' \in [Ends -> Seq(Messages)]
    BY <1>1, <1>6, <2>1, PeerFacts DEF Answer, RPCTypeOK
  <2>3. RPCTypeOK'
    BY <1>1, <1>6, <2>2 DEF Answer, RPCTypeOK
  <2> QED
    BY <1>6, <2>3, OtherSteps DEF Answer
<1>7. ASSUME NEW e \in Ends, ConnectionLost(e) PROVE RPCInv'
  <2>1. RPCTypeOK'
    BY <1>1, <1>7 DEF ConnectionLost, RPCTypeOK, States, Timers
  <2> QED
    BY <1>7, <2>1, OtherSteps DEF ConnectionLost
<1>8. CASE UNCHANGED rpcVars
  BY <1>8 DEF RPCInv, RPCTypeOK, PlacesInv, Waiting, rpcVars
<1> QED
  BY <1>2, <1>3, <1>4, <1>5, <1>6, <1>7, <1>8, CallStep, ReceiveReplyStep, TimerFiresStep
  DEF RPCNext, Receive

\* The inductive invariant of the protocol.
THEOREM RPCConsistent == RPCSpec => []RPCInv
BY InitInv, RPCStep, PTL DEF RPCSpec

\* Whatever the order of replies, timers and losses, no Deferred of call() fires
\* twice: AlreadyCalledError is never raised.
THEOREM CallsFireOnce == RPCSpec => FiresOnce
<1>1. RPCInv /\ [RPCNext]_rpcVars =>
          [\A e \in Ends, i \in Ids : fired[e][i] # "no" => fired'[e][i] = fired[e][i]]_rpcVars
  <2> SUFFICES ASSUME RPCInv, RPCNext, NEW d \in Ends, NEW j \in Ids, fired[d][j] # "no"
               PROVE  fired'[d][j] = fired[d][j]
    OBVIOUS
  <2>1. fired \in [Ends -> [Ids -> Outcomes]] /\ j \notin pending[d]
    BY DEF RPCInv, RPCTypeOK, PlacesInv
  <2>2. ASSUME NEW e \in Ends, ReceiveReply(e) PROVE fired'[d][j] = fired[d][j]
    BY <2>1, <2>2 DEF ReceiveReply
  <2>3. ASSUME NEW e \in Ends, NEW i \in Ids, TimerFires(e, i)
        PROVE  fired'[d][j] = fired[d][j]
    BY <2>1, <2>3 DEF TimerFires
  <2> QED
    BY <2>2, <2>3 DEF RPCNext, Receive, Call, ReceiveHello, ReceiveHelloAck, Establish,
                      ReceiveCall, ProtocolError, Answer, ConnectionLost
<1> QED
  BY <1>1, RPCConsistent, PTL DEF RPCSpec, FiresOnce

-----------------------------------------------------------------------------
(***************************************************************************)
(* Calls and replies under way.                                            *)
(***************************************************************************)
CallKind == {"call"}
ReplyKind == {"result", "error"}

\* The ids of the messages of these types, and that none of them is there twice.
IdsOf(s, K) == {s[k].id : k \in {j \in DOMAIN s : s[j].type \in K}}

Distinct(s, K) ==
    \A j, k \in DOMAIN s : s[j].type \in K /\ s[k].type \in K /\ s[j].id = s[k].id => j = k

\* The calls of an end that the peer has not received, executes, or has answered.
Unread(e) == IdsOf(inbox[Peer(e)], CallKind)
Executed(e) == executing[Peer(e)]
Replied(e) == IdsOf(inbox[e], ReplyKind)

\* A call is in one of these places at a time, and its caller knows of it, or has
\* timed out.
OpenInv(e) ==
    /\ Distinct(inbox[Peer(e)], CallKind) /\ Distinct(inbox[e], ReplyKind)
    /\ Unread(e) \cap Executed(e) = {}
    /\ (Unread(e) \cup Executed(e)) \cap Replied(e) = {}
    /\ \A i \in Unread(e) \cup Executed(e) \cup Replied(e) :
          /\ i < requestID[e] /\ i \notin Waiting(e)
          /\ i \in pending[e] \/ timer[e][i] = "fired"
    /\ \A j, k \in DOMAIN chained[e] : chained[e][j] = chained[e][k] => j = k

\* As long as the connection is there, a call that has not ended has a timer.
TimerInv(e) ==
    /\ \A i \in Ids : i >= requestID[e] => timer[e][i] = "unset"
    /\ state[e] # "lost" =>
          \A i \in pending[e] \cup Waiting(e) : timer[e][i] \in {"armed", "fired"}

\* Nothing comes before hello and hello_ack.
HandshakeInv ==
    /\ state["client"] # "connected" /\ state["server"] # "sent_hello"
    /\ state["server"] = "connected" =>
          /\ inbox["server"] = <<Handshake("hello")>> /\ inbox["client"] = <<>>
          /\ executing["server"] = {} /\ state["client"] # "established"
    /\ state["client"] = "sent_hello" =>
          /\ executing["client"] = {}
          /\ state["server"] = "established" => inbox["client"] # <<>>
          /\ inbox["client"] # <<>> => Head(inbox["client"]) = Handshake("hello_ack")

ProtocolInv ==
    /\ RPCInv
    /\ \A e \in Ends : OpenInv(e) /\ TimerInv(e)
    /\ HandshakeInv
    /\ ClosedOnlyAfterTimeout

\* Messages of a sequence that is put together, and of one that is read.
LEMMA IdsOfConcat ==
    ASSUME NEW s \in Seq(Messages), NEW z \in Seq(Messages), NEW K
    PROVE  /\ IdsOf(s \o z, K) = IdsOf(s, K) \cup IdsOf(z, K)
           /\ /\ Distinct(s, K) /\ Distinct(z, K) /\ IdsOf(s, K) \cap IdsOf(z, K) = {}
              => Distinct(s \o z, K)
<1> DEFINE c == s \o z
<1>1. /\ DOMAIN s = 1..Len(s) /\ DOMAIN z = 1..Len(z) /\ DOMAIN c = 1..(Len(s) + Len(z))
      /\ Len(s) \in Nat /\ Len(z) \in Nat
  OBVIOUS
<1>2. /\ \A k \in 1..Len(s) : c[k] = s[k]
      /\ \A k \in 1..Len(z) : c[Len(s) + k] = z[k]
  OBVIOUS
<1> HIDE DEF c
<1>3. \A k \in 1..(Len(s) + Len(z)) :
         k \in 1..Len(s) \/ (k - Len(s) \in 1..Len(z) /\ Len(s) + (k - Len(s)) = k)
  BY <1>1
<1>4. /\ \A k \in 1..Len(s) : k \in 1..(Len(s) + Len(z))
      /\ \A k \in 1..Len(z) : Len(s) + k \in 1..(Len(s) + Len(z))
  BY <1>1
<1>5. ASSUME NEW x \in IdsOf(c, K) PROVE x \in IdsOf(s, K) \cup IdsOf(z, K)
  <2>1. PICK k \in 1..(Len(s) + Len(z)) : c[k].type \in K /\ x = c[k].id
    BY <1>1, <1>5 DEF IdsOf
  <2>2. CASE k \in 1..Len(s)
    BY <1>1, <1>2, <2>1, <2>2 DEF IdsOf
  <2>3. CASE k - Len(s) \in 1..Len(z) /\ Len(s) + (k - Len(s)) = k
    <3>1. c[k] = z[k - Len(s)]
      BY <1>2, <2>3
    <3> QED
      BY <1>1, <2>1, <2>3, <3>1 DEF IdsOf
  <2> QED
    BY <1>3, <2>2, <2>3
<1>6. IdsOf(s, K) \cup IdsOf(z, K) \subseteq IdsOf(c, K)
  BY <1>1, <1>2, <1>4 DEF IdsOf
<1>7. ASSUME Distinct(s, K), Distinct(z, K), IdsOf(s, K) \cap IdsOf(z, K) = {},
             NEW j \in 1..(Len(s) + Len(z)), NEW k \in 1..(Len(s) + Len(z)),
             c[j].type \in K, c[k].type \in K, c[j].id = c[k].id
      PROVE  j = k
  <2>1. ASSUME NEW a \in 1..Len(s), NEW b \in 1..Len(z), s[a].type \in K, z[b].type \in K
        PROVE  s[a].id # z[b].id
    <3>1. s[a].id \in IdsOf(s, K) /\ z[b].id \in IdsOf(z, K)
      BY <1>1, <2>1 DEF IdsOf
    <3> QED
      BY <1>7, <3>1
  <2>2. CASE j \in 1..Len(s) /\ k \in 1..Len(s)
    BY <1>1, <1>2, <1>7, <2>2 DEF Distinct
  <2>3. CASE j \in 1..Len(s) /\ k \notin 1..Len(s)
    <3>1. k - Len(s) \in 1..Len(z) /\ c[k] = z[k - Len(s)] /\ c[j] = s[j]
      BY <1>2, <1>3, <2>3
    <3> QED
      BY <1>7, <2>1, <2>3, <3>1
  <2>4. CASE j \notin 1..Len(s) /\ k \in 1..Len(s)
    <3>1. j - Len(s) \in 1..Len(z) /\ c[j] = z[j - Len(s)] /\ c[k] = s[k]
      BY <1>2, <1>3, <2>4
    <3> QED
      BY <1>7, <2>1, <2>4, <3>1
  <2>5. CASE j \notin 1..Len(s) /\ k \notin 1..Len(s)
    <3>1. /\ j - Len(s) \in 1..Len(z) /\ c[j] = z[j - Len(s)]
          /\ k - Len(s) \in 1..Len(z) /\ c[k] = z[k - Len(s)]
      BY <1>2, <1>3, <2>5
    <3>2. j - Len(s) = k - Len(s)
      BY <1>1, <1>7, <3>1 DEF Distinct
    <3> QED
      BY <1>1, <3>2
  <2> QED
    BY <2>2, <2>3, <2>4, <2>5
<1>8. Distinct(s, K) /\ Distinct(z, K) /\ IdsOf(s, K) \cap IdsOf(z, K) = {} => Distinct(c, K)
  BY <1>1, <1>7 DEF Distinct
<1> QED
  BY <1>5, <1>6, <1>8 DEF c

LEMMA IdsOfTail ==
    ASSUME NEW s \in Seq(Messages), s # <<>>, NEW K, Distinct(s, K)
    PROVE  /\ Distinct(Tail(s), K)
           /\ Head(s).type \in K => Head(s).id \in IdsOf(s, K) /\ IdsOf(Tail(s), K) = IdsOf(s, K) \ {Head(s).id}
           /\ Head(s).type \notin K => IdsOf(Tail(s), K) = IdsOf(s, K)
<1> DEFINE z == Tail(s)
<1>1. /\ DOMAIN s = 1..Len(s) /\ Len(s) \in Nat \ {0} /\ Head(s) = s[1]
      /\ DOMAIN z = 1..(Len(s) - 1)
      /\ \A k \in 1..(Len(s) - 1) : z[k] = s[k + 1]
  OBVIOUS
<1> HIDE DEF z
<1>2. 1 \in 1..Len(s) /\ \A k \in 1..(Len(s) - 1) : k + 1 \in 1..Len(s) /\ k + 1 # 1
  BY <1>1
<1>3. \A k \in 1..Len(s) : k # 1 => k - 1 \in 1..(Len(s) - 1) /\ (k - 1) + 1 = k
  BY <1>1
<1>4. ASSUME NEW j \in 1..(Len(s) - 1), NEW k \in 1..(Len(s) - 1),
             z[j].type \in K, z[k].type \in K, z[j].id = z[k].id
      PROVE  j = k
  <2>1. j + 1 = k + 1
    BY <1>1, <1>2, <1>4 DEF Distinct
  <2> QED
    BY <2>1
<1>5. Distinct(z, K)
  BY <1>1, <1>4 DEF Distinct
<1>6. ASSUME NEW x \in IdsOf(z, K)
      PROVE  x \in IdsOf(s, K) /\ (Head(s).type \in K => x # Head(s).id)
  <2>1. PICK k \in 1..(Len(s) - 1) : z[k].type \in K /\ x = z[k].id
    BY <1>1, <1>6 DEF IdsOf
  <2>2. k + 1 \in 1..Len(s) /\ k + 1 # 1 /\ s[k + 1].type \in K /\ x = s[k + 1].id
    BY <1>1, <1>2, <2>1
  <2>3. x \in IdsOf(s, K)
    BY <1>1, <2>2 DEF IdsOf
  <2> QED
    BY <1>1, <1>2, <2>2, <2>3 DEF Distinct
<1>7. ASSUME NEW x \in IdsOf(s, K), Head(s).type \in K => x # Head(s).id
      PROVE  x \in IdsOf(z, K)
  <2>1. PICK k \in 1..Len(s) : s[k].type \in K /\ x = s[k].id
    BY <1>1, <1>7 DEF IdsOf
  <2>2. k # 1
    BY <1>1, <1>7, <2>1
  <2>3. k - 1 \in 1..(Len(s) - 1) /\ z[k - 1] = s[k]
    BY <1>1, <1>3, <2>2
  <2> QED
    BY <1>1, <2>1, <2>3 DEF IdsOf
<1>8. Head(s).type \in K => Head(s).id \in IdsOf(s, K)
  BY <1>1, <1>2 DEF IdsOf
<1> QED
  BY <1>5, <1>6, <1>7, <1>8 DEF z

LEMMA IdsOfFew ==
    /\ \A K : IdsOf(<<>>, K) = {} /\ Distinct(<<>>, K)
    /\ \A m, K : m.type \in K => IdsOf(<<m>>, K) = {m.id}
    /\ \A m, K : m.type \notin K => IdsOf(<<m>>, K) = {}
    /\ \A m, K : Distinct(<<m>>, K)
BY DEF IdsOf, Distinct

LEMMA IdsOfCalls ==
    ASSUME NEW ids \in Seq(Ids)
    PROVE  /\ IdsOf(CallsOf(ids), CallKind) = {ids[k] : k \in DOMAIN ids}
           /\ IdsOf(CallsOf(ids), ReplyKind) = {} /\ Distinct(CallsOf(ids), ReplyKind)
           /\ (\A j, k \in DOMAIN ids : ids[j] = ids[k] => j = k) => Distinct(CallsOf(ids), CallKind)
<1> DEFINE z == CallsOf(ids)
<1>1. DOMAIN z = DOMAIN ids /\ \A k \in DOMAIN ids : z[k].type = "call" /\ z[k].id = ids[k]
  BY DEF CallsOf, Message
<1> HIDE DEF z
<1>2. IdsOf(z, CallKind) = {ids[k] : k \in DOMAIN ids} /\ IdsOf(z, ReplyKind) = {}
  BY <1>1 DEF IdsOf, CallKind, ReplyKind
<1>3. /\ Distinct(z, ReplyKind)
      /\ (\A j, k \in DOMAIN ids : ids[j] = ids[k] => j = k) => Distinct(z, CallKind)
  BY <1>1 DEF Distinct, CallKind, ReplyKind
<1> QED
  BY <1>2, <1>3 DEF z

-----------------------------------------------------------------------------
(***************************************************************************)
(* The steps, each seen by both callers.                                   *)
(***************************************************************************)
LEMMA TwoEnds ==
    ASSUME NEW e \in Ends
    PROVE  /\ Peer(e) \in Ends /\ Peer(e) # e /\ Peer(Peer(e)) = e
           /\ \A d \in Ends : d = e \/ d = Peer(e)
BY DEF Peer, Ends

LEMMA DistinctInboxes ==
    ASSUME ProtocolInv, NEW e \in Ends
    PROVE  /\ inbox[e] \in Seq(Messages) /\ chained[e] \in Seq(Ids)
           /\ Distinct(inbox[e], CallKind) /\ Distinct(inbox[e], ReplyKind)
           /\ OpenInv(e) /\ TimerInv(e) /\ PlacesInv(e)
<1>1. OpenInv(e) /\ OpenInv(Peer(e)) /\ Peer(Peer(e)) = e
  BY TwoEnds DEF ProtocolInv
<1>2. Distinct(inbox[Peer(Peer(e))], CallKind) /\ Distinct(inbox[e], ReplyKind)
  BY <1>1 DEF OpenInv
<1> QED
  BY <1>1, <1>2 DEF ProtocolInv, RPCInv, RPCTypeOK

\* A message that nobody counts, or that is no longer there, disturbs no caller.
LEMMA OpenKept ==
    ASSUME ProtocolInv, NEW d \in Ends,
           Distinct(inbox'[Peer(d)], CallKind), Distinct(inbox'[d], ReplyKind),
           Unread(d)' \subseteq Unread(d), Executed(d)' \subseteq Executed(d),
           Replied(d)' \subseteq Replied(d),
           chained'[d] = chained[d], requestID'[d] = requestID[d],
           \A i \in Unread(d)' \cup Executed(d)' \cup Replied(d)' :
              i \in pending[d] \/ timer[d][i] = "fired" => i \in pending'[d] \/ timer'[d][i] = "fired"
    PROVE  OpenInv(d)'
<1>1. OpenInv(d)
  BY DEF ProtocolInv
<1>2. Waiting(d)' = Waiting(d)
  BY DEF Waiting
<1>3. \A i \in Unread(d)' \cup Executed(d)' \cup Replied(d)' :
         i \in Unread(d) \cup Executed(d) \cup Replied(d)
  OBVIOUS
<1>4. /\ Unread(d)' \cap Executed(d)' = {}
      /\ (Unread(d)' \cup Executed(d)') \cap Replied(d)' = {}
  BY <1>1 DEF OpenInv
<1>5. \A i \in Unread(d)' \cup Executed(d)' \cup Replied(d)' :
         /\ i < requestID'[d] /\ i \notin Waiting(d)'
         /\ i \in pending'[d] \/ timer'[d][i] = "fired"
  BY <1>1, <1>2, <1>3 DEF OpenInv
<1> QED
  BY <1>1, <1>4, <1>5 DEF OpenInv

\* Reading a message takes it from the inbox.
LEMMA InboxRead ==
    ASSUME ProtocolInv, NEW e \in Ends, Incoming(e) # {}, inbox'[e] = Tail(inbox[e]), NEW K,
           Distinct(inbox[e], K)
    PROVE  /\ state[e] # "lost" /\ Incoming(e) = {Head(inbox[e])} /\ Head(inbox[e]) \in Messages
           /\ Distinct(inbox'[e], K)
           /\ IdsOf(inbox'[e], K) \subseteq IdsOf(inbox[e], K)
           /\ Head(inbox[e]).type \in K =>
                 /\ Head(inbox[e]).id \in IdsOf(inbox[e], K)
                 /\ IdsOf(inbox'[e], K) = IdsOf(inbox[e], K) \ {Head(inbox[e]).id}
           /\ Head(inbox[e]).type \notin K => IdsOf(inbox'[e], K) = IdsOf(inbox[e], K)
<1>1. inbox[e] \in Seq(Messages) /\ inbox[e] # <<>> /\ state[e] # "lost" /\ Incoming(e) = {Head(inbox[e])}
  BY DistinctInboxes DEF Incoming
<1>2. Head(inbox[e]) \in Messages
  BY <1>1
<1>3. /\ Distinct(Tail(inbox[e]), K)
      /\ Head(inbox[e]).type \in K => /\ Head(inbox[e]).id \in IdsOf(inbox[e], K)
                                      /\ IdsOf(Tail(inbox[e]), K) = IdsOf(inbox[e], K) \ {Head(inbox[e]).id}
      /\ Head(inbox[e]).type \notin K => IdsOf(Tail(inbox[e]), K) = IdsOf(inbox[e], K)
  BY <1>1, IdsOfTail
<1> QED
  BY <1>1, <1>2, <1>3

\* Sending messages adds theirs, unless the receiver is gone.
LEMMA InboxSent ==
    ASSUME ProtocolInv, NEW p \in Ends, NEW z \in Seq(Messages),
           inbox'[p] = inbox[p] \o Delivered(p, z), NEW K, Distinct(inbox[p], K), Distinct(z, K)
    PROVE  /\ IdsOf(inbox'[p], K) \subseteq IdsOf(inbox[p], K) \cup IdsOf(z, K)
           /\ IdsOf(inbox[p], K) \cap IdsOf(z, K) = {} => Distinct(inbox'[p], K)
<1>1. inbox[p] \in Seq(Messages)
  BY DistinctInboxes
<1>2. CASE state[p] = "lost"
  <2>1. inbox'[p] = inbox[p]
    BY <1>1, <1>2 DEF Delivered
  <2> QED
    BY <2>1
<1>3. CASE state[p] # "lost"
  <2>1. inbox'[p] = inbox[p] \o z
    BY <1>3 DEF Delivered
  <2> QED
    BY <1>1, <2>1, IdsOfConcat
<1> QED
  BY <1>2, <1>3

\* An inbox that has messages keeps its first one when others are sent.
LEMMA HeadKept ==
    ASSUME ProtocolInv, NEW p \in Ends, NEW z \in Seq(Messages),
           inbox'[p] = inbox[p] \o Delivered(p, z), inbox[p] # <<>>
    PROVE  inbox'[p] # <<>> /\ Head(inbox'[p]) = Head(inbox[p])
<1>1. inbox[p] \in Seq(Messages) /\ Delivered(p, z) \in Seq(Messages)
  BY DistinctInboxes DEF Delivered
<1>2. Len(inbox[p]) \in Nat \ {0} /\ Len(Delivered(p, z)) \in Nat
  BY <1>1
<1>3. inbox'[p] \in Seq(Messages) /\ Len(inbox'[p]) > 0 /\ inbox'[p][1] = inbox[p][1]
  BY <1>1, <1>2
<1>4. inbox'[p] # <<>>
  BY <1>3
<1> QED
  BY <1>1, <1>3, <1>4

LEMMA CallOpen ==
    ASSUME ProtocolInv, RPCInv', NEW e \in Ends, Call(e)
    PROVE  ProtocolInv'
<1> DEFINE i == requestID[e]
           p == Peer(e)
<1>1. p \in Ends /\ p # e /\ Peer(p) = e /\ \A d \in Ends : d = e \/ d = p
  BY TwoEnds
<1>2. /\ RPCTypeOK /\ OpenInv(e) /\ TimerInv(e) /\ PlacesInv(e) /\ TimerInv(p)
      /\ Distinct(inbox[e], CallKind) /\ Distinct(inbox[e], ReplyKind)
      /\ Distinct(inbox[p], CallKind) /\ Distinct(inbox[p], ReplyKind)
  BY <1>1, DistinctInboxes DEF ProtocolInv, RPCInv
<1>3. i \in Ids /\ i \in Nat /\ requestID[e] = i
  BY <1>2, IdFacts, RPCAssumption DEF Call, RPCTypeOK
<1>4. /\ timer' = [timer EXCEPT ![e][i] = "armed"]
      /\ requestID' = [requestID EXCEPT ![e] = i + 1]
      /\ UNCHANGED <<state, fired, executing, closing>> /\ state[e] # "lost"
  BY DEF Call
<1> DEFINE sends == /\ pending' = [pending EXCEPT ![e] = @ \cup {i}]
                    /\ inbox' = [inbox EXCEPT ![p] = @ \o Delivered(p, <<Message("call", i)>>)]
                    /\ UNCHANGED chained /\ state[e] = "established"
           waits == chained' = [chained EXCEPT ![e] = Append(@, i)] /\ UNCHANGED <<pending, inbox>>
<1>5. sends \/ waits
  BY DEF Call
<1> HIDE DEF i, p
<1>6. /\ requestID'[e] = i + 1 /\ requestID'[p] = requestID[p] /\ timer'[p] = timer[p]
      /\ \A j \in Ids : timer'[e][j] = IF j = i THEN "armed" ELSE timer[e][j]
  BY <1>1, <1>2, <1>3, <1>4 DEF RPCTypeOK
<1>7. /\ pending[e] \subseteq Ids /\ Waiting(e) \subseteq Ids
      /\ \A j \in pending[e] \cup Waiting(e) : j # i
  BY <1>2, <1>3, IdFacts DEF RPCTypeOK, Waiting, PlacesInv
<1>8. Unread(e) \cup Executed(e) \cup Replied(e) \subseteq Ids
  <2>1. Executed(e) \subseteq Ids
    BY <1>1, <1>2 DEF Executed, RPCTypeOK, p
  <2>2. ASSUME NEW m \in Messages, m.type \in CallKind \cup ReplyKind PROVE m.id \in Ids
    BY <2>2 DEF Messages, CallKind, ReplyKind
  <2>3. \A s \in Seq(Messages) : \A k \in DOMAIN s : s[k] \in Messages
    OBVIOUS
  <2>4. Unread(e) \subseteq Ids /\ Replied(e) \subseteq Ids
    BY <1>1, <1>2, <2>2, <2>3 DEF Unread, Replied, IdsOf, RPCTypeOK, p
  <2> QED
    BY <2>1, <2>4
<1>9. ASSUME NEW j \in Unread(e) \cup Executed(e) \cup Replied(e) PROVE j # i /\ j < i + 1
  <2>1. j < requestID[e]
    BY <1>2 DEF OpenInv
  <2>2. j \in Int
    BY <1>8, IdFacts
  <2> QED
    BY <1>3, <2>1, <2>2
<1>10. /\ inbox'[e] = inbox[e]
       /\ Distinct(inbox'[p], CallKind) /\ Distinct(inbox'[p], ReplyKind)
       /\ IdsOf(inbox'[p], ReplyKind) \subseteq IdsOf(inbox[p], ReplyKind)
       /\ Unread(e)' \subseteq Unread(e) \/ (sends /\ Unread(e)' \subseteq Unread(e) \cup {i})
  <2>1. CASE sends
    <3> DEFINE z == <<Message("call", i)>>
    <3>1. z \in Seq(Messages)
      BY <1>3, MessageFacts
    <3>2. /\ IdsOf(z, CallKind) = {i} /\ Distinct(z, CallKind)
          /\ IdsOf(z, ReplyKind) = {} /\ Distinct(z, ReplyKind)
      BY IdsOfFew DEF Message, CallKind, ReplyKind
    <3>3. inbox'[e] = inbox[e] /\ inbox'[p] = inbox[p] \o Delivered(p, z)
      BY <1>1, <1>2, <2>1 DEF RPCTypeOK
    <3> HIDE DEF z
    <3>4. IdsOf(inbox[p], CallKind) \cap {i} = {}
      BY <1>9 DEF Unread, p
    <3>5. /\ IdsOf(inbox'[p], CallKind) \subseteq IdsOf(inbox[p], CallKind) \cup {i}
          /\ Distinct(inbox'[p], CallKind)
      BY <1>1, <1>2, <3>1, <3>2, <3>3, <3>4, InboxSent
    <3>6. /\ IdsOf(inbox'[p], ReplyKind) \subseteq IdsOf(inbox[p], ReplyKind)
          /\ Distinct(inbox'[p], ReplyKind)
      BY <1>1, <1>2, <3>1, <3>2, <3>3, InboxSent
    <3> QED
      BY <2>1, <3>3, <3>5, <3>6 DEF Unread, p
  <2>2. CASE waits
    BY <1>2, <2>2 DEF Unread
  <2> QED
    BY <1>5, <2>1, <2>2
<1>11. OpenInv(p)'
  <2>1. /\ Unread(p)' = Unread(p) /\ Executed(p)' = Executed(p) /\ Replied(p)' \subseteq Replied(p)
    BY <1>1, <1>4, <1>10 DEF Unread, Executed, Replied
  <2>2. chained'[p] = chained[p] /\ pending'[p] = pending[p]
    BY <1>1, <1>2, <1>5 DEF RPCTypeOK
  <2> QED
    BY <1>1, <1>2, <1>6, <1>10, <2>1, <2>2, OpenKept
<1>12. /\ Executed(e)' = Executed(e) /\ Replied(e)' = Replied(e)
  BY <1>4, <1>10 DEF Executed, Replied
<1>13. OpenInv(e)' /\ TimerInv(e)'
  <2>1. CASE sends
    <3>1. /\ Waiting(e)' = Waiting(e) /\ chained'[e] = chained[e] /\ pending'[e] = pending[e] \cup {i}
      BY <1>1, <1>2, <2>1 DEF Waiting, RPCTypeOK
    <3>2. Unread(e)' \subseteq Unread(e) \cup {i}
      BY <1>10
    <3>3. /\ Unread(e)' \cap Executed(e)' = {}
          /\ (Unread(e)' \cup Executed(e)') \cap Replied(e)' = {}
      BY <1>2, <1>9, <1>12, <3>2 DEF OpenInv
    <3>4. ASSUME NEW j \in Unread(e)' \cup Executed(e)' \cup Replied(e)'
          PROVE  /\ j < requestID'[e] /\ j \notin Waiting(e)'
                 /\ j \in pending'[e] \/ timer'[e][j] = "fired"
      <4>1. CASE j = i
        BY <1>3, <1>6, <1>7, <3>1, <4>1
      <4>2. CASE j # i
        <5>1. j \in Unread(e) \cup Executed(e) \cup Replied(e) /\ j \in Ids
          BY <1>8, <1>12, <3>2, <3>4, <4>2
        <5> QED
          BY <1>2, <1>6, <1>9, <3>1, <4>2, <5>1 DEF OpenInv
      <4> QED
        BY <4>1, <4>2
    <3>5. OpenInv(e)'
      BY <1>2, <1>10, <3>1, <3>3, <3>4 DEF OpenInv, p
    <3>6. TimerInv(e)'
      BY <1>2, <1>3, <1>4, <1>6, <1>7, <3>1, IdFacts DEF TimerInv
    <3> QED
      BY <3>5, <3>6
  <2>2. CASE waits
    <3> DEFINE c == chained[e]
    <3>1. c \in Seq(Ids) /\ chained'[e] = Append(c, i) /\ pending'[e] = pending[e]
      BY <1>2, <2>2 DEF RPCTypeOK
    <3>2. /\ DOMAIN c = 1..Len(c) /\ Len(c) \in Nat
          /\ DOMAIN Append(c, i) = 1..(Len(c) + 1)
          /\ \A k \in 1..Len(c) : Append(c, i)[k] = c[k]
          /\ Append(c, i)[Len(c) + 1] = i
      BY <1>3, <3>1
    <3>3. Waiting(e) = {c[k] : k \in 1..Len(c)} /\ Waiting(e)' = {Append(c, i)[k] : k \in 1..(Len(c) + 1)}
      BY <3>1, <3>2 DEF Waiting
    <3> HIDE DEF c
    <3>4. Waiting(e)' = Waiting(e) \cup {i}
      BY <3>2, <3>3
    <3>5. \A k \in 1..Len(c) : c[k] # i
      BY <1>7, <3>3
    <3>6. \A j, k \in 1..Len(c) : c[j] = c[k] => j = k
      BY <1>2, <3>2 DEF OpenInv, c
    <3>7. ASSUME NEW j \in 1..(Len(c) + 1), NEW k \in 1..(Len(c) + 1), Append(c, i)[j] = Append(c, i)[k]
          PROVE  j = k
      <4>1. (j \in 1..Len(c) \/ j = Len(c) + 1) /\ (k \in 1..Len(c) \/ k = Len(c) + 1)
        BY <3>2
      <4> QED
        BY <3>2, <3>5, <3>6, <3>7, <4>1
    <3>8. Unread(e)' \subseteq Unread(e)
      BY <2>2 DEF Unread
    <3>9. /\ Unread(e)' \cap Executed(e)' = {}
          /\ (Unread(e)' \cup Executed(e)') \cap Replied(e)' = {}
      BY <1>2, <1>12, <3>8 DEF OpenInv
    <3>10. ASSUME NEW j \in Unread(e)' \cup Executed(e)' \cup Replied(e)'
           PROVE  /\ j < requestID'[e] /\ j \notin Waiting(e)'
                  /\ j \in pending'[e] \/ timer'[e][j] = "fired"
      <4>1. j \in Unread(e) \cup Executed(e) \cup Replied(e) /\ j \in Ids
        BY <1>8, <1>12, <3>8
      <4> QED
        BY <1>2, <1>6, <1>9, <3>1, <3>4, <4>1 DEF OpenInv
    <3>11. OpenInv(e)'
      BY <1>2, <1>10, <3>1, <3>2, <3>7, <3>9, <3>10 DEF OpenInv, p
    <3>12. TimerInv(e)'
      BY <1>2, <1>3, <1>4, <1>6, <1>7, <3>1, <3>4, IdFacts DEF TimerInv
    <3> QED
      BY <3>11, <3>12
  <2> QED
    BY <1>5, <2>1, <2>2
<1>14. TimerInv(p)'
  <2>1. Waiting(p)' = Waiting(p) /\ pending'[p] = pending[p]
    BY <1>1, <1>2, <1>5 DEF RPCTypeOK, Waiting
  <2> QED
    BY <1>2, <1>4, <1>6, <2>1 DEF TimerInv
<1>15. HandshakeInv'
  <2>1. CASE sends
    <3> DEFINE z == <<Message("call", i)>>
    <3>1. z \in Seq(Messages)
      BY <1>3, MessageFacts
    <3>2. inbox'[e] = inbox[e] /\ inbox'[p] = inbox[p] \o Delivered(p, z) /\ state[e] = "established"
      BY <1>1, <1>2, <2>1 DEF RPCTypeOK
    <3> HIDE DEF z
    <3>3. inbox[p] # <<>> => inbox'[p] # <<>> /\ Head(inbox'[p]) = Head(inbox[p])
      BY <1>1, <3>1, <3>2, HeadKept
    <3>4. HandshakeInv
      BY DEF ProtocolInv
    <3>5. CASE e = "client" /\ p = "server"
      BY <1>4, <3>2, <3>4, <3>5 DEF HandshakeInv
    <3>6. CASE e = "server" /\ p = "client"
      BY <1>4, <3>2, <3>3, <3>4, <3>6 DEF HandshakeInv
    <3> QED
      BY <1>1, <3>5, <3>6 DEF Ends
  <2>2. CASE waits
    BY <1>4, <2>2 DEF ProtocolInv, HandshakeInv
  <2> QED
    BY <1>5, <2>1, <2>2
<1>16. ClosedOnlyAfterTimeout'
  <2>1. timer[e][i] = "unset"
    BY <1>2, <1>3 DEF TimerInv
  <2>2. ASSUME NEW d \in closing' PROVE \E j \in Ids : timer'[d][j] = "fired"
    <3>1. d \in Ends /\ d \in closing
      BY <1>2, <1>4, <2>2 DEF RPCTypeOK
    <3>2. PICK j \in Ids : timer[d][j] = "fired"
      BY <3>1 DEF ProtocolInv, ClosedOnlyAfterTimeout
    <3> QED
      BY <1>1, <1>6, <2>1, <3>1, <3>2
  <2> QED
    BY <2>2 DEF ClosedOnlyAfterTimeout
<1> QED
  BY <1>1, <1>11, <1>13, <1>14, <1>15, <1>16 DEF ProtocolInv

\* Steps that leave what the ends know of their own calls alone.
LEMMA TimersKept ==
    ASSUME ProtocolInv, UNCHANGED <<state, requestID, chained, pending, timer>>, NEW d \in Ends
    PROVE  TimerInv(d)'
<1>1. TimerInv(d) /\ Waiting(d)' = Waiting(d)
  BY DEF ProtocolInv, Waiting
<1> QED
  BY <1>1 DEF TimerInv

\* A handshake is received, and the calls that waited for `ready' are sent.
LEMMA EstablishOpen ==
    ASSUME ProtocolInv, RPCInv', NEW e \in Ends, ReceiveHello(e) \/ ReceiveHelloAck(e)
    PROVE  ProtocolInv'
<1> DEFINE p == Peer(e)
           ack == IF state[e] = "connected" THEN <<Handshake("hello_ack")>> ELSE <<>>
           calls == CallsOf(chained[e])
           z == ack \o calls
<1>1. p \in Ends /\ p # e /\ Peer(p) = e /\ \A d \in Ends : d = e \/ d = p
  BY TwoEnds
<1>2. /\ RPCTypeOK /\ OpenInv(e) /\ TimerInv(e) /\ PlacesInv(e) /\ TimerInv(p) /\ chained[e] \in Seq(Ids)
      /\ Distinct(inbox[e], CallKind) /\ Distinct(inbox[e], ReplyKind)
      /\ Distinct(inbox[p], CallKind) /\ Distinct(inbox[p], ReplyKind) /\ HandshakeInv
  BY <1>1, DistinctInboxes DEF ProtocolInv, RPCInv
<1>3. /\ state' = [state EXCEPT ![e] = "established"]
      /\ pending' = [pending EXCEPT ![e] = @ \cup Waiting(e)]
      /\ chained' = [chained EXCEPT ![e] = <<>>]
      /\ inbox' = [inbox EXCEPT ![e] = Tail(@), ![p] = @ \o Delivered(p, z)]
      /\ UNCHANGED <<requestID, timer, fired, executing, closing>>
      /\ state[e] \in {"connected", "sent_hello"}
      /\ Incoming(e) \in {{Handshake("hello")}, {Handshake("hello_ack")}}
      /\ state[e] = "connected" => Incoming(e) = {Handshake("hello")}
      /\ state[e] = "sent_hello" => Incoming(e) = {Handshake("hello_ack")}
  BY DEF ReceiveHello, ReceiveHelloAck, Establish, Waiting
<1>4. ack \in Seq(Messages) /\ calls \in Seq(Messages)
  BY <1>2, MessageFacts, CallsOfType
<1>5. \A K \in {CallKind, ReplyKind} : IdsOf(ack, K) = {} /\ Distinct(ack, K)
  BY IdsOfFew DEF Handshake, Message, CallKind, ReplyKind
<1>6. /\ IdsOf(calls, CallKind) = Waiting(e) /\ Distinct(calls, CallKind)
      /\ IdsOf(calls, ReplyKind) = {} /\ Distinct(calls, ReplyKind)
  BY <1>2, IdsOfCalls DEF Waiting, OpenInv
<1>7. state[e] = "connected" => ack # <<>> /\ Head(ack) = Handshake("hello_ack")
  OBVIOUS
<1> HIDE DEF ack, calls
<1>8. z \in Seq(Messages) /\ (state[e] = "connected" => z # <<>> /\ Head(z) = Handshake("hello_ack"))
  <2>1. ASSUME ack # <<>> PROVE z # <<>> /\ Head(z) = Head(ack)
    <3>1. Len(ack) \in Nat \ {0} /\ Len(calls) \in Nat
      BY <1>4, <2>1
    <3>2. z \in Seq(Messages) /\ Len(z) > 0 /\ z[1] = ack[1]
      BY <1>4, <3>1
    <3> QED
      BY <1>4, <2>1, <3>2
  <2> QED
    BY <1>4, <1>7, <2>1
<1>9. /\ IdsOf(z, CallKind) = Waiting(e) /\ Distinct(z, CallKind)
      /\ IdsOf(z, ReplyKind) = {} /\ Distinct(z, ReplyKind)
  <2>1. \A K \in {CallKind, ReplyKind} :
           /\ IdsOf(z, K) = IdsOf(ack, K) \cup IdsOf(calls, K)
           /\ /\ Distinct(ack, K) /\ Distinct(calls, K) /\ IdsOf(ack, K) \cap IdsOf(calls, K) = {}
              => Distinct(z, K)
    BY <1>4, IdsOfConcat
  <2> HIDE DEF z
  <2>2. IdsOf(ack, CallKind) = {} /\ Distinct(ack, CallKind) /\ IdsOf(ack, ReplyKind) = {} /\ Distinct(ack, ReplyKind)
    BY <1>5
  <2>3. IdsOf(z, CallKind) = Waiting(e) /\ Distinct(z, CallKind)
    BY <1>6, <2>1, <2>2
  <2>4. IdsOf(z, ReplyKind) = {} /\ Distinct(z, ReplyKind)
    BY <1>6, <2>1, <2>2
  <2> QED
    BY <2>3, <2>4
<1> HIDE DEF p, z
<1>10. inbox'[e] = Tail(inbox[e]) /\ inbox'[p] = inbox[p] \o Delivered(p, z)
  BY <1>1, <1>2, <1>3 DEF RPCTypeOK
<1>11. /\ Incoming(e) # {} /\ Incoming(e) = {Head(inbox[e])}
       /\ Head(inbox[e]).type \notin CallKind /\ Head(inbox[e]).type \notin ReplyKind
  <2>1. Incoming(e) = {Head(inbox[e])}
    BY <1>3 DEF Incoming
  <2>2. Head(inbox[e]) \in {Handshake("hello"), Handshake("hello_ack")}
    BY <1>3, <2>1
  <2> QED
    BY <2>1, <2>2 DEF Handshake, Message, CallKind, ReplyKind
<1>12. /\ Distinct(inbox'[e], CallKind) /\ IdsOf(inbox'[e], CallKind) = IdsOf(inbox[e], CallKind)
       /\ Distinct(inbox'[e], ReplyKind) /\ IdsOf(inbox'[e], ReplyKind) = IdsOf(inbox[e], ReplyKind)
  BY <1>2, <1>10, <1>11, InboxRead
<1>13. IdsOf(inbox[p], CallKind) \cap Waiting(e) = {}
  BY <1>2 DEF OpenInv, Unread, p
<1>14. /\ Distinct(inbox'[p], CallKind)
       /\ IdsOf(inbox'[p], CallKind) \subseteq IdsOf(inbox[p], CallKind) \cup Waiting(e)
  BY <1>1, <1>2, <1>8, <1>9, <1>10, <1>13, InboxSent
<1>15. Distinct(inbox'[p], ReplyKind) /\ IdsOf(inbox'[p], ReplyKind) \subseteq IdsOf(inbox[p], ReplyKind)
  BY <1>1, <1>2, <1>8, <1>9, <1>10, InboxSent
<1>16. /\ chained'[p] = chained[p] /\ pending'[p] = pending[p] /\ state'[p] = state[p]
       /\ chained'[e] = <<>> /\ pending'[e] = pending[e] \cup Waiting(e) /\ state'[e] = "established"
  BY <1>1, <1>2, <1>3 DEF RPCTypeOK
<1>17. Waiting(e)' = {} /\ Waiting(p)' = Waiting(p)
  BY <1>16 DEF Waiting
<1>18. OpenInv(p)'
  <2>1. Unread(p)' = Unread(p) /\ Executed(p)' = Executed(p) /\ Replied(p)' \subseteq Replied(p)
    BY <1>1, <1>3, <1>12, <1>15 DEF Unread, Executed, Replied
  <2> QED
    BY <1>1, <1>3, <1>12, <1>15, <1>16, <2>1, OpenKept
<1>19. OpenInv(e)'
  <2>1. /\ Unread(e)' \subseteq Unread(e) \cup Waiting(e) /\ Executed(e)' = Executed(e)
        /\ Replied(e)' = Replied(e)
    BY <1>3, <1>12, <1>14 DEF Unread, Executed, Replied, p
  <2>2. /\ Unread(e)' \cap Executed(e)' = {}
        /\ (Unread(e)' \cup Executed(e)') \cap Replied(e)' = {}
    BY <1>2, <2>1 DEF OpenInv
  <2>3. ASSUME NEW j \in Unread(e)' \cup Executed(e)' \cup Replied(e)'
        PROVE  /\ j < requestID'[e] /\ j \notin Waiting(e)'
               /\ j \in pending'[e] \/ timer'[e][j] = "fired"
    <3>1. CASE j \in Waiting(e)
      BY <1>2, <1>3, <1>16, <1>17, <3>1 DEF PlacesInv
    <3>2. CASE j \notin Waiting(e)
      BY <1>2, <1>3, <1>16, <1>17, <2>1, <2>3, <3>2 DEF OpenInv
    <3> QED
      BY <3>1, <3>2
  <2>4. DOMAIN chained'[e] = {}
    BY <1>16
  <2> QED
    BY <1>12, <1>14, <2>2, <2>3, <2>4 DEF OpenInv, p
<1>20. TimerInv(e)' /\ TimerInv(p)'
  BY <1>2, <1>3, <1>16, <1>17 DEF TimerInv
<1>21. HandshakeInv'
  <2>1. CASE e = "server" /\ p = "client"
    <3>1. state[e] = "connected" /\ inbox[p] = <<>>
      BY <1>2, <1>3, <2>1 DEF HandshakeInv
    <3>2. state[p] = "sent_hello" => inbox'[p] = z
      BY <1>8, <1>10, <3>1 DEF Delivered
    <3>3. state[p] = "sent_hello" => inbox'[p] # <<>> /\ Head(inbox'[p]) = Handshake("hello_ack")
      BY <1>8, <3>1, <3>2
    <3> QED
      BY <1>2, <1>3, <1>16, <2>1, <3>3 DEF HandshakeInv
  <2>2. CASE e = "client" /\ p = "server"
    <3>1. inbox[e] # <<>>
      BY <1>11 DEF Incoming
    <3>2. state[p] # "connected" /\ state[p] # "sent_hello"
      BY <1>2, <2>2, <3>1 DEF HandshakeInv
    <3> QED
      BY <1>16, <2>2, <3>2 DEF HandshakeInv
  <2> QED
    BY <1>1, <2>1, <2>2 DEF Ends
<1>22. ClosedOnlyAfterTimeout'
  BY <1>3 DEF ProtocolInv, ClosedOnlyAfterTimeout
<1> QED
  BY <1>1, <1>18, <1>19, <1>20, <1>21, <1>22 DEF ProtocolInv

\* After the handshake the first message of the inbox is of no matter to it.
LEMMA HandshakeRead ==
    ASSUME ProtocolInv, NEW e \in Ends, state[e] = "established", inbox'[Peer(e)] = inbox[Peer(e)],
           executing'[Peer(e)] = executing[Peer(e)], UNCHANGED state
    PROVE  HandshakeInv'
<1>1. HandshakeInv
  BY DEF ProtocolInv
<1>2. CASE e = "client" /\ Peer(e) = "server"
  BY <1>1, <1>2 DEF HandshakeInv
<1>3. CASE e = "server" /\ Peer(e) = "client"
  BY <1>1, <1>3 DEF HandshakeInv
<1> QED
  BY <1>2, <1>3 DEF Ends, Peer

LEMMA ReceiveCallOpen ==
    ASSUME ProtocolInv, RPCInv', NEW e \in Ends, ReceiveCall(e)
    PROVE  ProtocolInv'
<1> DEFINE p == Peer(e)
           i == Head(inbox[e]).id
<1>1. p \in Ends /\ p # e /\ Peer(p) = e /\ \A d \in Ends : d = e \/ d = p
  BY TwoEnds
<1>2. /\ RPCTypeOK /\ OpenInv(p)
      /\ Distinct(inbox[e], CallKind) /\ Distinct(inbox[e], ReplyKind)
      /\ Distinct(inbox[p], CallKind) /\ Distinct(inbox[p], ReplyKind)
  BY <1>1, DistinctInboxes DEF ProtocolInv, RPCInv
<1>3. /\ state[e] = "established" /\ Incoming(e) # {} /\ inbox' = [inbox EXCEPT ![e] = Tail(@)]
      /\ UNCHANGED <<state, requestID, chained, pending, timer, fired, closing>>
  BY DEF ReceiveCall
<1>4. inbox'[e] = Tail(inbox[e]) /\ inbox'[p] = inbox[p]
  BY <1>1, <1>2, <1>3 DEF RPCTypeOK
<1>5. Incoming(e) = {Head(inbox[e])}
  BY <1>2, <1>3, <1>4, InboxRead
<1>6. Head(inbox[e]).type = "call" /\ executing' = [executing EXCEPT ![e] = @ \cup {i}]
  BY <1>5 DEF ReceiveCall
<1>7. executing'[e] = executing[e] \cup {i} /\ executing'[p] = executing[p]
  BY <1>1, <1>2, <1>6 DEF RPCTypeOK
<1>8. Head(inbox[e]).type \in CallKind /\ Head(inbox[e]).type \notin ReplyKind
  BY <1>6 DEF CallKind, ReplyKind
<1>9. /\ Distinct(inbox'[e], CallKind) /\ i \in IdsOf(inbox[e], CallKind)
      /\ IdsOf(inbox'[e], CallKind) = IdsOf(inbox[e], CallKind) \ {i}
  BY <1>2, <1>3, <1>4, <1>8, InboxRead
<1>10. Distinct(inbox'[e], ReplyKind) /\ IdsOf(inbox'[e], ReplyKind) = IdsOf(inbox[e], ReplyKind)
  BY <1>2, <1>3, <1>4, <1>8, InboxRead
<1> HIDE DEF p, i
<1>11. OpenInv(e)'
  <2>1. Unread(e)' = Unread(e) /\ Executed(e)' = Executed(e) /\ Replied(e)' = Replied(e)
    BY <1>4, <1>7, <1>10 DEF Unread, Executed, Replied, p
  <2> QED
    BY <1>2, <1>3, <1>4, <1>10, <2>1, OpenKept DEF p
<1>12. OpenInv(p)'
  <2>1. /\ Unread(p)' = Unread(p) \ {i} /\ Executed(p)' = Executed(p) \cup {i}
        /\ Replied(p)' = Replied(p) /\ i \in Unread(p)
    BY <1>1, <1>4, <1>7, <1>9 DEF Unread, Executed, Replied
  <2>2. Waiting(p)' = Waiting(p)
    BY <1>3 DEF Waiting
  <2>3. /\ Unread(p)' \cap Executed(p)' = {}
        /\ (Unread(p)' \cup Executed(p)') \cap Replied(p)' = {}
    BY <1>2, <2>1 DEF OpenInv
  <2>4. \A j \in Unread(p)' \cup Executed(p)' \cup Replied(p)' :
           j \in Unread(p) \cup Executed(p) \cup Replied(p)
    BY <2>1
  <2>5. \A j \in Unread(p)' \cup Executed(p)' \cup Replied(p)' :
           /\ j < requestID'[p] /\ j \notin Waiting(p)'
           /\ j \in pending'[p] \/ timer'[p][j] = "fired"
    BY <1>2, <1>3, <2>2, <2>4 DEF OpenInv
  <2> QED
    BY <1>1, <1>2, <1>3, <1>4, <1>9, <2>3, <2>5 DEF OpenInv
<1>13. \A d \in Ends : TimerInv(d)'
  BY <1>3, TimersKept
<1>14. HandshakeInv'
  BY <1>3, <1>4, <1>7, HandshakeRead DEF p
<1>15. ClosedOnlyAfterTimeout'
  BY <1>3 DEF ProtocolInv, ClosedOnlyAfterTimeout
<1> QED
  BY <1>1, <1>11, <1>12, <1>13, <1>14, <1>15 DEF ProtocolInv

\* A message is read that is no call: a reply, expected or not.
LEMMA OpenRead ==
    ASSUME ProtocolInv, NEW e \in Ends, Incoming(e) # {}, inbox' = [inbox EXCEPT ![e] = Tail(@)],
           UNCHANGED <<requestID, chained, executing>>,
           pending'[Peer(e)] = pending[Peer(e)], timer'[Peer(e)] = timer[Peer(e)],
           \A i \in Unread(e) \cup Executed(e) \cup Replied(e)' :
              i \in pending[e] \/ timer[e][i] = "fired" => i \in pending'[e] \/ timer'[e][i] = "fired"
    PROVE  OpenInv(e)' /\ OpenInv(Peer(e))'
<1> DEFINE p == Peer(e)
<1>1. p \in Ends /\ p # e /\ Peer(p) = e
  BY TwoEnds
<1>2. /\ Distinct(inbox[e], CallKind) /\ Distinct(inbox[e], ReplyKind)
      /\ Distinct(inbox[p], CallKind) /\ Distinct(inbox[p], ReplyKind)
  BY <1>1, DistinctInboxes
<1>3. inbox'[e] = Tail(inbox[e]) /\ inbox'[p] = inbox[p]
  BY <1>1 DEF ProtocolInv, RPCInv, RPCTypeOK
<1>4. Distinct(inbox'[e], CallKind) /\ IdsOf(inbox'[e], CallKind) \subseteq IdsOf(inbox[e], CallKind)
  BY <1>2, <1>3, InboxRead
<1>5. Distinct(inbox'[e], ReplyKind) /\ IdsOf(inbox'[e], ReplyKind) \subseteq IdsOf(inbox[e], ReplyKind)
  BY <1>2, <1>3, InboxRead
<1> HIDE DEF p
<1>6. Unread(e)' = Unread(e) /\ Executed(e)' = Executed(e) /\ Replied(e)' \subseteq Replied(e)
  BY <1>3, <1>5 DEF Unread, Executed, Replied, p
<1>7. Unread(p)' \subseteq Unread(p) /\ Executed(p)' = Executed(p) /\ Replied(p)' = Replied(p)
  BY <1>1, <1>3, <1>4 DEF Unread, Executed, Replied
<1>8. OpenInv(e)'
  BY <1>2, <1>3, <1>5, <1>6, OpenKept DEF p
<1>9. OpenInv(p)'
  BY <1>1, <1>2, <1>3, <1>4, <1>7, OpenKept DEF p
<1> QED
  BY <1>8, <1>9 DEF p

LEMMA ReceiveReplyOpen ==
    ASSUME ProtocolInv, RPCInv', NEW e \in Ends, ReceiveReply(e)
    PROVE  ProtocolInv'
<1> DEFINE p == Peer(e)
           i == Head(inbox[e]).id
<1>1. p \in Ends /\ p # e /\ Peer(p) = e /\ \A d \in Ends : d = e \/ d = p
  BY TwoEnds
<1>2. /\ RPCTypeOK /\ OpenInv(e) /\ TimerInv(e) /\ TimerInv(p) /\ PlacesInv(e)
      /\ Distinct(inbox[e], ReplyKind)
  BY <1>1, DistinctInboxes DEF ProtocolInv, RPCInv
<1>3. /\ state[e] = "established" /\ Incoming(e) # {} /\ inbox' = [inbox EXCEPT ![e] = Tail(@)]
      /\ UNCHANGED <<state, requestID, chained, executing>>
  BY DEF ReceiveReply
<1>4. inbox'[e] = Tail(inbox[e]) /\ inbox'[p] = inbox[p]
  BY <1>1, <1>2, <1>3 DEF RPCTypeOK
<1>5. Incoming(e) = {Head(inbox[e])}
  BY <1>2, <1>3, <1>4, InboxRead
<1>6. /\ Head(inbox[e]).type \in ReplyKind /\ i \in pending[e]
      /\ pending' = [pending EXCEPT ![e] = @ \ {i}]
      /\ \/ timer[e][i] = "armed" /\ timer' = [timer EXCEPT ![e][i] = "cancelled"] /\ UNCHANGED closing
         \/ timer[e][i] # "armed" /\ closing' = closing \cup {e} /\ UNCHANGED timer
  BY <1>5 DEF ReceiveReply, ReplyKind
<1>7. i \in Ids /\ i \in Replied(e) /\ Replied(e)' = Replied(e) \ {i}
  <2>1. i \in IdsOf(inbox[e], ReplyKind) /\ IdsOf(inbox'[e], ReplyKind) = IdsOf(inbox[e], ReplyKind) \ {i}
    BY <1>2, <1>3, <1>4, <1>6, InboxRead
  <2> QED
    BY <1>2, <1>6, <2>1 DEF RPCTypeOK, Replied
<1> HIDE DEF p, i
<1>8. /\ pending'[e] = pending[e] \ {i} /\ pending'[p] = pending[p] /\ timer'[p] = timer[p]
      /\ \A j \in Ids : j # i => timer'[e][j] = timer[e][j]
  BY <1>1, <1>2, <1>6 DEF RPCTypeOK
<1>9. \A d \in Ends : Waiting(d)' = Waiting(d)
  BY <1>3 DEF Waiting
<1>10. OpenInv(e)' /\ OpenInv(p)'
  <2>1. ASSUME NEW j \in Unread(e) \cup Executed(e) \cup Replied(e)',
               j \in pending[e] \/ timer[e][j] = "fired"
        PROVE  j \in pending'[e] \/ timer'[e][j] = "fired"
    <3>1. j # i
      BY <1>2, <1>7, <2>1 DEF OpenInv
    <3>2. CASE j \in pending[e]
      BY <1>8, <3>1, <3>2
    <3>3. CASE timer[e][j] = "fired" /\ timer' = timer
      BY <3>3
    <3>4. CASE timer[e][j] = "fired" /\ timer' = [timer EXCEPT ![e][i] = "cancelled"]
      <4>1. timer'[e] = [timer[e] EXCEPT ![i] = "cancelled"]
        BY <1>2, <3>4 DEF RPCTypeOK
      <4> QED
        BY <3>1, <3>4, <4>1
    <3> QED
      BY <1>6, <2>1, <3>2, <3>3, <3>4
  <2> QED
    BY <1>3, <1>8, <2>1, OpenRead DEF p
<1>11. TimerInv(e)'
  <2>1. ASSUME NEW j \in Ids, j >= requestID'[e] PROVE timer'[e][j] = "unset"
    <3>1. i < requestID[e] /\ requestID[e] \in Int /\ i \in Int /\ j \in Int
      BY <1>2, <1>6, <1>7, IdFacts, RPCAssumption DEF PlacesInv, RPCTypeOK
    <3>2. j # i
      BY <1>3, <2>1, <3>1
    <3> QED
      BY <1>2, <1>3, <1>8, <2>1, <3>2 DEF TimerInv
  <2>2. ASSUME NEW j \in pending'[e] \cup Waiting(e)' PROVE timer'[e][j] \in {"armed", "fired"}
    <3>1. j # i /\ j \in pending[e] \cup Waiting(e)
      BY <1>2, <1>6, <1>8, <1>9, <2>2 DEF PlacesInv
    <3>2. j \in Ids
      BY <1>2, <3>1 DEF RPCTypeOK, Waiting
    <3> QED
      BY <1>2, <1>3, <1>8, <3>1, <3>2 DEF TimerInv
  <2> QED
    BY <2>1, <2>2 DEF TimerInv
<1>12. TimerInv(p)'
  BY <1>1, <1>2, <1>3, <1>8, <1>9 DEF TimerInv
<1>13. HandshakeInv'
  BY <1>3, <1>4, HandshakeRead DEF p
<1>14. ClosedOnlyAfterTimeout'
  <2>1. timer[e][i] \in {"armed", "fired"}
    BY <1>2, <1>3, <1>6 DEF TimerInv
  <2>2. ASSUME NEW d \in closing' PROVE \E j \in Ids : timer'[d][j] = "fired"
    <3>1. CASE d \in closing
      <4>1. PICK j \in Ids : timer[d][j] = "fired"
        BY <3>1 DEF ProtocolInv, ClosedOnlyAfterTimeout
      <4>2. d \in Ends
        BY <1>2, <3>1 DEF RPCTypeOK
      <4> QED
        BY <1>1, <1>6, <1>8, <4>1, <4>2
    <3>2. CASE d \notin closing
      BY <1>6, <1>7, <2>1, <2>2, <3>2
    <3> QED
      BY <3>1, <3>2
  <2> QED
    BY <2>2 DEF ClosedOnlyAfterTimeout
<1> QED
  BY <1>1, <1>10, <1>11, <1>12, <1>13, <1>14 DEF ProtocolInv

\* A message that is an error is a reply to a call that timed out.
LEMMA ErrorIsLate ==
    ASSUME ProtocolInv, NEW e \in Ends, ProtocolError(e)
    PROVE  /\ state[e] = "established" /\ inbox[e] # <<>> /\ Head(inbox[e]).type \in ReplyKind
           /\ Head(inbox[e]).id \in Ids /\ timer[e][Head(inbox[e]).id] = "fired"
<1>1. RPCTypeOK /\ OpenInv(e) /\ HandshakeInv /\ Distinct(inbox[e], ReplyKind)
  BY DistinctInboxes DEF ProtocolInv, RPCInv
<1>2. Incoming(e) # {} /\ inbox' = [inbox EXCEPT ![e] = Tail(@)]
  BY DEF ProtocolError
<1>3. inbox'[e] = Tail(inbox[e])
  BY <1>1, <1>2 DEF RPCTypeOK
<1>4. Incoming(e) = {Head(inbox[e])} /\ inbox[e] # <<>>
  BY <1>2 DEF Incoming
<1>5. /\ state[e] = "established" /\ Head(inbox[e]).type \in ReplyKind
      /\ Head(inbox[e]).id \notin pending[e]
  <2>1. \/ /\ state[e] = "established" /\ Head(inbox[e]).type \in {"result", "error"}
           /\ Head(inbox[e]).id \notin pending[e]
        \/ state[e] = "connected" /\ Head(inbox[e]).type # "hello"
        \/ state[e] = "sent_hello" /\ Head(inbox[e]).type # "hello_ack"
    BY <1>4 DEF ProtocolError
  <2>2. state[e] = "connected" => Head(inbox[e]) = Handshake("hello")
    BY <1>1 DEF HandshakeInv, Ends
  <2>3. state[e] = "sent_hello" => Head(inbox[e]) = Handshake("hello_ack")
    BY <1>1, <1>4 DEF HandshakeInv, Ends
  <2>4. Handshake("hello").type = "hello" /\ Handshake("hello_ack").type = "hello_ack"
    BY DEF Handshake, Message
  <2> QED
    BY <2>1, <2>2, <2>3, <2>4 DEF ReplyKind
<1>6. Head(inbox[e]).id \in Replied(e)
  BY <1>1, <1>2, <1>3, <1>5, InboxRead DEF Replied
<1>7. timer[e][Head(inbox[e]).id] = "fired" /\ Head(inbox[e]).id \in Ids
  <2>1. Head(inbox[e]) \in Messages
    BY <1>1, <1>2, <1>3, InboxRead
  <2>2. Head(inbox[e]).id \in Ids
    BY <1>5, <2>1 DEF Messages, ReplyKind
  <2> QED
    BY <1>1, <1>5, <1>6, <2>2 DEF OpenInv
<1> QED
  BY <1>4, <1>5, <1>7

LEMMA ProtocolErrorOpen ==
    ASSUME ProtocolInv, RPCInv', NEW e \in Ends, ProtocolError(e)
    PROVE  ProtocolInv'
<1>1. /\ Incoming(e) # {} /\ inbox' = [inbox EXCEPT ![e] = Tail(@)] /\ closing' = closing \cup {e}
      /\ UNCHANGED <<state, requestID, chained, pending, timer, fired, executing>>
  BY DEF ProtocolError
<1>2. /\ state[e] = "established" /\ Head(inbox[e]).id \in Ids
      /\ timer[e][Head(inbox[e]).id] = "fired"
  BY ErrorIsLate
<1>3. inbox'[Peer(e)] = inbox[Peer(e)]
  BY <1>1, TwoEnds DEF ProtocolInv, RPCInv, RPCTypeOK
<1>4. OpenInv(e)' /\ OpenInv(Peer(e))'
  BY <1>1, OpenRead
<1>5. \A d \in Ends : TimerInv(d)'
  BY <1>1, TimersKept
<1>6. HandshakeInv'
  BY <1>1, <1>2, <1>3, HandshakeRead
<1>7. ClosedOnlyAfterTimeout'
  BY <1>1, <1>2 DEF ProtocolInv, ClosedOnlyAfterTimeout
<1> QED
  BY <1>4, <1>5, <1>6, <1>7, TwoEnds DEF ProtocolInv

LEMMA AnswerOpen ==
    ASSUME ProtocolInv, RPCInv', NEW e \in Ends, NEW i \in Ids, NEW type \in {"result", "error"},
           Answer(e, i, type)
    PROVE  ProtocolInv'
<1> DEFINE p == Peer(e)
           z == IF state[e] = "lost" THEN <<>> ELSE <<Message(type, i)>>
<1>1. p \in Ends /\ p # e /\ Peer(p) = e /\ \A d \in Ends : d = e \/ d = p
  BY TwoEnds
<1>2. /\ RPCTypeOK /\ OpenInv(p) /\ HandshakeInv /\ inbox[p] \in Seq(Messages)
      /\ Distinct(inbox[e], CallKind) /\ Distinct(inbox[e], ReplyKind)
      /\ Distinct(inbox[p], CallKind) /\ Distinct(inbox[p], ReplyKind)
  BY <1>1, DistinctInboxes DEF ProtocolInv, RPCInv
<1>3. /\ i \in executing[e] /\ executing' = [executing EXCEPT ![e] = @ \ {i}]
      /\ UNCHANGED <<state, requestID, chained, pending, timer, fired, closing>>
      /\ inbox' = IF state[e] = "lost" THEN inbox
                  ELSE [inbox EXCEPT ![p] = @ \o Delivered(p, <<Message(type, i)>>)]
  BY DEF Answer
<1>4. executing'[e] = executing[e] \ {i} /\ executing'[p] = executing[p]
  BY <1>1, <1>2, <1>3 DEF RPCTypeOK
<1>5. /\ inbox'[e] = inbox[e] /\ inbox'[p] = inbox[p] \o Delivered(p, z)
      /\ state[e] = "lost" => inbox'[p] = inbox[p]
  <2>1. CASE state[e] = "lost"
    BY <1>2, <1>3, <2>1 DEF Delivered
  <2>2. CASE state[e] # "lost"
    BY <1>1, <1>2, <1>3, <2>2 DEF RPCTypeOK
  <2> QED
    BY <2>1, <2>2
<1>6. /\ z \in Seq(Messages) /\ IdsOf(z, CallKind) = {} /\ Distinct(z, CallKind)
      /\ IdsOf(z, ReplyKind) \subseteq {i} /\ Distinct(z, ReplyKind)
  <2>1. Message(type, i) \in Messages
    BY MessageFacts
  <2>2. Message(type, i).type \in ReplyKind /\ Message(type, i).type \notin CallKind /\ Message(type, i).id = i
    BY DEF Message, ReplyKind, CallKind
  <2> QED
    BY <2>1, <2>2, IdsOfFew
<1> HIDE DEF p, z
<1>7. Distinct(inbox'[p], CallKind) /\ IdsOf(inbox'[p], CallKind) \subseteq IdsOf(inbox[p], CallKind)
  BY <1>1, <1>2, <1>5, <1>6, InboxSent
<1>8. i \in Executed(p) /\ i \notin Replied(p) /\ i \notin Unread(p)
  BY <1>1, <1>2, <1>3 DEF OpenInv, Executed
<1>9. /\ Distinct(inbox'[p], ReplyKind)
      /\ IdsOf(inbox'[p], ReplyKind) \subseteq IdsOf(inbox[p], ReplyKind) \cup {i}
  <2>1. IdsOf(inbox[p], ReplyKind) \cap IdsOf(z, ReplyKind) = {}
    BY <1>6, <1>8 DEF Replied
  <2>2. /\ IdsOf(inbox'[p], ReplyKind) \subseteq IdsOf(inbox[p], ReplyKind) \cup IdsOf(z, ReplyKind)
        /\ Distinct(inbox'[p], ReplyKind)
    BY <1>1, <1>2, <1>5, <1>6, <2>1, InboxSent
  <2> QED
    BY <1>6, <2>2
<1>10. OpenInv(e)'
  <2>1. Unread(e)' \subseteq Unread(e) /\ Executed(e)' = Executed(e) /\ Replied(e)' = Replied(e)
    BY <1>4, <1>5, <1>7 DEF Unread, Executed, Replied, p
  <2> QED
    BY <1>2, <1>3, <1>5, <1>7, <2>1, OpenKept DEF p
<1>11. OpenInv(p)'
  <2>1. /\ Unread(p)' = Unread(p) /\ Executed(p)' = Executed(p) \ {i}
        /\ Replied(p)' \subseteq Replied(p) \cup {i}
    BY <1>1, <1>4, <1>5, <1>9 DEF Unread, Executed, Replied
  <2>2. Waiting(p)' = Waiting(p)
    BY <1>3 DEF Waiting
  <2>3. /\ Unread(p)' \cap Executed(p)' = {}
        /\ (Unread(p)' \cup Executed(p)') \cap Replied(p)' = {}
    BY <1>2, <1>8, <2>1 DEF OpenInv
  <2>4. \A j \in Unread(p)' \cup Executed(p)' \cup Replied(p)' :
           j \in Unread(p) \cup Executed(p) \cup Replied(p)
    BY <1>8, <2>1
  <2>5. \A j \in Unread(p)' \cup Executed(p)' \cup Replied(p)' :
           /\ j < requestID'[p] /\ j \notin Waiting(p)'
           /\ j \in pending'[p] \/ timer'[p][j] = "fired"
    BY <1>2, <1>3, <2>2, <2>4 DEF OpenInv
  <2> QED
    BY <1>1, <1>2, <1>3, <1>5, <1>9, <2>3, <2>5 DEF OpenInv
<1>12. \A d \in Ends : TimerInv(d)'
  BY <1>3, TimersKept
<1>13. HandshakeInv'
  <2>1. inbox[p] # <<>> => inbox'[p] # <<>> /\ Head(inbox'[p]) = Head(inbox[p])
    BY <1>1, <1>5, <1>6, HeadKept
  <2>2. CASE e = "client" /\ p = "server"
    <3>1. state[e] # "sent_hello"
      BY <1>2, <1>3, <2>2 DEF HandshakeInv
    <3>2. state[p] = "connected" => state[e] = "lost"
      BY <1>2, <2>2, <3>1 DEF HandshakeInv, RPCTypeOK, States, Ends
    <3> QED
      BY <1>2, <1>3, <1>4, <1>5, <2>2, <3>1, <3>2 DEF HandshakeInv
  <2>3. CASE e = "server" /\ p = "client"
    <3>1. state[e] # "connected"
      BY <1>2, <1>3, <2>3 DEF HandshakeInv
    <3>2. state[e] = "established" \/ state[e] = "lost"
      BY <1>2, <2>3, <3>1 DEF HandshakeInv, RPCTypeOK, States, Ends
    <3> QED
      BY <1>2, <1>3, <1>4, <1>5, <2>1, <2>3, <3>1, <3>2 DEF HandshakeInv
  <2> QED
    BY <1>1, <2>2, <2>3 DEF Ends
<1>14. ClosedOnlyAfterTimeout'
  BY <1>3 DEF ProtocolInv, ClosedOnlyAfterTimeout
<1> QED
  BY <1>1, <1>10, <1>11, <1>12, <1>13, <1>14 DEF ProtocolInv

\* A call that times out is no longer pending, and its timer says so.
LEMMA TimerFiresOpen ==
    ASSUME ProtocolInv, RPCInv', NEW e \in Ends, NEW i \in Ids, TimerFires(e, i)
    PROVE  ProtocolInv'
<1>1. RPCTypeOK /\ HandshakeInv /\ ClosedOnlyAfterTimeout
  BY DEF ProtocolInv, RPCInv
<1>2. /\ timer[e][i] = "armed" /\ timer' = [timer EXCEPT ![e][i] = "fired"]
      /\ pending' = [pending EXCEPT ![e] = @ \ {i}]
      /\ UNCHANGED <<state, requestID, chained, executing, inbox, closing>>
  BY DEF TimerFires
<1>3. /\ pending'[e] = pending[e] \ {i} /\ timer'[e][i] = "fired"
      /\ \A j \in Ids : j # i => timer'[e][j] = timer[e][j]
      /\ \A d \in Ends : d # e => pending'[d] = pending[d] /\ timer'[d] = timer[d]
  BY <1>1, <1>2 DEF RPCTypeOK
<1>4. \A d \in Ends : Waiting(d)' = Waiting(d)
  BY <1>2 DEF Waiting
<1>5. ASSUME NEW d \in Ends PROVE OpenInv(d)'
  <2>1. Unread(d)' = Unread(d) /\ Executed(d)' = Executed(d) /\ Replied(d)' = Replied(d)
    BY <1>2 DEF Unread, Executed, Replied
  <2>2. Distinct(inbox[Peer(d)], CallKind) /\ Distinct(inbox[d], ReplyKind)
    BY TwoEnds, DistinctInboxes
  <2>3. ASSUME NEW j \in Unread(d)' \cup Executed(d)' \cup Replied(d)',
               j \in pending[d] \/ timer[d][j] = "fired"
        PROVE  j \in pending'[d] \/ timer'[d][j] = "fired"
    <3>1. CASE d # e
      BY <1>3, <2>3, <3>1
    <3>2. CASE d = e /\ j = i
      BY <1>3, <3>2
    <3>3. CASE d = e /\ j # i
      <4>1. timer'[e] = [timer[e] EXCEPT ![i] = "fired"]
        BY <1>1, <1>2 DEF RPCTypeOK
      <4>2. j \in pending[e] => j \in pending'[e]
        BY <1>3, <3>3
      <4>3. timer[e][j] = "fired" => timer'[e][j] = "fired"
        BY <3>3, <4>1
      <4> QED
        BY <2>3, <3>3, <4>2, <4>3
    <3> QED
      BY <3>1, <3>2, <3>3
  <2> QED
    BY <1>2, <2>1, <2>2, <2>3, OpenKept
<1>6. ASSUME NEW d \in Ends PROVE TimerInv(d)'
  <2>1. TimerInv(d)
    BY DEF ProtocolInv
  <2>2. CASE d # e
    BY <1>2, <1>3, <1>4, <2>1, <2>2 DEF TimerInv
  <2>3. CASE d = e
    <3>1. ASSUME NEW j \in Ids, j >= requestID'[e] PROVE timer'[e][j] = "unset"
      BY <1>2, <1>3, <2>1, <2>3, <3>1 DEF TimerInv
    <3>2. ASSUME state'[e] # "lost", NEW j \in pending'[e] \cup Waiting(e)'
          PROVE  timer'[e][j] \in {"armed", "fired"}
      <4>1. j \in pending[e] \cup Waiting(e)
        BY <1>3, <1>4, <3>2
      <4>2. j \in Ids
        BY <1>1, <4>1 DEF RPCTypeOK, Waiting
      <4> QED
        BY <1>2, <1>3, <2>1, <2>3, <3>2, <4>1, <4>2 DEF TimerInv
    <3> QED
      BY <2>3, <3>1, <3>2 DEF TimerInv
  <2> QED
    BY <2>2, <2>3
<1>7. HandshakeInv'
  BY <1>1, <1>2 DEF HandshakeInv
<1>8. ClosedOnlyAfterTimeout'
  BY <1>1, <1>2, <1>3 DEF ClosedOnlyAfterTimeout, RPCTypeOK
<1> QED
  BY <1>5, <1>6, <1>7, <1>8 DEF ProtocolInv

\* What was on its way to an end is gone with its connection.
LEMMA ConnectionLostOpen ==
    ASSUME ProtocolInv, RPCInv', NEW e \in Ends, ConnectionLost(e)
    PROVE  ProtocolInv'
<1>1. RPCTypeOK /\ HandshakeInv /\ ClosedOnlyAfterTimeout
  BY DEF ProtocolInv, RPCInv
<1>2. /\ state' = [state EXCEPT ![e] = "lost"] /\ inbox' = [inbox EXCEPT ![e] = <<>>]
      /\ closing' = closing \ {e}
      /\ timer' = [timer EXCEPT ![e] = [i \in Ids |->
                      IF i \in pending[e] /\ timer[e][i] = "armed" THEN "cancelled" ELSE timer[e][i]]]
      /\ UNCHANGED <<requestID, chained, pending, fired, executing>>
  BY DEF ConnectionLost
<1>3. /\ state'[e] = "lost" /\ inbox'[e] = <<>>
      /\ \A i \in Ids : timer[e][i] # "armed" => timer'[e][i] = timer[e][i]
      /\ \A i \in Ids : i \notin pending[e] => timer'[e][i] = timer[e][i]
      /\ \A d \in Ends : d # e => /\ state'[d] = state[d] /\ inbox'[d] = inbox[d]
                                  /\ timer'[d] = timer[d]
  BY <1>1, <1>2 DEF RPCTypeOK
<1>4. \A d \in Ends : Waiting(d)' = Waiting(d)
  BY <1>2 DEF Waiting
<1>5. ASSUME NEW d \in Ends, NEW K, Distinct(inbox[d], K)
      PROVE  Distinct(inbox'[d], K) /\ IdsOf(inbox'[d], K) \subseteq IdsOf(inbox[d], K)
  <2>1. CASE d = e
    BY <1>3, <2>1, IdsOfFew
  <2>2. CASE d # e
    BY <1>3, <1>5, <2>2
  <2> QED
    BY <2>1, <2>2
<1>6. ASSUME NEW d \in Ends PROVE OpenInv(d)'
  <2>1. Distinct(inbox[Peer(d)], CallKind) /\ Distinct(inbox[d], ReplyKind) /\ OpenInv(d)
    BY TwoEnds, DistinctInboxes
  <2>2. Distinct(inbox'[Peer(d)], CallKind) /\ Unread(d)' \subseteq Unread(d)
    BY <1>5, <2>1, TwoEnds DEF Unread
  <2>3. Distinct(inbox'[d], ReplyKind) /\ Replied(d)' \subseteq Replied(d)
    BY <1>5, <2>1 DEF Replied
  <2>4. Executed(d)' = Executed(d)
    BY <1>2 DEF Executed
  <2>5. ASSUME NEW j \in Unread(d)' \cup Executed(d)' \cup Replied(d)',
               j \in pending[d] \/ timer[d][j] = "fired"
        PROVE  j \in pending'[d] \/ timer'[d][j] = "fired"
    <3>1. CASE d # e \/ j \in pending[d]
      BY <1>2, <1>3, <2>5, <3>1
    <3>2. CASE d = e /\ j \notin pending[d]
      <4>1. j \in Ids
        <5>1. \A s : \A K : s \in Seq(Messages) /\ K \subseteq {"call", "result", "error"} =>
                              IdsOf(s, K) \subseteq Ids
          BY DEF IdsOf, Messages
        <5>2. inbox[d] \in Seq(Messages) /\ inbox[Peer(d)] \in Seq(Messages)
          BY <1>1, TwoEnds DEF RPCTypeOK
        <5>3. Unread(d) \subseteq Ids /\ Replied(d) \subseteq Ids
          BY <5>1, <5>2 DEF Unread, Replied, CallKind, ReplyKind
        <5>4. Executed(d) \subseteq Ids
          BY <1>1, TwoEnds DEF Executed, RPCTypeOK
        <5> QED
          BY <2>2, <2>3, <2>4, <2>5, <5>3, <5>4
      <4> QED
        BY <1>3, <2>5, <3>2, <4>1
    <3> QED
      BY <3>1, <3>2
  <2> QED
    BY <1>2, <2>2, <2>3, <2>4, <2>5, OpenKept
<1>7. ASSUME NEW d \in Ends PROVE TimerInv(d)'
  <2>1. TimerInv(d)
    BY DEF ProtocolInv
  <2>2. CASE d # e
    BY <1>2, <1>3, <1>4, <2>1, <2>2 DEF TimerInv
  <2>3. CASE d = e
    <3>1. \A i \in Ids : i >= requestID'[e] => timer'[e][i] = "unset"
      BY <1>2, <1>3, <2>1, <2>3 DEF TimerInv
    <3> QED
      BY <1>3, <2>3, <3>1 DEF TimerInv
  <2> QED
    BY <2>2, <2>3
<1>8. HandshakeInv'
  <2>1. CASE e = "client"
    BY <1>1, <1>2, <1>3, <2>1 DEF HandshakeInv, Ends
  <2>2. CASE e = "server"
    BY <1>1, <1>2, <1>3, <2>2 DEF HandshakeInv, Ends
  <2> QED
    BY <2>1, <2>2 DEF Ends
<1>9. ClosedOnlyAfterTimeout'
  BY <1>1, <1>2, <1>3 DEF ClosedOnlyAfterTimeout, RPCTypeOK
<1> QED
  BY <1>6, <1>7, <1>8, <1>9 DEF ProtocolInv

LEMMA ProtocolInit == RPCInit => ProtocolInv
<1> SUFFICES ASSUME RPCInit PROVE ProtocolInv
  OBVIOUS
<1>1. RPCInv
  BY InitInv
<1>2. inbox["server"] = <<Handshake("hello")>> /\ inbox["client"] = <<>>
  BY DEF RPCInit, Ends
<1>3. \A d \in Ends : /\ IdsOf(inbox[d], CallKind) = {} /\ Distinct(inbox[d], CallKind)
                      /\ IdsOf(inbox[d], ReplyKind) = {} /\ Distinct(inbox[d], ReplyKind)
  <2>1. Handshake("hello").type \notin CallKind /\ Handshake("hello").type \notin ReplyKind
    BY DEF Handshake, Message, CallKind, ReplyKind
  <2> DEFINE hello == Handshake("hello")
  <2> HIDE DEF hello
  <2>2. \A d \in Ends : inbox[d] = <<hello>> \/ inbox[d] = <<>>
    BY <1>2 DEF Ends, hello
  <2>3. \A K : hello.type \notin K => IdsOf(<<hello>>, K) = {} /\ Distinct(<<hello>>, K)
    BY IdsOfFew, Zenon
  <2>4. \A K : IdsOf(<<>>, K) = {} /\ Distinct(<<>>, K)
    BY IdsOfFew, Zenon
  <2>5. hello.type \notin CallKind /\ hello.type \notin ReplyKind
    BY <2>1 DEF hello
  <2> QED
    BY <2>2, <2>3, <2>4, <2>5, Zenon
<1>4. ASSUME NEW d \in Ends PROVE OpenInv(d)
  <2>1. Unread(d) = {} /\ Replied(d) = {} /\ Executed(d) = {}
    BY <1>3, TwoEnds DEF Unread, Replied, Executed, RPCInit
  <2>2. Distinct(inbox[Peer(d)], CallKind) /\ Distinct(inbox[d], ReplyKind)
    BY <1>3, TwoEnds
  <2>3. chained[d] = <<>>
    BY DEF RPCInit
  <2> QED
    BY <2>1, <2>2, <2>3 DEF OpenInv
<1>5. \A d \in Ends : TimerInv(d)
  BY DEF TimerInv, RPCInit, Waiting
<1>6. HandshakeInv
  BY <1>2 DEF HandshakeInv, RPCInit, Ends
<1>7. ClosedOnlyAfterTimeout
  BY DEF ClosedOnlyAfterTimeout, RPCInit
<1> QED
  BY <1>1, <1>4, <1>5, <1>6, <1>7 DEF ProtocolInv

LEMMA ProtocolStep == ProtocolInv /\ [RPCNext]_rpcVars => ProtocolInv'
<1> SUFFICES ASSUME ProtocolInv, [RPCNext]_rpcVars PROVE ProtocolInv'
  OBVIOUS
<1>1. RPCInv'
  BY RPCStep DEF ProtocolInv
<1>2. CASE UNCHANGED rpcVars
  <2>1. ASSUME NEW d \in Ends PROVE OpenInv(d)' /\ TimerInv(d)'
    <3>1. Unread(d)' = Unread(d) /\ Executed(d)' = Executed(d) /\ Replied(d)' = Replied(d)
      BY <1>2 DEF Unread, Executed, Replied, rpcVars
    <3>2. Distinct(inbox'[Peer(d)], CallKind) /\ Distinct(inbox'[d], ReplyKind)
      BY <1>2, TwoEnds, DistinctInboxes DEF rpcVars
    <3> QED
      BY <1>2, <3>1, <3>2, OpenKept, TimersKept DEF rpcVars
  <2>2. HandshakeInv' /\ ClosedOnlyAfterTimeout'
    BY <1>2 DEF ProtocolInv, HandshakeInv, ClosedOnlyAfterTimeout, rpcVars
  <2> QED
    BY <1>1, <2>1, <2>2 DEF ProtocolInv
<1> QED
  BY <1>1, <1>2, CallOpen, EstablishOpen, ReceiveCallOpen, ReceiveReplyOpen, ProtocolErrorOpen,
     AnswerOpen, TimerFiresOpen, ConnectionLostOpen
  DEF RPCNext, Receive

\* The inductive invariant of calls and replies under way.
THEOREM ProtocolConsistent == RPCSpec => []ProtocolInv
BY ProtocolInit, ProtocolStep, PTL DEF RPCSpec

\* stringReceived closes no connection of an end whose calls have all been answered
\* in time: for any number of calls from both ends, made before or after the
\* handshake.
THEOREM ClosesOnlyAfterTimeout == RPCSpec => []ClosedOnlyAfterTimeout
<1>1. ProtocolInv => ClosedOnlyAfterTimeout
  BY DEF ProtocolInv
<1> QED
  BY <1>1, ProtocolConsistent, PTL

\* What makes stringReceived close the connection is always a reply to a call of this
\* end whose timer has fired: no hello, hello_ack or call is ever out of place.
THEOREM ClosesOverLateReplies ==
    RPCSpec => [][\A e \in closing' \ closing :
                     /\ inbox[e] # <<>> /\ Head(inbox[e]).type \in {"result", "error"}
                     /\ timer[e][Head(inbox[e]).id] = "fired"]_rpcVars
<1>1. ProtocolInv /\ [RPCNext]_rpcVars =>
          [\A e \in closing' \ closing :
              /\ inbox[e] # <<>> /\ Head(inbox[e]).type \in {"result", "error"}
              /\ timer[e][Head(inbox[e]).id] = "fired"]_rpcVars
  <2> SUFFICES ASSUME ProtocolInv, RPCNext, NEW d \in closing' \ closing
               PROVE  /\ inbox[d] # <<>> /\ Head(inbox[d]).type \in {"result", "error"}
                      /\ timer[d][Head(inbox[d]).id] = "fired"
    OBVIOUS
  <2>1. PICK e \in Ends : ReceiveReply(e) \/ ProtocolError(e)
    BY DEF RPCNext, Receive, Call, ReceiveHello, ReceiveHelloAck, Establish, ReceiveCall,
           Answer, TimerFires, ConnectionLost
  <2>2. CASE ReceiveReply(e)
    <3>1. inbox[e] # <<>> /\ Incoming(e) = {Head(inbox[e])} /\ state[e] = "established"
      BY <2>2 DEF ReceiveReply, Incoming
    <3>2. /\ Head(inbox[e]).type \in {"result", "error"} /\ Head(inbox[e]).id \in pending[e]
          /\ closing' # closing =>
                closing' = closing \cup {e} /\ timer[e][Head(inbox[e]).id] # "armed"
      BY <2>2, <3>1 DEF ReceiveReply
    <3>3. timer[e][Head(inbox[e]).id] \in {"armed", "fired"}
      BY <3>1, <3>2 DEF ProtocolInv, TimerInv
    <3> QED
      BY <3>1, <3>2, <3>3
  <2>3. CASE ProtocolError(e)
    <3>1. closing' = closing \cup {e}
      BY <2>3 DEF ProtocolError
    <3> QED
      BY <2>3, <3>1, ErrorIsLate DEF ReplyKind
  <2> QED
    BY <2>1, <2>2, <2>3
<1> QED
  BY <1>1, ProtocolConsistent, PTL DEF RPCSpec

\* A reply under way answers a call of its receiver that still waits, or that timed
\* out; two replies never answer the same call.
THEOREM RepliesAlwaysExpected == RPCSpec => []RepliesAreExpected
<1>1. ProtocolInv => RepliesAreExpected
  <2> SUFFICES ASSUME ProtocolInv, NEW e \in Ends
               PROVE  LET replies == {k \in DOMAIN inbox[e] : inbox[e][k].type \in {"result", "error"}}
                      IN  /\ \A k \in replies : LET i == inbox[e][k].id
                                                IN  i \in pending[e] \/ timer[e][i] = "fired"
                          /\ \A j, k \in replies : inbox[e][j].id = inbox[e][k].id => j = k
    BY DEF RepliesAreExpected
  <2> DEFINE replies == {k \in DOMAIN inbox[e] : inbox[e][k].type \in {"result", "error"}}
  <2>1. OpenInv(e)
    BY DEF ProtocolInv
  <2>2. \A k \in replies : inbox[e][k].id \in Replied(e)
    BY DEF Replied, IdsOf, ReplyKind
  <2>3. \A k \in replies : inbox[e][k].id \in pending[e] \/ timer[e][inbox[e][k].id] = "fired"
    BY <2>1, <2>2 DEF OpenInv
  <2>4. \A j, k \in replies : inbox[e][j].id = inbox[e][k].id => j = k
    BY <2>1 DEF OpenInv, Distinct, ReplyKind
  <2> QED
    BY <2>3, <2>4
<1> QED
  BY <1>1, ProtocolConsistent, PTL
=============================================================================
