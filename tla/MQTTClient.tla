----------------------------- MODULE MQTTClient -----------------------------
(***************************************************************************)
(* The MQTT client of include/MQTTClient.h with its TCP client             *)
(* (src/tcpClient.cpp) on the Ethernet interface of module EthIF, called   *)
(* the way src/example.cpp calls them:                                     *)
(*                                                                         *)
(*   while(1) { eth.mainTask(); client.mainTask(); application }           *)
(*                                                                         *)
(* MQTTClient::mainTask is one function of three parts, each a step here   *)
(* and each always taken: the received packet, the socket's status, the    *)
(* two timers.  pc says which part comes next.  The network and the broker *)
(* run beside the loop; what they do reaches the program only through      *)
(* WCHNET_MainTask, at pc = "eth".                                         *)
(*                                                                         *)
(* The broker is a correct MQTT 3.1.1 server: it accepts one CONNECT, as   *)
(* the first packet of a connection, or refuses it with a CONNACK that     *)
(* says so and closes, as it does on anything else.                        *)
(***************************************************************************)
EXTENDS EthIF, FiniteSets

CONSTANTS
  Qos,             \* the qualities of service of the broker's messages
  MsgIds,          \* the messages the broker may send, each with its own id
  TailLooks,       \* packet types the first byte of a fragment may decode to
  UnknownTimeout,  \* mainTask's argument (5000 ms) in ticks
  pingreqPrd,      \* the period of PINGREQ (3000 ms) in ticks
  MaxTurn,         \* the most ticks one turn of the main loop takes
  Window,          \* messages of quality 1 or 2 the broker keeps in flight
  MaxPackedID,     \* bound on the client's own publications
  MaxFaults        \* bound on resets, refusals, closes and clock rollovers

ASSUME ClientAssumption ==
  /\ Qos \subseteq 0..2 /\ MsgIds \subseteq Nat \ {0}
  /\ UnknownTimeout \in Nat /\ pingreqPrd \in Nat /\ MaxTurn \in Nat
  /\ Window \in Nat /\ MaxPackedID \in Nat /\ MaxFaults \in Nat

VARIABLES
  pc,          \* the next part of the main loop
  status,      \* MQTTStatus
  socket,      \* tcpClient::socket
  lastId,      \* lastTopicPacketID
  packedID,    \* MQTTPackedID, from 5 on
  unknownAge,  \* millis32() - unknownTmr, up to the first value past its limit
  pingAge,     \* the same of pingreqTmr
  broker,      \* per socket, the broker's end of the connection
  sent,        \* messages the broker has sent (each is sent once)
  delivered,   \* messages handed to topicCallback in this turn of the loop
  faults       \* things gone wrong so far

clientVars == <<status, socket, lastId, packedID, unknownAge, pingAge>>
vars == <<ethVars, pc, clientVars, broker, sent, delivered, faults>>

\* eMQTTStatus.  MQTTPublished is set and replaced within one part of mainTask.
MQTTStatus == {"Unknown", "ConnectRequested", "Connected", "Suback", "Puback",
               "Pubrec", "Pubrel", "Pubcomp", "Unsuback"}

isMQTTConnected == status \notin {"Unknown", "ConnectRequested"}

\* The broker's end of a connection: has it accepted the CONNECT or refused it, has
\* it closed, the acknowledgements it waits for, the messages it released with
\* PUBREL, and whether every message of quality 2 was in flight alone so far.
PublishAnswer == [q \in 1..2 |-> IF q = 1 THEN "PUBACK" ELSE "PUBREC"]
Answers == {Ack(PublishAnswer[q], id) : q \in 1..2, id \in MsgIds}
BrokerEnd == [session: BOOLEAN, refused: BOOLEAN, closed: BOOLEAN,
              unacked: SUBSET Answers, released: SUBSET MsgIds, alone: BOOLEAN]
NewBrokerEnd == [session |-> FALSE, refused |-> FALSE, closed |-> FALSE,
                 unacked |-> {}, released |-> {}, alone |-> TRUE]

TypeOK ==
  /\ EthTypeOK
  /\ pc \in {"eth", "recv", "sock", "timers", "app"}
  /\ status \in MQTTStatus
  /\ socket \in Slots \cup {NoSocket}
  /\ lastId \in Nat /\ packedID \in 5..(5 + MaxPackedID)
  /\ unknownAge \in 0..(UnknownTimeout + 1) /\ pingAge \in 0..(pingreqPrd + 1)
  /\ broker \in [Slots -> BrokerEnd]
  /\ sent \subseteq MsgIds /\ delivered \subseteq Nat
  /\ faults \in 0..MaxFaults

Fault == faults < MaxFaults /\ faults' = faults + 1

\* main() up to its loop: ethIF::init, then the constructors of tcpClient, which
\* asks for a connection, and of MQTTClient.  lastTopicPacketID has no
\* initializer: it holds whatever the stack did.
Init ==
  /\ EthInit
  /\ \E r \in createTcpSocket([s \in Slots |-> NewSocket("free")], NoSocket) :
       tcp = r.tcp /\ socket = r.socket
  /\ pc = "eth" /\ status = "Unknown"
  /\ lastId \in MsgIds \cup {0} /\ packedID = 5
  /\ unknownAge = 0 /\ pingAge = 0
  /\ broker = [s \in Slots |-> NewBrokerEnd]
  /\ sent = {} /\ delivered = {} /\ faults = 0

-----------------------------------------------------------------------------
(* The main loop: ethIF::mainTask.                                         *)

\* The time since the last turn of the loop counts here.  Each age stops at the
\* first value past its limit: the code only asks whether the limit is passed.
Least(a, b) == IF a < b THEN a ELSE b

EthStep(ticks) ==
  /\ pc = "eth" /\ pc' = "recv"
  /\ EthMainTask
  /\ unknownAge' = Least(unknownAge + ticks, UnknownTimeout + 1)
  /\ pingAge' = Least(pingAge + ticks, pingreqPrd + 1)
  /\ UNCHANGED <<status, socket, lastId, packedID, broker, sent, delivered, faults>>

-----------------------------------------------------------------------------
(* The received packet.  The buffer may hold several: its first byte, and  *)
(* so its first packet, decides; the rest is flushed with it.              *)

\* What the client makes of the buffer's first byte.  The bytes of a fragment
\* are contents, and may look like the header of anything, with no id of its own.
Looks(p) ==
  IF p.type # "FRAGMENT" THEN {p}
  ELSE {[type |-> type, qos |-> q, id |-> 0] : type \in TailLooks, q \in 0..3}

\* MQTTSubscribe: one SUBSCRIBE for all the topics of addSubTopic.
MQTTSubscribe(t, s) == sendPacket(t, s, Plain("SUBSCRIBE"))

RecvDone(newStatus) ==
  /\ status' = newStatus
  /\ flushRecvBuf(socket)
  /\ UNCHANGED <<phyStatus, socket, packedID, pingAge, broker, sent, faults>>

RecvNothing ==
  /\ getRecvBuf(socket) = <<>>
  /\ UNCHANGED <<ethVars, clientVars, broker, sent, delivered, faults>>

\* CONNACK: its return code is not looked at.
RecvConnack(p) ==
  /\ p.type = "CONNACK"
  /\ tcp' = MQTTSubscribe(tcp, socket)
  /\ RecvDone("Connected")
  /\ UNCHANGED <<lastId, unknownAge, delivered>>

\* The packets answered by a change of status alone.
StatusFor == [PINGRESP |-> "Connected", SUBACK |-> "Suback", PUBREC |-> "Pubrec",
              PUBCOMP |-> "Pubcomp", PUBACK |-> "Puback", UNSUBACK |-> "Unsuback"]

RecvStatus(p) ==
  /\ p.type \in DOMAIN StatusFor
  /\ RecvDone(StatusFor[p.type])
  /\ UNCHANGED <<tcp, lastId, unknownAge, delivered>>

\* parsePublishedTopic: what may be in lastTopicPacketID after it.  The packet's id
\* is read only if its quality has one.  It is read at the place where the length
\* says it is, also if the data ends before it: from what the buffer held before, or
\* not at all if the length does not fit the topic's.
parsePublishedTopic(p) ==
  IF p.qos = 0 THEN {lastId}
  ELSE IF p.id = 0 THEN {0, lastId} \cup MsgIds
  ELSE {p.id}

\* The acknowledgement of a quality; the header has room for a quality of 3.
Acknowledge(q, id) ==
  IF q \in DOMAIN PublishAnswer THEN sendPacket(tcp, socket, Ack(PublishAnswer[q], id))
                                ELSE tcp

\* Wrong: the acknowledgement is built before the packet is parsed.
RecvPublish_OldId(p) ==
  /\ p.type = "PUBLISH"
  /\ lastId' \in parsePublishedTopic(p)
  /\ tcp' = Acknowledge(p.qos, lastId)
  /\ delivered' = {p.id}
  /\ RecvDone("Connected")
  /\ UNCHANGED unknownAge

\* Wrong: an id is read whatever the quality is.
RecvPublish_AnyId(p) ==
  /\ p.type = "PUBLISH"
  /\ lastId' = p.id
  /\ tcp' = Acknowledge(p.qos, lastId')
  /\ delivered' = {p.id}
  /\ RecvDone("Connected")
  /\ UNCHANGED unknownAge

\* PUBLISH: the acknowledgement carries lastTopicPacketID; then the callback runs.
RecvPublish(p) ==
  /\ p.type = "PUBLISH"
  /\ lastId' \in parsePublishedTopic(p)
  /\ tcp' = Acknowledge(p.qos, lastId')
  /\ delivered' = {p.id}
  /\ RecvDone("Connected")
  /\ UNCHANGED unknownAge

\* PUBREL: the id it carries is parsed and not used.
RecvPubrel(p) ==
  /\ p.type = "PUBREL"
  /\ tcp' = sendPacket(tcp, socket, Ack("PUBCOMP", lastId))
  /\ RecvDone("Pubrel")
  /\ UNCHANGED <<lastId, unknownAge, delivered>>

\* DISCONNECT, and every type a client does not expect.
RecvOther(p) ==
  /\ p.type \in {"DISCONNECT", "CONNECT", "SUBSCRIBE", "UNSUBSCRIBE", "PINGREQ"}
  /\ unknownAge' = 0
  /\ RecvDone("Unknown")
  /\ UNCHANGED <<tcp, lastId, delivered>>

RecvStep ==
  /\ pc = "recv" /\ pc' = "sock"
  /\ \/ RecvNothing
     \/ /\ getRecvBuf(socket) # <<>>
        /\ \E p \in Looks(Head(getRecvBuf(socket))) :
             \/ RecvConnack(p) \/ RecvStatus(p) \/ RecvPublish(p)
             \/ RecvPubrel(p)  \/ RecvOther(p)

-----------------------------------------------------------------------------
(* The socket's status.                                                    *)

MQTTConnect(t, s) == sendPacket(t, s, Plain("CONNECT"))

\* tcpClient::connect.  A refusal while a socket is free is a fault.
connect(t, r) ==
  /\ r \in createTcpSocket(t, socket)
  /\ tcp' = r.tcp /\ socket' = r.socket
  /\ IF Connecting(t, r) THEN UNCHANGED faults ELSE Fault

SockNone ==
  /\ getSocketStatus(socket) \in {"created", "wrongstatus"}
  /\ status' = "Unknown"
  /\ UNCHANGED <<tcp, socket, faults>>

\* Wrong: the status of the lost connection is kept.
SockLost_KeepsStatus ==
  /\ getSocketStatus(socket) \in {"disconnected", "timeout"}
  /\ \E r \in createTcpSocket(tcp, socket) : connect(tcp, r)
  /\ UNCHANGED status

\* The status stays as it is until the new socket has news of its own, so
\* connect() is called in every turn of the loop until then.
SockLost ==
  /\ getSocketStatus(socket) \in {"disconnected", "timeout"}
  /\ \E r \in createTcpSocket(tcp, socket) : connect(tcp, r)
  /\ status' = "Unknown"

\* Wrong: the request is sent and not recorded.
SockConnected_Forgets ==
  /\ getSocketStatus(socket) = "connected"
  /\ tcp' = IF status = "Unknown" THEN MQTTConnect(tcp, socket) ELSE tcp
  /\ UNCHANGED <<status, socket, faults>>

\* Wrong: the subscription follows the request without waiting for its answer.
SockConnected_Subscribes ==
  /\ getSocketStatus(socket) = "connected"
  /\ IF status = "Unknown"
       THEN /\ tcp' = MQTTSubscribe(MQTTConnect(tcp, socket), socket)
            /\ status' = "ConnectRequested"
       ELSE UNCHANGED <<tcp, status>>
  /\ UNCHANGED <<socket, faults>>

\* A socket that is connected, with a client that has not asked for a session.
SockConnected ==
  /\ getSocketStatus(socket) = "connected"
  /\ IF status = "Unknown"
       THEN /\ tcp' = MQTTConnect(tcp, socket)
            /\ status' = "ConnectRequested"
       ELSE UNCHANGED <<tcp, status>>
  /\ UNCHANGED <<socket, faults>>

SockStep ==
  /\ pc = "sock" /\ pc' = "timers"
  /\ SockNone \/ SockLost \/ SockConnected
  /\ UNCHANGED <<socketStates, recvBuf, phyStatus, lastId, packedID,
                 unknownAge, pingAge, broker, sent, delivered>>

-----------------------------------------------------------------------------
(* The timers.                                                             *)

UnknownExpired == status = "Unknown" /\ unknownAge > UnknownTimeout
PingExpired    == pingAge > pingreqPrd

MQTTPingreq(t, s) == sendPacket(t, s, Plain("PINGREQ"))

\* Wrong: only a client with a session pings.
Ping_Connected(t, s) == IF PingExpired /\ isMQTTConnected THEN MQTTPingreq(t, s) ELSE t

\* PINGREQ goes out whatever the status is.
Ping(t, s) == IF PingExpired THEN MQTTPingreq(t, s) ELSE t

\* disconnect(); connect(); MQTTConnect(): none of the three results is looked at.
UnknownTimer ==
  /\ UnknownExpired
  /\ LET t == closeSocket(tcp, socket) IN \E r \in createTcpSocket(t, socket) :
       /\ IF Connecting(t, r) THEN UNCHANGED faults ELSE Fault
       /\ socket' = r.socket
       /\ tcp' = Ping(MQTTConnect(r.tcp, r.socket), r.socket)
  /\ status' = "ConnectRequested"
  /\ unknownAge' = 0

NoUnknownTimer ==
  /\ ~UnknownExpired
  /\ tcp' = Ping(tcp, socket)
  /\ UNCHANGED <<socket, status, unknownAge, faults>>

TimerStep ==
  /\ pc = "timers" /\ pc' = "app"
  /\ UnknownTimer \/ NoUnknownTimer
  /\ pingAge' = IF PingExpired THEN 0 ELSE pingAge
  /\ UNCHANGED <<socketStates, recvBuf, phyStatus, lastId, packedID,
                 broker, sent, delivered>>

-----------------------------------------------------------------------------
(* The application, which may call the client whatever its status is.      *)

AppIdle == UNCHANGED <<tcp, packedID>>

\* MQTTPublish, MQTTUnsubscribe and MQTTDisconnect leave the status alone.
MQTTPublish(t, s, q, id) == sendPacket(t, s, Publish(q, id))
MQTTUnsubscribe(t, s)    == sendPacket(t, s, Plain("UNSUBSCRIBE"))
MQTTDisconnect(t, s)     == sendPacket(t, s, Plain("DISCONNECT"))

\* Quality 0 as in example.cpp, or higher.
AppPublish(q) ==
  /\ packedID < 5 + MaxPackedID
  /\ packedID' = packedID + 1
  /\ tcp' = MQTTPublish(tcp, socket, q, packedID)

AppSend ==
  /\ packedID < 5 + MaxPackedID
  /\ tcp' \in {MQTTUnsubscribe(tcp, socket), MQTTDisconnect(tcp, socket)}
  /\ UNCHANGED packedID

AppStep ==
  /\ pc = "app" /\ pc' = "eth"
  /\ \/ AppIdle
     \/ \E q \in Qos : AppPublish(q)
     \/ AppSend
  /\ delivered' = {}
  /\ UNCHANGED <<socketStates, recvBuf, phyStatus, status, socket, lastId,
                 unknownAge, pingAge, broker, sent, faults>>

-----------------------------------------------------------------------------
(* Outside the program: the network, the broker and the clock.             *)

Unseen == UNCHANGED <<socketStates, recvBuf, phyStatus, clientVars>>

\* A completed handshake gives the broker a connection with nothing on it yet.
\* One that takes less than a turn of the loop, and so finds the client in the
\* status of the unknown timer that started it, counts as a fault: the client
\* then waits for a CONNACK without having sent its CONNECT.
NetConnect(s) ==
  /\ pc = "eth"
  /\ LibConnect(s)
  /\ IF status = "ConnectRequested" THEN Fault ELSE UNCHANGED faults
  /\ broker' = [broker EXCEPT ![s] = NewBrokerEnd]
  /\ UNCHANGED <<pc, clientVars, sent, delivered>>

NetRecv(s) ==
  /\ pc = "eth"
  /\ LibRecv(s) \/ LibRecvPart(s) \/ LibRecvRest(s)
  /\ UNCHANGED <<pc, clientVars, broker, sent, delivered, faults>>

NetEnd(s) ==
  /\ pc = "eth"
  /\ LibFin(s) \/ LibClosed(s)
  /\ UNCHANGED <<pc, clientVars, broker, sent, delivered, faults>>

NetReset(s) ==
  /\ pc = "eth" /\ Fault
  /\ LibReset(s)
  /\ UNCHANGED <<pc, clientVars, broker, sent, delivered>>

\* What the broker answers to a packet within a session.
BrokerAnswer(p) ==
  CASE p.type = "SUBSCRIBE"            -> <<Plain("SUBACK")>>
    [] p.type = "UNSUBSCRIBE"          -> <<Plain("UNSUBACK")>>
    [] p.type = "PINGREQ"              -> <<Plain("PINGRESP")>>
    [] p.type = "PUBREC"               -> <<Ack("PUBREL", p.id)>>
    [] p.type = "PUBLISH" /\ p.qos = 1 -> <<Ack("PUBACK", p.id)>>
    [] p.type = "PUBLISH" /\ p.qos = 2 -> <<Ack("PUBREC", p.id)>>
    [] OTHER                           -> <<>>

\* Closing drops what has not been read.
BrokerCloses(s) ==
  /\ tcp' = [tcp EXCEPT ![s].up = <<>>, ![s].fin = TRUE]
  /\ broker' = [broker EXCEPT ![s].closed = TRUE]

BrokerReads(s, p) ==
  LET b == broker[s] IN
  IF p.type = "CONNECT" /\ ~b.session
    THEN /\ tcp' = [tcp EXCEPT ![s].up = Tail(@), ![s].down = Append(@, Plain("CONNACK"))]
         /\ broker' = [broker EXCEPT ![s].session = TRUE]
    ELSE IF ~b.session \/ p.type \in {"CONNECT", "DISCONNECT"}
    THEN BrokerCloses(s)
    ELSE /\ tcp' = [tcp EXCEPT ![s].up = Tail(@), ![s].down = @ \o BrokerAnswer(p)]
         /\ broker' = [broker EXCEPT
              ![s].unacked  = @ \ {p},
              ![s].released = CASE p.type = "PUBREC"  -> @ \cup ({p.id} \cap MsgIds)
                                [] p.type = "PUBCOMP" -> @ \ {p.id}
                                [] OTHER              -> @]

Live(s) == tcp[s].st = "estab" /\ ~broker[s].closed

BrokerRecv(s) ==
  /\ pc = "eth" /\ Live(s) /\ tcp[s].up # <<>> /\ Len(tcp[s].down) < MaxQueue
  /\ BrokerReads(s, Head(tcp[s].up))
  /\ Unseen /\ UNCHANGED <<pc, sent, delivered, faults>>

\* It may refuse the CONNECT, by the return code of the CONNACK, and must then close.
BrokerRefuses(s) ==
  /\ pc = "eth" /\ Live(s) /\ tcp[s].up # <<>> /\ Len(tcp[s].down) < MaxQueue /\ Fault
  /\ Head(tcp[s].up).type = "CONNECT" /\ ~broker[s].session
  /\ tcp' = [tcp EXCEPT ![s].up = <<>>, ![s].fin = TRUE,
                        ![s].down = Append(@, Plain("CONNACK"))]
  /\ broker' = [broker EXCEPT ![s].refused = TRUE, ![s].closed = TRUE]
  /\ Unseen /\ UNCHANGED <<pc, sent, delivered>>

\* May the broker send a message of quality q to the connection b?
MayPublish(b, q) == q > 0 => Cardinality(b.unacked) + Cardinality(b.released) < Window

\* Is one of quality 2 in flight alone after that?
Alone(b, q) ==
  \/ q = 0
  \/ b.unacked = {} /\ b.released = {}
  \/ q = 1 /\ b.released = {} /\ \A p \in b.unacked : p.type = PublishAnswer[1]

\* A message of the broker: queued retained ones may follow the CONNACK at once.
BrokerPublish(s) ==
  /\ pc = "eth" /\ Live(s) /\ broker[s].session /\ Len(tcp[s].down) < MaxQueue
  /\ \E id \in MsgIds \ sent, q \in Qos :
       /\ MayPublish(broker[s], q)
       /\ sent' = sent \cup {id}
       /\ tcp' = [tcp EXCEPT ![s].down = Append(@, Publish(q, id))]
       /\ broker' = [broker EXCEPT
              ![s].unacked = IF q = 0 THEN @ ELSE @ \cup {Ack(PublishAnswer[q], id)},
              ![s].alone = @ /\ Alone(broker[s], q)]
  /\ Unseen /\ UNCHANGED <<pc, delivered, faults>>

BrokerClose(s) ==
  /\ pc = "eth" /\ Live(s) /\ Fault
  /\ BrokerCloses(s)
  /\ Unseen /\ UNCHANGED <<pc, sent, delivered>>

\* millis32 starts over: "fix millis32 rollup" makes an age start over, or count
\* from a small value if the timer had been set just after a start of the clock.
Rollover ==
  /\ pc = "eth" /\ Fault
  /\ unknownAge' \in 0..unknownAge /\ pingAge' \in 0..pingAge
  /\ UNCHANGED <<ethVars, pc, status, socket, lastId, packedID,
                 broker, sent, delivered>>

-----------------------------------------------------------------------------
MainLoop == (\E ticks \in 0..MaxTurn : EthStep(ticks)) \/ RecvStep \/ SockStep \/ TimerStep \/ AppStep

Environment ==
  \/ \E s \in Slots : \/ NetConnect(s) \/ NetRecv(s) \/ NetEnd(s) \/ NetReset(s)
                      \/ BrokerRecv(s) \/ BrokerRefuses(s)
                      \/ BrokerPublish(s) \/ BrokerClose(s)
  \/ Rollover

Next == MainLoop \/ Environment

Spec == Init /\ [][Next]_vars

(***************************************************************************)
(* Fairness, for the liveness property.  The loop never stops; the library *)
(* and the broker get on with what they have to do infinitely often; time  *)
(* passes.                                                                 *)
(***************************************************************************)
Fairness ==
  /\ WF_vars(MainLoop) /\ SF_vars(EthStep(MaxTurn))
  /\ \A s \in Slots :
       /\ SF_vars(NetConnect(s))
       /\ SF_vars(NetRecv(s)) /\ SF_vars(NetEnd(s)) /\ SF_vars(BrokerRecv(s))

FairSpec == Spec /\ Fairness

-----------------------------------------------------------------------------
(* Properties.                                                             *)

InFlight(s) == {i \in 1..Len(tcp[s].up) : tcp[s].st = "estab"}

\* Every PUBACK and PUBREC on its way to the broker answers a PUBLISH of this
\* very connection that the broker still waits to see answered, with its id and
\* its quality, and answers it once: the buffer is parsed once, never after its
\* connection was replaced, and lastTopicPacketID is that of the packet parsed.  It
\* holds for packets that TCP delivers in one piece (~Split).
AckOwed ==
  \A s \in Slots : \A i \in InFlight(s) :
    LET p == tcp[s].up[i] IN
      p.type \in {"PUBACK", "PUBREC"} =>
        /\ p \in broker[s].unacked
        /\ \A j \in InFlight(s) : tcp[s].up[j] = p => j = i

\* SUBSCRIBE travels only on a connection whose CONNECT the broker has answered:
\* the CONNACK that it follows was not that of an earlier connection.
Answered(s) == broker[s].session \/ broker[s].refused

SubscribeAfterConnack ==
  \A s \in Slots : \A i \in InFlight(s) :
    tcp[s].up[i].type = "SUBSCRIBE" => Answered(s)

\* A client that says isMQTTConnected() over an established connection has been
\* answered on that connection, and not merely on the last: it has a session there
\* unless the broker refused it one.
ConnectedIsAnswered ==
  socket # NoSocket =>
    (isMQTTConnected /\ tcp[socket].st = "estab" => Answered(socket))

\* It has a session, whatever the broker answered.
NoPhantomSession ==
  socket # NoSocket =>
    (isMQTTConnected /\ tcp[socket].st = "estab" => broker[socket].session)

\* Received data is looked at and flushed in the turn of the loop that read it,
\* so that dataLoopback never copies over data nobody has seen and no data of
\* one connection is left for the next.
BufferDrained ==
  pc # "recv" => \A s \in Slots : recvBuf[s] = <<>>

(***************************************************************************)
(* Why these hold with one TCP socket, all but NoPhantomSession: the       *)
(* invariant that every step of the program and of its environment         *)
(* preserves.                                                              *)
(***************************************************************************)
OneSlot == \A s, t \in Slots : s = t

Subscribes(q) == \E i \in 1..Len(q) : q[i].type = "SUBSCRIBE"

\* A client that never got a socket has left none behind.
NoSocketYet ==
  socket = NoSocket => \A s \in Slots :
    tcp[s].st = "free" /\ tcp[s].flags = {} /\ tcp[s].rx = <<>> /\ recvBuf[s] = <<>>

\* A socket that has not connected has nothing of an earlier connection to show,
\* and its client knows that it has no session.
FreshIsClean == \A s \in Slots :
  tcp[s].st \in {"synsent", "idle"} =>
    /\ tcp[s].flags = {} /\ tcp[s].rx = <<>> /\ tcp[s].down = <<>>
    /\ recvBuf[s] = <<>> /\ ~Subscribes(tcp[s].up)
    /\ status \in {"Unknown", "ConnectRequested"}

\* The program knows of an established connection, or is about to be told.
ConnectedIsKnown == \A s \in Slots :
  tcp[s].st = "estab" =>
    /\ tcp[s].flags \subseteq {"RECV", "CONNECT"}
    /\ socketStates[s] = "connected" \/ (pc = "eth" /\ tcp[s].flags # {})
    /\ pc \in {"timers", "app"} => status # "Unknown"

\* Whatever came from the broker, and what the client made of it, came of the
\* answer to this connection's CONNECT.
DataIsAnswered == \A s \in Slots :
  /\ tcp[s].st = "estab"
  /\ \/ tcp[s].down # <<>> \/ tcp[s].rx # <<>> \/ recvBuf[s] # <<>>
     \/ isMQTTConnected \/ Subscribes(tcp[s].up)
  => Answered(s)

IInv ==
  TypeOK /\ NoSocketYet /\ BufferDrained /\ FreshIsClean /\ ConnectedIsKnown /\ DataIsAnswered

\* Every PUBCOMP on its way completes a message the broker released on this
\* connection (PUBREL) and still waits for.
PubcompIsOwed(s) ==
  \A i \in InFlight(s) :
    tcp[s].up[i].type = "PUBCOMP" => tcp[s].up[i].id \in broker[s].released

PubcompMatches == \A s \in Slots : PubcompIsOwed(s)

\* It is so as long as the broker has sent no message with an id between one of
\* quality 2 and its PUBCOMP: this carries lastTopicPacketID, which no message of
\* quality 0, no other packet and no lost connection changes in between.
PubcompMatchesAlone == \A s \in Slots : broker[s].alone => PubcompIsOwed(s)

\* The unknown timer never closes an established connection: however stale
\* unknownTmr is, a client on a live socket has left MQTTUnknown by then.
TimerSparesLive ==
  [][TimerStep /\ UnknownTimer => socket = NoSocket \/ tcp[socket].st # "estab"]_vars

\* When mainTask returns with a client that says it is connected, the connection
\* is there as far as the library has told the program.
CorrectStatus ==
  pc = "app" /\ isMQTTConnected => socket # NoSocket /\ tcp[socket].st = "estab"

\* The callback has seen every PUBLISH in the data the client flushes.
EveryTopicSeen ==
  [][RecvStep => \A i \in 1..Len(getRecvBuf(socket)) :
       LET p == getRecvBuf(socket)[i] IN
         p.type = "PUBLISH" => p.id \in delivered']_vars

\* Whatever is lost, refused or reset, a finite number of times: in the end the
\* client has a session again, and keeps it.
Healthy ==
  /\ socket # NoSocket /\ tcp[socket].st = "estab"
  /\ isMQTTConnected /\ broker[socket].session

Recovers == <>[]Healthy
=============================================================================
