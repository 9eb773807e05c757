------------------------- MODULE MQTTClient_proofs -------------------------
(***************************************************************************)
(* Proofs about MQTTClient: its types for every value of the constants,    *)
(* and, for the one TCP socket net_config.h gives it (WCHNET_NUM_TCP = 1), *)
(* that the state of the client follows that of its connection.            *)
(***************************************************************************)
EXTENDS MQTTClient, TLAPS

Sockets == [Slots -> Socket]
Ids     == Slots \cup {NoSocket}

LEMMA PacketTypes ==
  /\ \A type \in Types : Plain(type) \in Packet
  /\ \A type \in Types, id \in Nat : Ack(type, id) \in Packet
  /\ \A q \in 0..2, id \in Nat : Publish(q, id) \in Packet
  /\ \A p \in Packet : FirstParts(p) \subseteq Packet /\ Rest(p) \in Packet
BY DEF FirstParts, Rest, Plain, Ack, Publish, Packet, Types, AckTypes

LEMMA NewSocketType == \A st \in PcbState : NewSocket(st) \in Socket
BY DEF NewSocket, Socket, PcbState, SocketInt

LEMMA SendType ==
  ASSUME NEW t \in Sockets, NEW s \in Ids, NEW p \in Packet
  PROVE  sendPacket(t, s, p) \in Sockets
<1>1. CASE ~Sendable(t, s)
  BY <1>1 DEF sendPacket
<1>2. CASE Sendable(t, s)
  <2>1. s \in Slots
    BY <1>2 DEF Sendable, Ids
  <2>2. [t[s] EXCEPT !.up = Append(@, p)] \in Socket
    <3>1. t[s] \in Socket
      BY <2>1 DEF Sockets
    <3>2. t[s].up \in Seq(Packet)
      BY <3>1 DEF Socket
    <3>3. Append(t[s].up, p) \in Seq(Packet)
      BY <3>2
    <3> QED
      BY <3>1, <3>3 DEF Socket
  <2> QED
    BY <1>2, <2>1, <2>2 DEF sendPacket, Sockets
<1> QED
  BY <1>1, <1>2

LEMMA AcknowledgeType ==
  ASSUME NEW q \in 0..3, NEW id \in Nat
  PROVE  \/ Acknowledge(q, id) = tcp
         \/ \E p \in Packet : /\ Acknowledge(q, id) = sendPacket(tcp, socket, p)
                             /\ p.type \in {"PUBACK", "PUBREC"}
<1>1. CASE q \notin DOMAIN PublishAnswer
  BY <1>1 DEF Acknowledge
<1>2. CASE q \in DOMAIN PublishAnswer
  <2>1. PublishAnswer[q] \in {"PUBACK", "PUBREC"}
    BY <1>2 DEF PublishAnswer
  <2>2. PublishAnswer[q] \in Types
    BY <2>1 DEF Types, AckTypes
  <2>3. Ack(PublishAnswer[q], id) \in Packet
    BY <2>2, PacketTypes
  <2> QED
    BY <1>2, <2>1, <2>3 DEF Acknowledge, Ack
<1> QED
  BY <1>1, <1>2

\* The packet the client takes the received data for.
LEMMA LooksType ==
  ASSUME TypeOK, getRecvBuf(socket) # <<>>, NEW p \in Looks(Head(getRecvBuf(socket)))
  PROVE  /\ socket \in Slots /\ recvBuf[socket] # <<>>
         /\ p.id \in Nat /\ p.qos \in 0..3
<1>1. socket \in Slots /\ socket # NoSocket /\ recvBuf[socket] # <<>>
  BY SlotsAssumption DEF getRecvBuf, TypeOK
<1>2. Head(recvBuf[socket]) \in Packet
  BY <1>1 DEF TypeOK, EthTypeOK
<1>3. CASE Head(recvBuf[socket]).type # "FRAGMENT"
  BY <1>1, <1>2, <1>3 DEF getRecvBuf, Looks, Packet
<1>4. CASE Head(recvBuf[socket]).type = "FRAGMENT"
  BY <1>1, <1>4 DEF getRecvBuf, Looks
<1> QED
  BY <1>1, <1>3, <1>4

LEMMA PublishedIdType ==
  ASSUME TypeOK, NEW p, p.id \in Nat, NEW id \in parsePublishedTopic(p)
  PROVE  id \in Nat
BY ClientAssumption DEF parsePublishedTopic, TypeOK

LEMMA CreateType ==
  ASSUME NEW t \in Sockets, NEW s \in Ids, NEW r \in createTcpSocket(t, s)
  PROVE  r.tcp \in Sockets /\ r.socket \in Ids
<1>1. {"synsent", "idle"} \subseteq PcbState
  BY DEF PcbState
<1> QED
  BY <1>1, NewSocketType DEF createTcpSocket, FreeSlots, Sockets, Ids

LEMMA CloseType ==
  ASSUME NEW t \in Sockets, NEW s \in Ids
  PROVE  closeSocket(t, s) \in Sockets
<1>1. {"closing", "free"} \subseteq PcbState
  BY DEF PcbState
<1> QED
  BY <1>1, NewSocketType, SlotsAssumption DEF closeSocket, Sockets, Ids

LEMMA PingType ==
  ASSUME NEW t \in Sockets, NEW s \in Ids
  PROVE  Ping(t, s) \in Sockets
<1>1. Plain("PINGREQ") \in Packet
  BY PacketTypes DEF Types
<1> QED
  BY <1>1, SendType DEF Ping, MQTTPingreq

-----------------------------------------------------------------------------
(* The types, one lemma per part of the main loop.                         *)

LEMMA InitType == Init => TypeOK
<1> SUFFICES ASSUME Init PROVE TypeOK
  OBVIOUS
<1> USE DEF Init
<1>1. [s \in Slots |-> NewSocket("free")] \in Sockets
  BY NewSocketType DEF Sockets, PcbState
<1>2. NoSocket \in Ids
  BY DEF Ids
<1>3. tcp \in Sockets /\ socket \in Ids
  BY <1>1, <1>2, CreateType
<1>4. EthTypeOK
  BY <1>3 DEF EthTypeOK, EthInit, Sockets, SocketStatus, PhyStatus
<1>5. broker \in [Slots -> BrokerEnd]
  BY DEF NewBrokerEnd, BrokerEnd
<1> QED
  BY <1>3, <1>4, <1>5, ClientAssumption DEF TypeOK, Ids, MQTTStatus

LEMMA LeastType == \A a, b \in Nat : Least(a, b) \in 0..b
BY DEF Least

LEMMA EthStepType ==
  ASSUME TypeOK, NEW ticks \in 0..MaxTurn, EthStep(ticks)
  PROVE  TypeOK'
<1>1. tcp' \in Sockets
  <2>1. ASSUME NEW s \in Slots
        PROVE  [tcp[s] EXCEPT !.flags = {},
                  !.rx = IF "RECV" \in tcp[s].flags THEN <<>> ELSE @] \in Socket
    <3>1. tcp[s] \in Socket
      BY DEF TypeOK, EthTypeOK
    <3>2. \A rx \in Seq(Packet) : [tcp[s] EXCEPT !.flags = {}, !.rx = rx] \in Socket
      BY <3>1 DEF Socket
    <3>3. (IF "RECV" \in tcp[s].flags THEN <<>> ELSE tcp[s].rx) \in Seq(Packet)
      BY <3>1 DEF Socket
    <3> QED
      BY <3>2, <3>3
  <2> QED
    BY <2>1 DEF EthStep, EthMainTask, Sockets
<1>2. socketStates' \in [Slots -> SocketStatus]
  BY DEF EthStep, EthMainTask, TypeOK, EthTypeOK, StateAfter, SocketStatus
<1>3. recvBuf' \in [Slots -> Seq(Packet)]
  BY DEF EthStep, EthMainTask, TypeOK, EthTypeOK, Socket
<1>4. phyStatus' \in PhyStatus
  BY DEF EthStep, EthMainTask, TypeOK, EthTypeOK, PhyAfter, PhyStatus
<1>5. unknownAge' \in 0..(UnknownTimeout + 1) /\ pingAge' \in 0..(pingreqPrd + 1)
  <2>1. UnknownTimeout \in Nat /\ pingreqPrd \in Nat /\ MaxTurn \in Nat
    BY ClientAssumption
  <2>2. unknownAge \in 0..(UnknownTimeout + 1) /\ pingAge \in 0..(pingreqPrd + 1)
    BY DEF TypeOK
  <2>3. /\ unknownAge' = Least(unknownAge + ticks, UnknownTimeout + 1)
        /\ pingAge' = Least(pingAge + ticks, pingreqPrd + 1)
    BY DEF EthStep
  <2>4. ticks \in Nat /\ unknownAge \in Nat /\ pingAge \in Nat
    BY <2>1, <2>2
  <2>5. unknownAge + ticks \in Nat /\ pingAge + ticks \in Nat
    BY <2>4
  <2>6. UnknownTimeout + 1 \in Nat /\ pingreqPrd + 1 \in Nat
    BY <2>1
  <2> QED
    BY <2>3, <2>5, <2>6, LeastType
<1> QED
  BY <1>1, <1>2, <1>3, <1>4, <1>5 DEF EthStep, TypeOK, EthTypeOK, Sockets

LEMMA RecvStepType ==
  ASSUME TypeOK, RecvStep
  PROVE  TypeOK'
<1>1. CASE RecvNothing
  BY <1>1 DEF RecvStep, RecvNothing, TypeOK, EthTypeOK, ethVars, clientVars
<1>2. ASSUME getRecvBuf(socket) # <<>>,
             NEW p \in Looks(Head(getRecvBuf(socket))),
             RecvConnack(p) \/ RecvStatus(p) \/ RecvPublish(p)
             \/ RecvPubrel(p)  \/ RecvOther(p)
      PROVE  TypeOK'
  <2>1. socket \in Slots /\ recvBuf[socket] # <<>>
    BY <1>2, LooksType
  <2>3. p.id \in Nat /\ p.qos \in 0..3
    BY <1>2, LooksType
  <2>4. tcp \in Sockets /\ socket \in Ids
    BY DEF TypeOK, EthTypeOK, Sockets, Ids
  <2>5. /\ tcp' \in Sockets /\ lastId' \in Nat /\ delivered' \subseteq Nat
        /\ unknownAge' \in 0..(UnknownTimeout + 1)
        /\ \E st \in MQTTStatus : RecvDone(st)
    <3>1. CASE RecvConnack(p)
      <4>1. Plain("SUBSCRIBE") \in Packet
        BY PacketTypes DEF Types
      <4> QED
        BY <3>1, <4>1, <2>4, SendType DEF RecvConnack, TypeOK, MQTTStatus, MQTTSubscribe
    <3>2. CASE RecvStatus(p)
      <4>1. StatusFor[p.type] \in MQTTStatus
        BY <3>2 DEF RecvStatus, StatusFor, MQTTStatus
      <4> QED
        BY <3>2, <4>1, <2>4 DEF RecvStatus, TypeOK
    <3>3. CASE RecvPublish(p)
      <4>1. lastId' \in Nat /\ delivered' \subseteq Nat
        BY <3>3, <2>3, PublishedIdType DEF RecvPublish
      <4>3. tcp' \in Sockets
        BY <3>3, <4>1, <2>3, <2>4, AcknowledgeType, SendType DEF RecvPublish
      <4> QED
        BY <3>3, <4>1, <4>3 DEF RecvPublish, TypeOK, MQTTStatus
    <3>4. CASE RecvPubrel(p)
      <4>1. Ack("PUBCOMP", lastId) \in Packet
        BY PacketTypes DEF Types, AckTypes, TypeOK
      <4> QED
        BY <3>4, <4>1, <2>4, SendType DEF RecvPubrel, TypeOK, MQTTStatus
    <3>5. CASE RecvOther(p)
      BY <3>5, <2>4, ClientAssumption DEF RecvOther, TypeOK, MQTTStatus
    <3> QED
      BY <1>2, <3>1, <3>2, <3>3, <3>4, <3>5
  <2>6. /\ recvBuf' \in [Slots -> Seq(Packet)]
        /\ socketStates' \in [Slots -> SocketStatus]
    <3>1. <<>> \in Seq(Packet) /\ "connected" \in SocketStatus
      BY DEF SocketStatus
    <3>2. /\ recvBuf' = [recvBuf EXCEPT ![socket] = <<>>]
          /\ socketStates' = [socketStates EXCEPT ![socket] = "connected"]
      BY <2>5 DEF RecvDone, flushRecvBuf
    <3> QED
      BY <2>1, <3>1, <3>2 DEF TypeOK, EthTypeOK
  <2>7. pc' = "sock"
    BY DEF RecvStep
  <2>8. status' \in MQTTStatus
    BY <2>5 DEF RecvDone
  <2> QED
    BY <2>5, <2>6, <2>7, <2>8 DEF RecvDone, TypeOK, EthTypeOK, Sockets
<1> QED
  BY <1>1, <1>2 DEF RecvStep

LEMMA SockStepType ==
  ASSUME TypeOK, SockStep
  PROVE  TypeOK'
<1>1. tcp \in Sockets /\ socket \in Ids
  BY DEF TypeOK, EthTypeOK, Sockets, Ids
<1>2. /\ tcp' \in Sockets /\ socket' \in Ids
      /\ status' \in MQTTStatus /\ faults' \in 0..MaxFaults
  <2>1. CASE SockNone
    BY <1>1, <2>1 DEF SockNone, TypeOK, MQTTStatus
  <2>2. CASE SockLost
    <3> PICK r \in createTcpSocket(tcp, socket) : connect(tcp, r)
      BY <2>2 DEF SockLost
    <3>1. tcp' \in Sockets /\ socket' \in Ids
      BY <1>1, CreateType DEF connect
    <3>2. faults' \in 0..MaxFaults
      BY ClientAssumption DEF connect, Fault, TypeOK
    <3> QED
      BY <2>2, <3>1, <3>2 DEF SockLost, MQTTStatus
  <2>3. CASE SockConnected
    <3>1. Plain("CONNECT") \in Packet
      BY PacketTypes DEF Types
    <3> QED
      BY <1>1, <2>3, <3>1, SendType DEF SockConnected, TypeOK, MQTTStatus, MQTTConnect
  <2> QED
    BY <2>1, <2>2, <2>3 DEF SockStep
<1> QED
  BY <1>2 DEF SockStep, TypeOK, EthTypeOK, Sockets, Ids

LEMMA TimerStepType ==
  ASSUME TypeOK, TimerStep
  PROVE  TypeOK'
<1>1. tcp \in Sockets /\ socket \in Ids
  BY DEF TypeOK, EthTypeOK, Sockets, Ids
<1>2. /\ tcp' \in Sockets /\ socket' \in Ids /\ status' \in MQTTStatus
      /\ faults' \in 0..MaxFaults /\ unknownAge' \in 0..(UnknownTimeout + 1)
  <2>1. CASE UnknownTimer
    <3> DEFINE t == closeSocket(tcp, socket)
    <3>1. PICK r \in createTcpSocket(t, socket) :
            /\ IF Connecting(t, r) THEN UNCHANGED faults ELSE Fault
            /\ socket' = r.socket
            /\ tcp' = Ping(MQTTConnect(r.tcp, r.socket), r.socket)
      BY <2>1 DEF UnknownTimer
    <3>2. t \in Sockets
      BY <1>1, CloseType
    <3> HIDE DEF t
    <3>3. r.tcp \in Sockets /\ r.socket \in Ids
      BY <1>1, <3>2, CreateType
    <3>4. Plain("CONNECT") \in Packet
      BY PacketTypes DEF Types
    <3>5. MQTTConnect(r.tcp, r.socket) \in Sockets
      BY <3>3, <3>4, SendType DEF MQTTConnect
    <3>6. tcp' \in Sockets
      BY <3>1, <3>3, <3>5, PingType
    <3>7. faults' \in 0..MaxFaults
      BY <3>1, ClientAssumption DEF Fault, TypeOK
    <3> QED
      BY <2>1, <3>1, <3>3, <3>6, <3>7, ClientAssumption DEF UnknownTimer, MQTTStatus
  <2>2. CASE NoUnknownTimer
    BY <1>1, <2>2, PingType DEF NoUnknownTimer, TypeOK
  <2> QED
    BY <2>1, <2>2 DEF TimerStep
<1>3. pingAge' \in 0..(pingreqPrd + 1)
  BY ClientAssumption DEF TimerStep, TypeOK
<1> QED
  BY <1>2, <1>3 DEF TimerStep, TypeOK, EthTypeOK, Sockets, Ids

LEMMA AppStepType ==
  ASSUME TypeOK, AppStep
  PROVE  TypeOK'
<1>1. tcp \in Sockets /\ socket \in Ids
  BY DEF TypeOK, EthTypeOK, Sockets, Ids
<1>2. tcp' \in Sockets /\ packedID' \in 5..(5 + MaxPackedID)
  <2>1. CASE AppIdle
    BY <1>1, <2>1 DEF AppIdle, TypeOK
  <2>2. ASSUME NEW q \in Qos, AppPublish(q)
        PROVE  tcp' \in Sockets /\ packedID' \in 5..(5 + MaxPackedID)
    <3>1. Publish(q, packedID) \in Packet
      BY ClientAssumption, PacketTypes DEF TypeOK
    <3> QED
      BY <1>1, <2>2, <3>1, SendType, ClientAssumption DEF AppPublish, MQTTPublish, TypeOK
  <2>3. CASE AppSend
    <3>1. Plain("UNSUBSCRIBE") \in Packet /\ Plain("DISCONNECT") \in Packet
      BY PacketTypes DEF Types
    <3> QED
      BY <1>1, <2>3, <3>1, SendType DEF AppSend, MQTTUnsubscribe, MQTTDisconnect, TypeOK
  <2> QED
    BY <2>1, <2>2, <2>3 DEF AppStep
<1> QED
  BY <1>2 DEF AppStep, TypeOK, EthTypeOK, Sockets

LEMMA MainLoopType ==
  ASSUME TypeOK, MainLoop
  PROVE  TypeOK'
BY EthStepType, RecvStepType, SockStepType, TimerStepType, AppStepType DEF MainLoop

-----------------------------------------------------------------------------
(* The types, one lemma per event of the environment.                      *)

LEMMA LostType ==
  ASSUME TypeOK, NEW s \in Slots, NEW f \in SocketInt, Lost(s, f)
  PROVE  tcp' \in Sockets
<1>1. tcp[s] \in Socket /\ NewSocket("free") \in Socket
  BY NewSocketType DEF TypeOK, EthTypeOK, PcbState
<1>2. tcp[s].flags \cup {f} \in SUBSET SocketInt /\ tcp[s].rx \in Seq(Packet)
  BY <1>1 DEF Socket
<1>3. [NewSocket("free") EXCEPT !.flags = tcp[s].flags \cup {f}, !.rx = tcp[s].rx] \in Socket
  BY <1>1, <1>2 DEF Socket
<1> QED
  BY <1>3 DEF Lost, TypeOK, EthTypeOK, Sockets

\* Data arrives: what the program can read and what is still to come change.
LEMMA NetRecvType ==
  ASSUME TypeOK, NEW s \in Slots, NetRecv(s)
  PROVE  /\ tcp[s].st = "estab" /\ tcp[s].down # <<>>
         /\ \E q, d \in Seq(Packet) :
              tcp' = [tcp EXCEPT ![s] = [tcp[s] EXCEPT !.flags = @ \cup {"RECV"},
                                                       !.rx = q, !.down = d]]
<1>1. tcp \in [Slots -> Socket] /\ tcp[s] \in Socket
  BY DEF TypeOK, EthTypeOK
<1>2. tcp[s].down \in Seq(Packet) /\ tcp[s].rx \in Seq(Packet) /\ tcp[s].down # <<>>
  BY <1>1 DEF NetRecv, LibRecv, LibRecvPart, LibRecvRest, Socket
<1>3. Head(tcp[s].down) \in Packet /\ Tail(tcp[s].down) \in Seq(Packet)
  BY <1>2
<1>4. CASE LibRecv(s)
  <2>1. tcp' = [tcp EXCEPT ![s] = [tcp[s] EXCEPT
          !.flags = @ \cup {"RECV"}, !.rx = Append(tcp[s].rx, Head(tcp[s].down)),
          !.down = Tail(tcp[s].down)]]
    BY <1>1, <1>4 DEF LibRecv, Raise, Socket
  <2>2. Append(tcp[s].rx, Head(tcp[s].down)) \in Seq(Packet)
    BY <1>2, <1>3
  <2> QED
    BY <1>2, <1>3, <1>4, <2>1, <2>2 DEF LibRecv
<1>5. CASE LibRecvPart(s)
  <2>1. PICK part \in FirstParts(Head(tcp[s].down)) :
          tcp' = [Raise(s, {"RECV"}) EXCEPT ![s].rx = Append(@, part),
                                            ![s].down = [@ EXCEPT ![1] = Rest(Head(tcp[s].down))]]
    BY <1>5 DEF LibRecvPart
  <2>2. part \in Packet /\ Rest(Head(tcp[s].down)) \in Packet
    BY <1>3, PacketTypes
  <2> DEFINE rest == [tcp[s].down EXCEPT ![1] = Rest(Head(tcp[s].down))]
  <2>4. tcp' = [tcp EXCEPT ![s] = [tcp[s] EXCEPT
          !.flags = @ \cup {"RECV"}, !.rx = Append(tcp[s].rx, part), !.down = rest]]
    BY <1>1, <2>1 DEF Raise, Socket
  <2>5. rest \in Seq(Packet)
    BY <1>2, <2>2
  <2> HIDE DEF rest
  <2>6. Append(tcp[s].rx, part) \in Seq(Packet)
    BY <1>2, <2>2
  <2> QED
    BY <1>2, <1>5, <2>4, <2>5, <2>6 DEF LibRecvPart
<1>6. CASE LibRecvRest(s)
  <2> DEFINE h == Head(tcp[s].down)
             q == IF tcp[s].rx = <<>> THEN <<h>>
                  ELSE [tcp[s].rx EXCEPT ![Len(tcp[s].rx)].id = h.id]
  <2>1. tcp' = [tcp EXCEPT ![s] = [tcp[s] EXCEPT
          !.flags = @ \cup {"RECV"}, !.rx = q, !.down = Tail(tcp[s].down)]]
    BY <1>1, <1>6 DEF LibRecvRest, Raise, Socket
  <2>2. q \in Seq(Packet)
    <3>1. CASE tcp[s].rx = <<>>
      BY <1>3, <3>1
    <3>2. CASE tcp[s].rx # <<>>
      <4>1. Len(tcp[s].rx) \in 1..Len(tcp[s].rx) /\ tcp[s].rx[Len(tcp[s].rx)] \in Packet
        BY <1>2, <3>2
      <4>2. [tcp[s].rx[Len(tcp[s].rx)] EXCEPT !.id = h.id] \in Packet
        BY <1>3, <4>1 DEF Packet
      <4> QED
        BY <1>2, <3>2, <4>1, <4>2
    <3> QED
      BY <3>1, <3>2
  <2> HIDE DEF q
  <2> QED
    BY <1>2, <1>3, <1>6, <2>1, <2>2 DEF LibRecvRest
<1> QED
  BY <1>4, <1>5, <1>6 DEF NetRecv

LEMMA NetType ==
  ASSUME TypeOK, NEW s \in Slots, NetConnect(s) \/ NetRecv(s) \/ NetEnd(s) \/ NetReset(s)
  PROVE  TypeOK'
<1>1. tcp[s] \in Socket
  BY DEF TypeOK, EthTypeOK
<1>2. CASE NetConnect(s)
  <2>1. [tcp[s] EXCEPT !.flags = @ \cup {"CONNECT"}, !.st = "estab"] \in Socket
    <3>1. tcp[s].flags \cup {"CONNECT"} \in SUBSET SocketInt /\ "estab" \in PcbState
      BY <1>1 DEF Socket, SocketInt, PcbState
    <3> QED
      BY <1>1, <3>1 DEF Socket
  <2>2. tcp' = [tcp EXCEPT ![s] = [tcp[s] EXCEPT !.flags = @ \cup {"CONNECT"}, !.st = "estab"]]
    BY <1>1, <1>2 DEF NetConnect, LibConnect, Raise, TypeOK, EthTypeOK
  <2>3. tcp' \in Sockets
    BY <2>1, <2>2 DEF Sockets, TypeOK, EthTypeOK
  <2>4. broker' \in [Slots -> BrokerEnd]
    BY <1>2 DEF NetConnect, NewBrokerEnd, BrokerEnd, TypeOK
  <2>5. faults' \in 0..MaxFaults
    BY <1>2, ClientAssumption DEF NetConnect, Fault, TypeOK
  <2> QED
    BY <1>2, <2>3, <2>4, <2>5 DEF NetConnect, LibConnect, TypeOK, EthTypeOK, Sockets, clientVars
<1>3. CASE NetRecv(s)
  <2>1. PICK q, d \in Seq(Packet) :
          tcp' = [tcp EXCEPT ![s] = [tcp[s] EXCEPT !.flags = @ \cup {"RECV"},
                                                   !.rx = q, !.down = d]]
    BY <1>3, NetRecvType
  <2>2. tcp[s].flags \cup {"RECV"} \in SUBSET SocketInt
    BY <1>1 DEF Socket, SocketInt
  <2>3. tcp' \in Sockets
    BY <1>1, <2>1, <2>2 DEF Socket, Sockets, TypeOK, EthTypeOK
  <2> QED
    BY <1>3, <2>3 DEF NetRecv, LibRecv, LibRecvPart, LibRecvRest, TypeOK, EthTypeOK,
                      Sockets, clientVars
<1>4. CASE NetEnd(s)
  <2>1. Lost(s, "DISCONNECT")
    BY <1>4 DEF NetEnd, LibFin, LibClosed
  <2>2. tcp' \in Sockets
    BY <2>1, LostType DEF SocketInt
  <2> QED
    BY <1>4, <2>2 DEF NetEnd, LibFin, LibClosed, TypeOK, EthTypeOK, Sockets, clientVars
<1>5. CASE NetReset(s)
  <2>1. tcp' \in Sockets
    BY <1>5, LostType DEF NetReset, LibReset, SocketInt
  <2>2. faults' \in 0..MaxFaults
    BY <1>5, ClientAssumption DEF NetReset, Fault, TypeOK
  <2> QED
    BY <1>5, <2>1, <2>2 DEF NetReset, LibReset, TypeOK, EthTypeOK, Sockets, clientVars
<1> QED
  BY <1>2, <1>3, <1>4, <1>5

LEMMA BrokerClosesType ==
  ASSUME TypeOK, NEW s \in Slots, BrokerCloses(s)
  PROVE  tcp' \in Sockets /\ broker' \in [Slots -> BrokerEnd]
<1>1. tcp[s] \in Socket /\ broker[s] \in BrokerEnd
  BY DEF TypeOK, EthTypeOK
<1>2. [tcp[s] EXCEPT !.up = <<>>, !.fin = TRUE] \in Socket
  <2>1. <<>> \in Seq(Packet)
    OBVIOUS
  <2> QED
    BY <1>1, <2>1 DEF Socket
<1>3. tcp' = [tcp EXCEPT ![s] = [tcp[s] EXCEPT !.up = <<>>, !.fin = TRUE]]
  BY <1>1 DEF BrokerCloses, TypeOK, EthTypeOK
<1>4. [broker[s] EXCEPT !.closed = TRUE] \in BrokerEnd
  BY <1>1 DEF BrokerEnd
<1> QED
  BY <1>2, <1>3, <1>4 DEF BrokerCloses, TypeOK, EthTypeOK, Sockets

\* A refusal: nothing more to read, one CONNACK more to deliver.
LEMMA BrokerRefusesType ==
  ASSUME TypeOK, NEW s \in Slots, BrokerRefuses(s)
  PROVE  /\ tcp' \in Sockets /\ broker' \in [Slots -> BrokerEnd]
         /\ tcp' = [tcp EXCEPT ![s] = [tcp[s] EXCEPT !.up = <<>>, !.fin = TRUE,
                                  !.down = Append(tcp[s].down, Plain("CONNACK"))]]
         /\ broker' = [broker EXCEPT ![s] = [broker[s] EXCEPT !.refused = TRUE,
                                                              !.closed = TRUE]]
<1>1. tcp[s] \in Socket /\ broker[s] \in BrokerEnd
  BY DEF TypeOK, EthTypeOK
<1>2. tcp' = [tcp EXCEPT ![s] = [tcp[s] EXCEPT !.up = <<>>, !.fin = TRUE,
                            !.down = Append(tcp[s].down, Plain("CONNACK"))]]
  BY <1>1 DEF BrokerRefuses, Socket, TypeOK, EthTypeOK
<1>3. broker' = [broker EXCEPT ![s] = [broker[s] EXCEPT !.refused = TRUE,
                                                        !.closed = TRUE]]
  BY <1>1 DEF BrokerRefuses, BrokerEnd, TypeOK
<1>4. Append(tcp[s].down, Plain("CONNACK")) \in Seq(Packet) /\ <<>> \in Seq(Packet)
  BY <1>1, PacketTypes DEF Socket, Types
<1> QED
  BY <1>1, <1>2, <1>3, <1>4 DEF Socket, BrokerEnd, Sockets, TypeOK, EthTypeOK

LEMMA BrokerAnswerType == \A p \in Packet : BrokerAnswer(p) \in Seq(Packet)
<1> SUFFICES ASSUME NEW p \in Packet PROVE BrokerAnswer(p) \in Seq(Packet)
  OBVIOUS
<1>1. p.id \in Nat
  BY DEF Packet
<1>2. {Plain("SUBACK"), Plain("UNSUBACK"), Plain("PINGRESP"), Ack("PUBREL", p.id),
       Ack("PUBACK", p.id), Ack("PUBREC", p.id)} \subseteq Packet
  BY <1>1, PacketTypes DEF Types, AckTypes
<1>3. \A a \in Packet : <<a>> \in Seq(Packet)
  OBVIOUS
<1> QED
  BY <1>2, <1>3 DEF BrokerAnswer

LEMMA BrokerReadsType ==
  ASSUME TypeOK, NEW s \in Slots, tcp[s].up # <<>>, BrokerReads(s, Head(tcp[s].up))
  PROVE  tcp' \in Sockets /\ broker' \in [Slots -> BrokerEnd]
<1> DEFINE p == Head(tcp[s].up)
<1>1. tcp[s] \in Socket /\ broker[s] \in BrokerEnd
  BY DEF TypeOK, EthTypeOK
<1>2. tcp[s].up \in Seq(Packet) /\ tcp[s].down \in Seq(Packet)
  BY <1>1 DEF Socket
<1>3. p \in Packet /\ Tail(tcp[s].up) \in Seq(Packet)
  BY <1>2
<1>4. \A d \in Seq(Packet) : [tcp[s] EXCEPT !.up = Tail(@), !.down = d] \in Socket
  BY <1>1, <1>3 DEF Socket
<1>5. CASE p.type = "CONNECT" /\ ~broker[s].session
  <2>1. Append(tcp[s].down, Plain("CONNACK")) \in Seq(Packet)
    BY <1>2, PacketTypes DEF Types
  <2>2. tcp' = [tcp EXCEPT ![s] = [tcp[s] EXCEPT !.up = Tail(@),
                  !.down = Append(tcp[s].down, Plain("CONNACK"))]]
    BY <1>1, <1>5 DEF BrokerReads, TypeOK, EthTypeOK, Socket
  <2>3. [broker[s] EXCEPT !.session = TRUE] \in BrokerEnd
    BY <1>1 DEF BrokerEnd
  <2>4. broker' = [broker EXCEPT ![s].session = TRUE]
    BY <1>5 DEF BrokerReads
  <2> QED
    BY <1>4, <2>1, <2>2, <2>3, <2>4 DEF TypeOK, EthTypeOK, Sockets
<1>6. CASE /\ ~(p.type = "CONNECT" /\ ~broker[s].session)
           /\ ~broker[s].session \/ p.type \in {"CONNECT", "DISCONNECT"}
  <2>1. BrokerCloses(s)
    BY <1>6 DEF BrokerReads
  <2> QED
    BY <2>1, BrokerClosesType
<1>7. CASE /\ ~(p.type = "CONNECT" /\ ~broker[s].session)
           /\ ~(~broker[s].session \/ p.type \in {"CONNECT", "DISCONNECT"})
  <2>1. tcp[s].down \o BrokerAnswer(p) \in Seq(Packet)
    <3>1. BrokerAnswer(p) \in Seq(Packet)
      BY <1>3, BrokerAnswerType
    <3> QED
      BY <1>2, <3>1
  <2>2. tcp' = [tcp EXCEPT ![s] = [tcp[s] EXCEPT !.up = Tail(@),
                  !.down = tcp[s].down \o BrokerAnswer(p)]]
    BY <1>1, <1>7 DEF BrokerReads, TypeOK, EthTypeOK, Socket
  <2> DEFINE released == CASE p.type = "PUBREC"  -> broker[s].released \cup ({p.id} \cap MsgIds)
                           [] p.type = "PUBCOMP" -> broker[s].released \ {p.id}
                           [] OTHER              -> broker[s].released
  <2>3. released \in SUBSET MsgIds
    BY <1>1 DEF BrokerEnd
  <2>4. broker' = [broker EXCEPT ![s] = [broker[s] EXCEPT
                     !.unacked = @ \ {p}, !.released = released]]
    BY <1>1, <1>7 DEF BrokerReads, TypeOK, BrokerEnd
  <2> HIDE DEF released
  <2>5. [broker[s] EXCEPT !.unacked = @ \ {p}, !.released = released] \in BrokerEnd
    BY <1>1, <2>3 DEF BrokerEnd
  <2> QED
    BY <1>4, <2>1, <2>2, <2>4, <2>5 DEF TypeOK, EthTypeOK, Sockets
<1> QED
  BY <1>5, <1>6, <1>7

LEMMA BrokerType ==
  ASSUME TypeOK, NEW s \in Slots,
         BrokerRecv(s) \/ BrokerRefuses(s) \/ BrokerPublish(s) \/ BrokerClose(s)
  PROVE  TypeOK'
<1>1. CASE BrokerRecv(s)
  <2>1. tcp' \in Sockets /\ broker' \in [Slots -> BrokerEnd]
    BY <1>1, BrokerReadsType DEF BrokerRecv
  <2> QED
    BY <1>1, <2>1 DEF BrokerRecv, Unseen, clientVars, TypeOK, EthTypeOK, Sockets
<1>2. CASE BrokerPublish(s)
  <2>1. PICK id \in MsgIds \ sent, q \in Qos :
          /\ sent' = sent \cup {id}
          /\ tcp' = [tcp EXCEPT ![s].down = Append(@, Publish(q, id))]
          /\ broker' = [broker EXCEPT
               ![s].unacked = IF q = 0 THEN @ ELSE @ \cup {Ack(PublishAnswer[q], id)},
               ![s].alone = @ /\ Alone(broker[s], q)]
    BY <1>2 DEF BrokerPublish
  <2>2. tcp[s] \in Socket /\ broker[s] \in BrokerEnd
    BY DEF TypeOK, EthTypeOK
  <2>3. Publish(q, id) \in Packet /\ q \in 0..2 /\ id \in MsgIds
    BY PacketTypes, ClientAssumption
  <2>4. Append(tcp[s].down, Publish(q, id)) \in Seq(Packet)
    BY <2>2, <2>3 DEF Socket
  <2>5. [tcp[s] EXCEPT !.down = Append(tcp[s].down, Publish(q, id))] \in Socket
    BY <2>2, <2>4 DEF Socket
  <2>6. tcp' \in Sockets
    BY <2>1, <2>5 DEF TypeOK, EthTypeOK, Sockets
  <2>7. q # 0 => Ack(PublishAnswer[q], id) \in Answers
    <3>1. q # 0 => q \in 1..2
      BY <2>3
    <3> QED
      BY <2>3, <3>1 DEF Answers
  <2> DEFINE unacked == IF q = 0 THEN broker[s].unacked
                        ELSE broker[s].unacked \cup {Ack(PublishAnswer[q], id)}
             alone == broker[s].alone /\ Alone(broker[s], q)
  <2>8. unacked \in SUBSET Answers /\ alone \in BOOLEAN
    BY <2>2, <2>7 DEF BrokerEnd, Alone
  <2>9. broker' \in [Slots -> BrokerEnd]
    <3>1. broker' = [broker EXCEPT ![s] = [broker[s] EXCEPT !.unacked = unacked,
                                                            !.alone = alone]]
      BY <2>1, <2>2 DEF BrokerEnd, TypeOK
    <3> HIDE DEF unacked, alone
    <3> QED
      BY <2>2, <2>8, <3>1 DEF BrokerEnd, TypeOK
  <2>10. sent' \subseteq MsgIds
    BY <2>1 DEF TypeOK
  <2> QED
    BY <1>2, <2>6, <2>9, <2>10 DEF BrokerPublish, Unseen, clientVars, TypeOK, EthTypeOK, Sockets
<1>3. CASE BrokerClose(s)
  <2>1. tcp' \in Sockets /\ broker' \in [Slots -> BrokerEnd]
    BY <1>3, BrokerClosesType DEF BrokerClose
  <2>2. faults' \in 0..MaxFaults
    BY <1>3, ClientAssumption DEF BrokerClose, Fault, TypeOK
  <2> QED
    BY <1>3, <2>1, <2>2 DEF BrokerClose, Unseen, clientVars, TypeOK, EthTypeOK, Sockets
<1>4. CASE BrokerRefuses(s)
  <2>1. tcp' \in Sockets /\ broker' \in [Slots -> BrokerEnd]
    BY <1>4, BrokerRefusesType
  <2>2. faults' \in 0..MaxFaults
    BY <1>4, ClientAssumption DEF BrokerRefuses, Fault, TypeOK
  <2> QED
    BY <1>4, <2>1, <2>2 DEF BrokerRefuses, Unseen, clientVars, TypeOK, EthTypeOK, Sockets
<1> QED
  BY <1>1, <1>2, <1>3, <1>4

LEMMA RolloverType ==
  ASSUME TypeOK, Rollover
  PROVE  TypeOK'
<1>1. unknownAge' \in 0..(UnknownTimeout + 1) /\ pingAge' \in 0..(pingreqPrd + 1)
  BY ClientAssumption DEF Rollover, TypeOK
<1>2. faults' \in 0..MaxFaults
  BY ClientAssumption DEF Rollover, Fault, TypeOK
<1> QED
  BY <1>1, <1>2 DEF Rollover, ethVars, TypeOK, EthTypeOK

LEMMA NextType == TypeOK /\ [Next]_vars => TypeOK'
<1> SUFFICES ASSUME TypeOK, [Next]_vars PROVE TypeOK'
  OBVIOUS
<1>1. CASE MainLoop
  BY <1>1, MainLoopType
<1>2. CASE Environment
  BY <1>2, NetType, BrokerType, RolloverType DEF Environment
<1>3. CASE UNCHANGED vars
  BY <1>3 DEF vars, ethVars, clientVars, TypeOK, EthTypeOK
<1> QED
  BY <1>1, <1>2, <1>3 DEF Next

(***************************************************************************)
(* Every variable keeps its type, for every number of sockets, every bound *)
(* and every behaviour of the library that the constants choose: in        *)
(* particular no socket status the client does not handle is ever stored.  *)
(***************************************************************************)
THEOREM TypeCorrect == Spec => []TypeOK
BY InitType, NextType, PTL DEF Spec

-----------------------------------------------------------------------------
(* The invariant of a client with one socket.  First what the calls of the *)
(* library leave alone.                                                    *)

LEMMA AppendSubscribes ==
  ASSUME NEW q \in Seq(Packet), NEW p \in Packet, Subscribes(Append(q, p))
  PROVE  Subscribes(q) \/ p.type = "SUBSCRIBE"
<1>1. PICK i \in 1..Len(Append(q, p)) : Append(q, p)[i].type = "SUBSCRIBE"
  BY DEF Subscribes
<1>2. Len(Append(q, p)) = Len(q) + 1 /\ Len(q) \in Nat
  OBVIOUS
<1>3. CASE i = Len(q) + 1
  BY <1>1, <1>2, <1>3
<1>4. CASE i \in 1..Len(q)
  BY <1>1, <1>4 DEF Subscribes
<1> QED
  BY <1>1, <1>2, <1>3, <1>4

LEMMA TailSubscribes ==
  ASSUME NEW q \in Seq(Packet), q # <<>>, Subscribes(Tail(q))
  PROVE  Subscribes(q)
<1>1. PICK i \in 1..Len(Tail(q)) : Tail(q)[i].type = "SUBSCRIBE"
  BY DEF Subscribes
<1>2. Len(Tail(q)) = Len(q) - 1 /\ Len(q) \in Nat
  OBVIOUS
<1>3. Tail(q)[i] = q[i + 1] /\ i + 1 \in 1..Len(q)
  BY <1>1, <1>2
<1> QED
  BY <1>1, <1>3 DEF Subscribes

LEMMA NothingSubscribes == ~Subscribes(<<>>)
BY DEF Subscribes

\* u is t but for packets given to it to send, SUBSCRIBE not among them.
Sending(t, u) == \A n \in Slots :
  /\ u[n].st = t[n].st /\ u[n].flags = t[n].flags
  /\ u[n].rx = t[n].rx /\ u[n].down = t[n].down
  /\ Subscribes(u[n].up) => Subscribes(t[n].up)

LEMMA SendSending ==
  ASSUME NEW t \in Sockets, NEW s \in Ids, NEW p \in Packet, p.type # "SUBSCRIBE"
  PROVE  Sending(t, sendPacket(t, s, p))
<1>1. CASE ~Sendable(t, s)
  BY <1>1 DEF sendPacket, Sending
<1>2. CASE Sendable(t, s)
  <2>1. s \in Slots
    BY <1>2 DEF Sendable, Ids
  <2>2. t[s] \in Socket /\ t[s].up \in Seq(Packet)
    BY <2>1 DEF Sockets, Socket
  <2>3. Subscribes(Append(t[s].up, p)) => Subscribes(t[s].up)
    BY <2>2, AppendSubscribes
  <2>4. sendPacket(t, s, p) = [t EXCEPT ![s] = [t[s] EXCEPT !.up = Append(t[s].up, p)]]
    BY <1>2 DEF sendPacket
  <2> QED
    BY <2>1, <2>2, <2>3, <2>4 DEF Sending, Sockets, Socket
<1> QED
  BY <1>1, <1>2

LEMMA PingSending ==
  ASSUME NEW t \in Sockets, NEW s \in Ids
  PROVE  Sending(t, Ping(t, s))
<1>1. Plain("PINGREQ") \in Packet /\ Plain("PINGREQ").type # "SUBSCRIBE"
  BY PacketTypes DEF Types, Plain
<1>2. Sending(t, t)
  BY DEF Sending
<1> QED
  BY <1>1, <1>2, SendSending DEF Ping, MQTTPingreq

LEMMA CreateCases ==
  ASSUME NEW t \in Sockets, NEW s \in Ids, NEW r \in createTcpSocket(t, s)
  PROVE  \/ r.tcp = t /\ r.socket = s
         \/ \E n \in Slots, st \in {"synsent", "idle"} :
              r.tcp = [t EXCEPT ![n] = NewSocket(st)] /\ r.socket = n
<1>1. \/ r = [tcp |-> t, socket |-> s]
      \/ \E n \in FreeSlots(t), st \in {"synsent", "idle"} :
           r = [tcp |-> [t EXCEPT ![n] = NewSocket(st)], socket |-> n]
  BY DEF createTcpSocket
<1>2. CASE r = [tcp |-> t, socket |-> s]
  BY <1>2
<1>3. ASSUME NEW n \in FreeSlots(t), NEW st \in {"synsent", "idle"},
             r = [tcp |-> [t EXCEPT ![n] = NewSocket(st)], socket |-> n]
      PROVE  /\ n \in Slots
             /\ r.tcp = [t EXCEPT ![n] = NewSocket(st)] /\ r.socket = n
  BY <1>3 DEF FreeSlots
<1> QED
  BY <1>1, <1>2, <1>3

\* A new socket is as clean as FreshIsClean asks.
LEMMA NewIsClean ==
  ASSUME NEW st
  PROVE  /\ NewSocket(st).st = st /\ NewSocket(st).flags = {}
         /\ NewSocket(st).rx = <<>> /\ NewSocket(st).down = <<>>
         /\ ~Subscribes(NewSocket(st).up)
BY NothingSubscribes DEF NewSocket

LEMMA InitInv == Init => IInv
<1> SUFFICES ASSUME Init PROVE IInv
  OBVIOUS
<1> DEFINE none == [s \in Slots |-> NewSocket("free")]
<1>1. TypeOK
  BY InitType
<1>2. none \in Sockets /\ NoSocket \in Ids
  BY NewSocketType DEF Sockets, PcbState, Ids
<1>3. PICK r \in createTcpSocket(none, NoSocket) : tcp = r.tcp /\ socket = r.socket
  BY DEF Init
<1>4. \/ tcp = none /\ socket = NoSocket
      \/ \E n \in Slots, st \in {"synsent", "idle"} :
           tcp = [none EXCEPT ![n] = NewSocket(st)] /\ socket = n
  BY <1>2, <1>3, CreateCases
<1>5. \A s \in Slots : /\ tcp[s].st \in {"free", "synsent", "idle"} /\ tcp[s].flags = {}
                        /\ tcp[s].rx = <<>> /\ tcp[s].down = <<>> /\ ~Subscribes(tcp[s].up)
  BY <1>4, NewIsClean
<1>6. socket = NoSocket => \A s \in Slots : tcp[s].st = "free"
  BY <1>4, NewIsClean, SlotsAssumption
<1>7. recvBuf = [s \in Slots |-> <<>>] /\ status = "Unknown"
  BY DEF Init, EthInit
<1> QED
  BY <1>1, <1>5, <1>6, <1>7
  DEF IInv, NoSocketYet, BufferDrained, FreshIsClean, ConnectedIsKnown, DataIsAnswered

LEMMA EthStepInv ==
  ASSUME IInv, NEW ticks \in 0..MaxTurn, EthStep(ticks)
  PROVE  IInv'
<1>1. TypeOK'
  BY EthStepType DEF IInv
<1>2. ASSUME NEW s \in Slots
      PROVE  /\ tcp'[s].st = tcp[s].st /\ tcp'[s].flags = {}
             /\ tcp'[s].down = tcp[s].down /\ tcp'[s].up = tcp[s].up
             /\ tcp'[s].rx = IF "RECV" \in tcp[s].flags THEN <<>> ELSE tcp[s].rx
             /\ recvBuf'[s] = IF "RECV" \in tcp[s].flags THEN tcp[s].rx ELSE recvBuf[s]
             /\ socketStates'[s] = StateAfter(socketStates[s], tcp[s].flags)
  <2>1. tcp[s] \in Socket
    BY DEF IInv, TypeOK, EthTypeOK
  <2> QED
    BY <2>1 DEF EthStep, EthMainTask, Socket
<1>3. pc = "eth" /\ pc' = "recv" /\ UNCHANGED <<status, socket, broker>>
  BY DEF EthStep
<1>4. NoSocketYet'
  BY <1>2, <1>3 DEF IInv, NoSocketYet
<1>5. FreshIsClean'
  BY <1>2, <1>3 DEF IInv, FreshIsClean
<1>6. ConnectedIsKnown'
  <2> SUFFICES ASSUME NEW s \in Slots, tcp[s].st = "estab"
               PROVE  socketStates'[s] = "connected"
    BY <1>2, <1>3 DEF ConnectedIsKnown
  <2>1. /\ tcp[s].flags \subseteq {"RECV", "CONNECT"}
        /\ socketStates[s] = "connected" \/ tcp[s].flags # {}
    BY DEF IInv, ConnectedIsKnown
  <2> QED
    BY <1>2, <2>1 DEF StateAfter
<1>7. DataIsAnswered'
  BY <1>2, <1>3 DEF IInv, DataIsAnswered, Answered, isMQTTConnected
<1> QED
  BY <1>1, <1>3, <1>4, <1>5, <1>6, <1>7 DEF IInv, BufferDrained

LEMMA RecvStepInv ==
  ASSUME OneSlot, IInv, RecvStep
  PROVE  IInv'
<1>1. TypeOK'
  BY RecvStepType DEF IInv
<1>2. pc = "recv" /\ pc' = "sock"
  BY DEF RecvStep
<1>3. CASE RecvNothing
  <2>1. UNCHANGED <<tcp, socketStates, recvBuf, status, socket, broker>>
    BY <1>3 DEF RecvNothing, ethVars, clientVars
  <2>2. \A s \in Slots : recvBuf[s] = <<>>
    BY <1>3 DEF RecvNothing, getRecvBuf, IInv, NoSocketYet, OneSlot, TypeOK
  <2> QED
    BY <1>1, <1>2, <2>1, <2>2
    DEF IInv, NoSocketYet, BufferDrained, FreshIsClean, ConnectedIsKnown,
        DataIsAnswered, Answered, isMQTTConnected
<1>4. ASSUME getRecvBuf(socket) # <<>>,
             NEW p \in Looks(Head(getRecvBuf(socket))),
             RecvConnack(p) \/ RecvStatus(p) \/ RecvPublish(p)
             \/ RecvPubrel(p)  \/ RecvOther(p)
      PROVE  IInv'
  <2>1. socket \in Slots /\ recvBuf[socket] # <<>>
    BY <1>4, LooksType DEF IInv
  <2>2. \A s \in Slots : s = socket
    BY <2>1 DEF OneSlot
  <2>3. tcp \in Sockets /\ socket \in Ids
    BY DEF IInv, TypeOK, EthTypeOK, Sockets, Ids
  <2>4. \E st \in MQTTStatus : RecvDone(st)
    BY <1>4 DEF RecvConnack, RecvStatus, RecvPublish, RecvPubrel, RecvOther,
                StatusFor, MQTTStatus
  <2>5. /\ recvBuf'[socket] = <<>> /\ socketStates'[socket] = "connected"
        /\ UNCHANGED <<socket, broker>>
    BY <2>1, <2>4 DEF RecvDone, flushRecvBuf, IInv, TypeOK, EthTypeOK
  <2>6. tcp[socket].st \notin {"synsent", "idle"}
    BY <2>1 DEF IInv, FreshIsClean
  <2>7. tcp[socket].st = "estab" => Answered(socket)
    BY <2>1 DEF IInv, DataIsAnswered
  <2>8. tcp'[socket].st = tcp[socket].st /\ tcp'[socket].flags = tcp[socket].flags
    <3>1. \A q \in Packet : LET u == sendPacket(tcp, socket, q) IN
            u[socket].st = tcp[socket].st /\ u[socket].flags = tcp[socket].flags
      BY <2>1, <2>3 DEF sendPacket, Sockets, Socket
    <3>2. tcp' = tcp \/ \E q \in Packet : tcp' = sendPacket(tcp, socket, q)
      <4>1. CASE RecvConnack(p)
        BY <4>1, PacketTypes DEF RecvConnack, Types, MQTTSubscribe
      <4>2. CASE RecvPublish(p)
        <5>1. p.id \in Nat /\ p.qos \in 0..3
          BY <1>4, LooksType DEF IInv
        <5>2. lastId' \in Nat
          BY <4>2, <5>1, PublishedIdType DEF RecvPublish, IInv
        <5> QED
          BY <4>2, <5>1, <5>2, AcknowledgeType DEF RecvPublish
      <4>3. CASE RecvPubrel(p)
        BY <4>3, PacketTypes DEF RecvPubrel, Types, AckTypes, IInv, TypeOK
      <4>4. CASE RecvStatus(p) \/ RecvOther(p)
        BY <4>4 DEF RecvStatus, RecvOther
      <4> QED
        BY <1>4, <4>1, <4>2, <4>3, <4>4
    <3> QED
      BY <3>1, <3>2
  <2>9. tcp[socket].st = "estab" => tcp[socket].flags \subseteq {"RECV", "CONNECT"}
    BY <2>1 DEF IInv, ConnectedIsKnown
  <2>10. socket # NoSocket
    BY <2>1, SlotsAssumption
  <2> QED
    BY <1>1, <1>2, <2>1, <2>2, <2>5, <2>6, <2>7, <2>8, <2>9, <2>10
    DEF IInv, NoSocketYet, BufferDrained, FreshIsClean, ConnectedIsKnown, DataIsAnswered, Answered
<1> QED
  BY <1>3, <1>4 DEF RecvStep

\* Creating a socket keeps what the invariant says of the sockets: a refusal
\* changes nothing, a new socket is clean and its client knows it.
LEMMA CreateInv ==
  ASSUME OneSlot, TypeOK, NEW t \in Sockets, NEW r \in createTcpSocket(t, socket),
         NEW n \in Slots
  PROVE  \/ r.tcp = t /\ r.socket = socket
         \/ /\ r.tcp[n].st \in {"synsent", "idle"} /\ r.socket = n
            /\ r.tcp[n] = NewSocket(r.tcp[n].st)
<1>1. socket \in Ids
  BY DEF TypeOK, Ids
<1>2. \/ r.tcp = t /\ r.socket = socket
      \/ \E m \in Slots, st \in {"synsent", "idle"} :
           r.tcp = [t EXCEPT ![m] = NewSocket(st)] /\ r.socket = m
  BY <1>1, CreateCases
<1>3. ASSUME NEW m \in Slots, NEW st \in {"synsent", "idle"},
             r.tcp = [t EXCEPT ![m] = NewSocket(st)] /\ r.socket = m
      PROVE  r.tcp[n] = NewSocket(st) /\ r.socket = n /\ r.tcp[n].st = st
  <2>1. m = n
    BY DEF OneSlot
  <2> QED
    BY <1>3, <2>1, NewIsClean DEF Sockets
<1>4. ASSUME NEW m \in Slots, NEW st \in {"synsent", "idle"},
             r.tcp = [t EXCEPT ![m] = NewSocket(st)] /\ r.socket = m
      PROVE  /\ r.tcp[n].st \in {"synsent", "idle"} /\ r.socket = n
             /\ r.tcp[n] = NewSocket(r.tcp[n].st)
  <2>1. r.tcp[n] = NewSocket(st) /\ r.socket = n /\ r.tcp[n].st = st
    BY <1>3, <1>4
  <2> QED
    BY <2>1
<1> QED
  BY <1>2, <1>4

LEMMA SockStepInv ==
  ASSUME OneSlot, IInv, SockStep
  PROVE  IInv'
<1>1. TypeOK'
  BY SockStepType DEF IInv
<1>2. /\ pc = "sock" /\ pc' = "timers"
      /\ UNCHANGED <<socketStates, recvBuf, broker>>
  BY DEF SockStep
<1>3. tcp \in Sockets /\ socket \in Ids
  BY DEF IInv, TypeOK, EthTypeOK, Sockets, Ids
<1>4. \A s \in Slots : recvBuf[s] = <<>>
  BY <1>2 DEF IInv, BufferDrained
<1>5. \A s \in Slots : tcp[s].st = "estab" => getSocketStatus(socket) = "connected"
  <2> SUFFICES ASSUME NEW s \in Slots, tcp[s].st = "estab"
               PROVE  getSocketStatus(socket) = "connected"
    OBVIOUS
  <2>1. socketStates[s] = "connected" /\ socket # NoSocket
    BY <1>2 DEF IInv, ConnectedIsKnown, NoSocketYet
  <2>2. socket = s
    BY <1>3, <2>1 DEF OneSlot, Ids
  <2> QED
    BY <2>1, <2>2 DEF getSocketStatus
<1>6. BufferDrained'
  BY <1>2, <1>4 DEF BufferDrained
<1>7. CASE SockNone
  <2>1. UNCHANGED <<tcp, socket>> /\ status' = "Unknown"
    BY <1>7 DEF SockNone
  <2>2. \A s \in Slots : tcp[s].st # "estab"
    BY <1>5, <1>7 DEF SockNone
  <2> QED
    BY <1>1, <1>2, <1>6, <2>1, <2>2
    DEF IInv, NoSocketYet, FreshIsClean, ConnectedIsKnown, DataIsAnswered
<1>8. CASE SockLost
  <2>1. PICK r \in createTcpSocket(tcp, socket) :
          tcp' = r.tcp /\ socket' = r.socket /\ status' = "Unknown"
    BY <1>8 DEF SockLost, connect
  <2>2. \A s \in Slots : tcp[s].st # "estab"
    BY <1>5, <1>8 DEF SockLost
  <2>3. \A s \in Slots :
          \/ tcp'[s] = tcp[s] /\ socket' = socket
          \/ /\ tcp'[s].st \in {"synsent", "idle"} /\ socket' = s
             /\ tcp'[s].flags = {} /\ tcp'[s].rx = <<>> /\ tcp'[s].down = <<>>
             /\ ~Subscribes(tcp'[s].up)
    BY <1>3, <2>1, CreateInv, NewIsClean DEF IInv
  <2>4. \A s \in Slots : tcp'[s].st # "estab"
    BY <2>2, <2>3
  <2>5. FreshIsClean'
    BY <1>2, <1>4, <2>1, <2>3 DEF IInv, FreshIsClean
  <2>6. NoSocketYet'
    BY <1>2, <2>3, SlotsAssumption DEF IInv, NoSocketYet
  <2> QED
    BY <1>1, <1>6, <2>4, <2>5, <2>6 DEF IInv, ConnectedIsKnown, DataIsAnswered
<1>9. CASE SockConnected
  <2>1. Plain("CONNECT") \in Packet /\ Plain("CONNECT").type # "SUBSCRIBE"
    BY PacketTypes DEF Types, Plain
  <2>2. Sending(tcp, tcp') /\ UNCHANGED socket
    BY <1>3, <1>9, <2>1, SendSending DEF SockConnected, Sending, MQTTConnect
  <2>3. /\ status' # "Unknown"
        /\ status' \in {"Unknown", "ConnectRequested"} \/ status' = status
    BY <1>9 DEF SockConnected
  <2>4. ~(isMQTTConnected' /\ ~isMQTTConnected)
    BY <1>9 DEF SockConnected, isMQTTConnected
  <2>5. NoSocketYet' /\ FreshIsClean'
    BY <1>2, <2>2, <2>3 DEF IInv, NoSocketYet, FreshIsClean, Sending
  <2>6. ConnectedIsKnown'
    BY <1>2, <2>2, <2>3 DEF IInv, ConnectedIsKnown, Sending
  <2>7. DataIsAnswered'
    BY <1>2, <2>2, <2>4 DEF IInv, DataIsAnswered, Answered, Sending
  <2> QED
    BY <1>1, <1>6, <2>5, <2>6, <2>7 DEF IInv
<1> QED
  BY <1>7, <1>8, <1>9 DEF SockStep

\* Closing a socket without a connection leaves nothing of it.
LEMMA CloseInv ==
  ASSUME NEW t \in Sockets, NEW s \in Ids, NEW n \in Slots, t[n].st # "estab"
  PROVE  \/ closeSocket(t, s)[n] = t[n]
         \/ /\ s # NoSocket
            /\ closeSocket(t, s)[n] = NewSocket("closing")
               \/ closeSocket(t, s)[n] = NewSocket("free")
<1>1. CASE s = NoSocket
  BY <1>1 DEF closeSocket
<1>2. CASE s # NoSocket /\ t[s].st = "closing"
  BY <1>2 DEF closeSocket
<1>3. CASE s # NoSocket /\ t[s].st # "closing"
  BY <1>3 DEF closeSocket, Sockets
<1> QED
  BY <1>1, <1>2, <1>3

LEMMA TimerStepInv ==
  ASSUME OneSlot, IInv, TimerStep
  PROVE  IInv'
<1>1. TypeOK'
  BY TimerStepType DEF IInv
<1>2. /\ pc = "timers" /\ pc' = "app"
      /\ UNCHANGED <<socketStates, recvBuf, broker>>
  BY DEF TimerStep
<1>3. tcp \in Sockets /\ socket \in Ids
  BY DEF IInv, TypeOK, EthTypeOK, Sockets, Ids
<1>4. \A s \in Slots : recvBuf[s] = <<>>
  BY <1>2 DEF IInv, BufferDrained
<1>5. BufferDrained'
  BY <1>2, <1>4 DEF BufferDrained
<1>6. CASE NoUnknownTimer
  <2>1. Sending(tcp, tcp') /\ UNCHANGED <<socket, status>>
    BY <1>3, <1>6, PingSending DEF NoUnknownTimer
  <2> QED
    BY <1>1, <1>2, <1>5, <2>1
    DEF IInv, NoSocketYet, FreshIsClean, ConnectedIsKnown, DataIsAnswered, Answered,
        isMQTTConnected, Sending
<1>7. CASE UnknownTimer
  <2> DEFINE t == closeSocket(tcp, socket)
  <2>1. \A n \in Slots : tcp[n].st # "estab"
    BY <1>2, <1>7 DEF UnknownTimer, UnknownExpired, IInv, ConnectedIsKnown
  <2>2. t \in Sockets
    BY <1>3, CloseType
  <2>3. PICK r \in createTcpSocket(t, socket) :
          /\ socket' = r.socket
          /\ tcp' = Ping(MQTTConnect(r.tcp, r.socket), r.socket)
    BY <1>7 DEF UnknownTimer
  <2> DEFINE u == MQTTConnect(r.tcp, r.socket)
  <2>4. r.tcp \in Sockets /\ r.socket \in Ids
    BY <1>3, <2>2, CreateType
  <2>5. Plain("CONNECT") \in Packet /\ Plain("CONNECT").type # "SUBSCRIBE"
    BY PacketTypes DEF Types, Plain
  <2>6. Sending(r.tcp, u) /\ u \in Sockets
    BY <2>4, <2>5, SendSending, SendType DEF MQTTConnect
  <2>7. Sending(u, tcp')
    BY <2>3, <2>4, <2>6, PingSending
  <2>8. Sending(r.tcp, tcp')
    BY <2>6, <2>7 DEF Sending
  <2>9. status' = "ConnectRequested"
    BY <1>7 DEF UnknownTimer
  <2>10. ASSUME NEW n \in Slots
         PROVE  /\ tcp'[n].st # "estab"
                /\ tcp'[n].st \in {"synsent", "idle"} =>
                     /\ tcp'[n].flags = {} /\ tcp'[n].rx = <<>>
                     /\ tcp'[n].down = <<>> /\ ~Subscribes(tcp'[n].up)
                /\ socket' = NoSocket =>
                     tcp'[n].st = "free" /\ tcp'[n].flags = {} /\ tcp'[n].rx = <<>>
    <3>1. \/ t[n] = tcp[n]
          \/ socket # NoSocket /\ t[n] = NewSocket("closing")
          \/ socket # NoSocket /\ t[n] = NewSocket("free")
      BY <1>3, <2>1, CloseInv
    <3>2. \/ r.tcp = t /\ r.socket = socket
          \/ /\ r.tcp[n].st \in {"synsent", "idle"} /\ r.socket = n
             /\ r.tcp[n] = NewSocket(r.tcp[n].st)
      BY <2>2, CreateInv DEF IInv
    <3>3. /\ t[n].st # "estab"
          /\ t[n].st \in {"synsent", "idle"} =>
               /\ t[n].flags = {} /\ t[n].rx = <<>>
               /\ t[n].down = <<>> /\ ~Subscribes(t[n].up)
          /\ socket = NoSocket =>
               t[n].st = "free" /\ t[n].flags = {} /\ t[n].rx = <<>>
      BY <2>1, <3>1, NewIsClean DEF IInv, FreshIsClean, NoSocketYet
    <3>4. /\ r.tcp[n].st # "estab"
          /\ r.tcp[n].st \in {"synsent", "idle"} =>
               /\ r.tcp[n].flags = {} /\ r.tcp[n].rx = <<>>
               /\ r.tcp[n].down = <<>> /\ ~Subscribes(r.tcp[n].up)
          /\ r.socket = NoSocket =>
               r.tcp[n].st = "free" /\ r.tcp[n].flags = {} /\ r.tcp[n].rx = <<>>
      BY <3>2, <3>3, NewIsClean, SlotsAssumption
    <3> QED
      BY <2>3, <2>8, <3>4 DEF Sending
  <2> QED
    BY <1>1, <1>2, <1>4, <1>5, <2>9, <2>10
    DEF IInv, NoSocketYet, FreshIsClean, ConnectedIsKnown, DataIsAnswered
<1> QED
  BY <1>6, <1>7 DEF TimerStep

LEMMA AppStepInv ==
  ASSUME IInv, AppStep
  PROVE  IInv'
<1>1. TypeOK'
  BY AppStepType DEF IInv
<1>2. /\ pc = "app" /\ pc' = "eth"
      /\ UNCHANGED <<socketStates, recvBuf, status, socket, broker>>
  BY DEF AppStep
<1>3. tcp \in Sockets /\ socket \in Ids
  BY DEF IInv, TypeOK, EthTypeOK, Sockets, Ids
<1>4. Sending(tcp, tcp')
  <2>1. CASE AppIdle
    BY <2>1 DEF AppIdle, Sending
  <2>2. ASSUME NEW q \in Qos, AppPublish(q)
        PROVE  Sending(tcp, tcp')
    <3>1. Publish(q, packedID) \in Packet /\ Publish(q, packedID).type # "SUBSCRIBE"
      <4>1. q \in 0..2 /\ packedID \in Nat
        BY ClientAssumption DEF IInv, TypeOK
      <4> QED
        BY <4>1 DEF Publish, Packet, Types
    <3> QED
      BY <1>3, <2>2, <3>1, SendSending DEF AppPublish, MQTTPublish
  <2>3. CASE AppSend
    <3>1. \A type \in {"UNSUBSCRIBE", "DISCONNECT"} :
             Plain(type) \in Packet /\ Plain(type).type # "SUBSCRIBE"
      BY PacketTypes DEF Types, Plain
    <3> QED
      BY <1>3, <2>3, <3>1, SendSending DEF AppSend, MQTTUnsubscribe, MQTTDisconnect
  <2> QED
    BY <2>1, <2>2, <2>3 DEF AppStep
<1> QED
  BY <1>1, <1>2, <1>4
  DEF IInv, NoSocketYet, BufferDrained, FreshIsClean, ConnectedIsKnown, DataIsAnswered, Answered,
      isMQTTConnected, Sending

\* A step outside the program changes one slot, that of a socket the client has,
\* and leaves it free or established.
LEMMA SlotInv ==
  ASSUME IInv, TypeOK', pc = "eth", NEW s \in Slots, socket # NoSocket,
         UNCHANGED <<pc, status, socket, socketStates, recvBuf>>,
         \A n \in Slots \ {s} : tcp'[n] = tcp[n] /\ broker'[n] = broker[n],
         \/ tcp'[s].st = "free"
         \/ /\ tcp'[s].st = "estab" /\ tcp'[s].flags \subseteq {"RECV", "CONNECT"}
            /\ socketStates[s] = "connected" \/ tcp'[s].flags # {}
            /\ \/ tcp'[s].down # <<>> \/ tcp'[s].rx # <<>> \/ recvBuf[s] # <<>>
               \/ isMQTTConnected \/ Subscribes(tcp'[s].up)
               => Answered(s)'
  PROVE  IInv'
<1>1. NoSocketYet' /\ BufferDrained'
  BY DEF IInv, NoSocketYet, BufferDrained
<1>2. FreshIsClean'
  BY DEF IInv, FreshIsClean
<1>3. ConnectedIsKnown'
  BY DEF IInv, ConnectedIsKnown
<1>4. DataIsAnswered'
  <2>1. isMQTTConnected' = isMQTTConnected
    BY DEF isMQTTConnected
  <2> QED
    BY <2>1 DEF IInv, DataIsAnswered, Answered
<1> QED
  BY <1>1, <1>2, <1>3, <1>4 DEF IInv

LEMMA NetInv ==
  ASSUME IInv, NEW s \in Slots,
         NetConnect(s) \/ NetRecv(s) \/ NetEnd(s) \/ NetReset(s)
  PROVE  IInv'
<1>1. TypeOK'
  BY NetType DEF IInv
<1>2. /\ pc = "eth"
      /\ UNCHANGED <<pc, status, socket, socketStates, recvBuf>>
  BY DEF NetConnect, NetRecv, NetEnd, NetReset, LibConnect, LibRecv, LibRecvPart,
         LibRecvRest, LibFin, LibClosed, LibReset, clientVars
<1>3. /\ tcp \in [Slots -> Socket] /\ broker \in [Slots -> BrokerEnd]
      /\ tcp[s] \in Socket
  BY DEF IInv, TypeOK, EthTypeOK
<1>4. socket # NoSocket
  BY DEF IInv, NoSocketYet, NetConnect, NetRecv, NetEnd, NetReset, LibConnect, LibRecv,
         LibRecvPart, LibRecvRest, LibFin, LibClosed, LibReset
<1>5. CASE NetConnect(s)
  <2>1. /\ tcp[s].st = "synsent"
        /\ tcp' = [tcp EXCEPT ![s] = [tcp[s] EXCEPT !.flags = @ \cup {"CONNECT"},
                                                   !.st = "estab"]]
        /\ broker' = [broker EXCEPT ![s] = NewBrokerEnd]
    BY <1>3, <1>5 DEF NetConnect, LibConnect, Raise
  <2>2. /\ tcp[s].flags = {} /\ tcp[s].rx = <<>> /\ tcp[s].down = <<>>
        /\ recvBuf[s] = <<>> /\ ~Subscribes(tcp[s].up) /\ ~isMQTTConnected
    BY <2>1 DEF IInv, FreshIsClean, isMQTTConnected
  <2>3. /\ tcp'[s].st = "estab" /\ tcp'[s].flags = {"CONNECT"}
        /\ tcp'[s].rx = <<>> /\ tcp'[s].down = <<>> /\ tcp'[s].up = tcp[s].up
    BY <1>3, <2>1, <2>2 DEF Socket
  <2>4. \A n \in Slots \ {s} : tcp'[n] = tcp[n] /\ broker'[n] = broker[n]
    BY <1>3, <2>1
  <2> QED
    BY <1>1, <1>2, <1>4, <2>2, <2>3, <2>4, SlotInv
<1>6. CASE NetRecv(s)
  <2>1. /\ tcp[s].st = "estab" /\ tcp[s].down # <<>> /\ UNCHANGED broker
        /\ \E q, d \in Seq(Packet) :
             tcp' = [tcp EXCEPT ![s] = [tcp[s] EXCEPT !.flags = @ \cup {"RECV"},
                                                      !.rx = q, !.down = d]]
    BY <1>6, NetRecvType DEF NetRecv, IInv
  <2>2. /\ tcp'[s].st = "estab" /\ tcp'[s].flags = tcp[s].flags \cup {"RECV"}
        /\ tcp'[s].up = tcp[s].up
        /\ \A n \in Slots \ {s} : tcp'[n] = tcp[n] /\ broker'[n] = broker[n]
    BY <1>3, <2>1 DEF Socket
  <2>3. tcp[s].flags \subseteq {"RECV", "CONNECT"} /\ Answered(s)
    BY <2>1 DEF IInv, ConnectedIsKnown, DataIsAnswered
  <2> QED
    BY <1>1, <1>2, <1>4, <2>1, <2>2, <2>3, SlotInv DEF Answered
<1>7. CASE NetEnd(s) \/ NetReset(s)
  <2>1. UNCHANGED broker /\ \E f \in SocketInt : Lost(s, f)
    BY <1>7 DEF NetEnd, NetReset, LibFin, LibClosed, LibReset, SocketInt
  <2>2. tcp'[s].st = "free" /\ \A n \in Slots \ {s} : tcp'[n] = tcp[n]
    BY <1>3, <2>1 DEF Lost, NewSocket
  <2> QED
    BY <1>1, <1>2, <1>4, <2>1, <2>2, SlotInv
<1> QED
  BY <1>5, <1>6, <1>7

\* What the broker does to a connection: no new state or flag, nothing new to
\* send but less, and data for the client only behind the answer to its CONNECT.
LEMMA BrokerInv ==
  ASSUME IInv, NEW s \in Slots,
         BrokerRecv(s) \/ BrokerRefuses(s) \/ BrokerPublish(s) \/ BrokerClose(s)
  PROVE  IInv'
<1>1. TypeOK'
  BY BrokerType DEF IInv
<1>2. /\ pc = "eth" /\ tcp[s].st = "estab"
      /\ UNCHANGED <<pc, status, socket, socketStates, recvBuf>>
  BY DEF BrokerRecv, BrokerRefuses, BrokerPublish, BrokerClose, Live, Unseen, clientVars
<1>3. /\ tcp \in [Slots -> Socket] /\ broker \in [Slots -> BrokerEnd]
      /\ tcp[s] \in Socket /\ broker[s] \in BrokerEnd
  BY DEF IInv, TypeOK, EthTypeOK
<1>4. socket # NoSocket
  BY <1>2 DEF IInv, NoSocketYet
<1>5. SUFFICES
        /\ \A n \in Slots \ {s} : tcp'[n] = tcp[n] /\ broker'[n] = broker[n]
        /\ tcp'[s].st = tcp[s].st /\ tcp'[s].flags = tcp[s].flags /\ tcp'[s].rx = tcp[s].rx
        /\ Subscribes(tcp'[s].up) => Subscribes(tcp[s].up)
        /\ Answered(s) => Answered(s)'
        /\ tcp'[s].down = tcp[s].down \/ Answered(s)'
  <2>1. /\ tcp[s].flags \subseteq {"RECV", "CONNECT"}
        /\ socketStates[s] = "connected" \/ tcp[s].flags # {}
        /\ \/ tcp[s].down # <<>> \/ tcp[s].rx # <<>> \/ recvBuf[s] # <<>>
           \/ isMQTTConnected \/ Subscribes(tcp[s].up)
           => Answered(s)
    BY <1>2 DEF IInv, ConnectedIsKnown, DataIsAnswered
  <2> QED
    BY <1>1, <1>2, <1>4, <1>5, <2>1, SlotInv
<1>6. CASE BrokerCloses(s)
  <2>1. /\ tcp' = [tcp EXCEPT ![s] = [tcp[s] EXCEPT !.up = <<>>, !.fin = TRUE]]
        /\ broker' = [broker EXCEPT ![s] = [broker[s] EXCEPT !.closed = TRUE]]
    BY <1>3, <1>6 DEF BrokerCloses
  <2> QED
    BY <1>3, <2>1, NothingSubscribes DEF Socket, BrokerEnd, Answered
<1>7. CASE BrokerRecv(s)
  <2> DEFINE p == Head(tcp[s].up)
  <2>1. tcp[s].up # <<>> /\ tcp[s].up \in Seq(Packet) /\ BrokerReads(s, p)
    BY <1>3, <1>7 DEF BrokerRecv, Socket
  <2>2. Subscribes(Tail(tcp[s].up)) => Subscribes(tcp[s].up)
    BY <2>1, TailSubscribes
  <2>3. CASE p.type = "CONNECT" /\ ~broker[s].session
    <3>1. /\ \E d : tcp' = [tcp EXCEPT ![s] = [tcp[s] EXCEPT !.up = Tail(@), !.down = d]]
          /\ broker' = [broker EXCEPT ![s] = [broker[s] EXCEPT !.session = TRUE]]
      BY <1>3, <2>1, <2>3 DEF BrokerReads, Socket
    <3> QED
      BY <1>3, <2>2, <3>1 DEF Socket, BrokerEnd, Answered
  <2>4. CASE /\ ~(p.type = "CONNECT" /\ ~broker[s].session)
             /\ ~broker[s].session \/ p.type \in {"CONNECT", "DISCONNECT"}
    BY <1>6, <2>1, <2>4 DEF BrokerReads
  <2>5. CASE /\ ~(p.type = "CONNECT" /\ ~broker[s].session)
             /\ ~(~broker[s].session \/ p.type \in {"CONNECT", "DISCONNECT"})
    <3>1. /\ \E d : tcp' = [tcp EXCEPT ![s] = [tcp[s] EXCEPT !.up = Tail(@), !.down = d]]
          /\ \E u, r : broker' = [broker EXCEPT ![s] = [broker[s] EXCEPT
                                     !.unacked = u, !.released = r]]
      <4> DEFINE released == CASE p.type = "PUBREC"  -> broker[s].released \cup ({p.id} \cap MsgIds)
                               [] p.type = "PUBCOMP" -> broker[s].released \ {p.id}
                               [] OTHER              -> broker[s].released
      <4>1. broker' = [broker EXCEPT ![s] = [broker[s] EXCEPT
                         !.unacked = @ \ {p}, !.released = released]]
        BY <1>3, <2>1, <2>5 DEF BrokerReads, BrokerEnd
      <4>2. tcp' = [tcp EXCEPT ![s] = [tcp[s] EXCEPT
                      !.up = Tail(@), !.down = tcp[s].down \o BrokerAnswer(p)]]
        BY <1>3, <2>1, <2>5 DEF BrokerReads, Socket
      <4> HIDE DEF released
      <4>3. [broker[s] EXCEPT !.unacked = @ \ {p}, !.released = released]
            = [broker[s] EXCEPT !.unacked = broker[s].unacked \ {p}, !.released = released]
        BY <1>3 DEF BrokerEnd
      <4> QED
        BY <4>1, <4>2, <4>3
    <3>2. broker[s].session
      BY <2>5
    <3> QED
      BY <1>3, <2>2, <3>1, <3>2 DEF Socket, BrokerEnd, Answered
  <2> QED
    BY <2>3, <2>4, <2>5
<1>8. CASE BrokerPublish(s)
  <2>1. PICK id \in MsgIds \ sent, q \in Qos :
          /\ tcp' = [tcp EXCEPT ![s].down = Append(@, Publish(q, id))]
          /\ broker' = [broker EXCEPT
               ![s].unacked = IF q = 0 THEN @ ELSE @ \cup {Ack(PublishAnswer[q], id)},
               ![s].alone = @ /\ Alone(broker[s], q)]
    BY <1>8 DEF BrokerPublish
  <2>2. \E d : tcp' = [tcp EXCEPT ![s] = [tcp[s] EXCEPT !.down = d]]
    BY <1>3, <2>1
  <2>3. \E u, a : broker' = [broker EXCEPT ![s] = [broker[s] EXCEPT !.unacked = u,
                                                                   !.alone = a]]
    BY <1>3, <2>1 DEF BrokerEnd
  <2>4. broker[s].session
    BY <1>8 DEF BrokerPublish
  <2> QED
    BY <1>3, <2>2, <2>3, <2>4 DEF Socket, BrokerEnd, Answered
<1>9. CASE BrokerClose(s)
  BY <1>6, <1>9 DEF BrokerClose
<1>10. CASE BrokerRefuses(s)
  <2>1. /\ \E d : tcp' = [tcp EXCEPT ![s] = [tcp[s] EXCEPT !.up = <<>>, !.fin = TRUE,
                                                           !.down = d]]
        /\ broker' = [broker EXCEPT ![s] = [broker[s] EXCEPT !.refused = TRUE,
                                                             !.closed = TRUE]]
    BY <1>10, BrokerRefusesType DEF IInv
  <2> QED
    BY <1>3, <2>1, NothingSubscribes DEF Socket, BrokerEnd, Answered
<1> QED
  BY <1>7, <1>8, <1>9, <1>10

LEMMA NextInv ==
  ASSUME OneSlot, IInv, [Next]_vars
  PROVE  IInv'
<1>1. ASSUME NEW ticks \in 0..MaxTurn, EthStep(ticks)
      PROVE  IInv'
  BY <1>1, EthStepInv
<1>2. CASE RecvStep
  BY <1>2, RecvStepInv
<1>3. CASE SockStep
  BY <1>3, SockStepInv
<1>4. CASE TimerStep
  BY <1>4, TimerStepInv
<1>5. CASE AppStep
  BY <1>5, AppStepInv
<1>6. ASSUME NEW s \in Slots,
             \/ NetConnect(s) \/ NetRecv(s) \/ NetEnd(s) \/ NetReset(s)
             \/ BrokerRecv(s) \/ BrokerRefuses(s) \/ BrokerPublish(s) \/ BrokerClose(s)
      PROVE  IInv'
  BY <1>6, NetInv, BrokerInv
<1>7. CASE Rollover
  <2>1. UNCHANGED <<tcp, socketStates, recvBuf, pc, status, socket, broker>>
    BY <1>7 DEF Rollover, ethVars
  <2>2. TypeOK'
    BY <1>7, RolloverType DEF IInv
  <2> QED
    BY <2>1, <2>2 DEF IInv, NoSocketYet, BufferDrained, FreshIsClean, ConnectedIsKnown,
                      DataIsAnswered, Answered, isMQTTConnected
<1>8. CASE UNCHANGED vars
  <2>1. UNCHANGED <<tcp, socketStates, recvBuf, pc, status, socket, broker>>
    BY <1>8 DEF vars, ethVars, clientVars
  <2>2. TypeOK'
    BY <1>8, NextType DEF IInv
  <2> QED
    BY <2>1, <2>2 DEF IInv, NoSocketYet, BufferDrained, FreshIsClean, ConnectedIsKnown,
                      DataIsAnswered, Answered, isMQTTConnected
<1> QED
  BY <1>1, <1>2, <1>3, <1>4, <1>5, <1>6, <1>7, <1>8 DEF Next, MainLoop, Environment

\* With one TCP socket, which is what the library is built with, every reachable
\* state of the client and of its connection satisfies the inductive invariant.
THEOREM Invariant ==
  ASSUME OneSlot PROVE Spec => []IInv
<1>1. Init => IInv
  BY InitInv
<1>2. IInv /\ [Next]_vars => IInv'
  BY NextInv
<1> QED
  BY <1>1, <1>2, PTL DEF Spec

\* The data of one turn of the loop, and so of one connection, is never left in
\* the receive buffer for the next (flushRecvBuf at the end of every case).
THEOREM Drained ==
  ASSUME OneSlot PROVE Spec => []BufferDrained
<1>1. IInv => BufferDrained
  BY DEF IInv
<1> QED
  BY <1>1, Invariant, PTL

\* isMQTTConnected() over an established connection means that the broker has
\* answered the CONNECT of this connection, and not merely of an earlier one.
THEOREM ConnectionIsAnswered ==
  ASSUME OneSlot PROVE Spec => []ConnectedIsAnswered
<1>1. IInv => ConnectedIsAnswered
  BY DEF IInv, DataIsAnswered, ConnectedIsAnswered, TypeOK
<1> QED
  BY <1>1, Invariant, PTL

\* SUBSCRIBE, sent on a CONNACK, is sent on the connection the CONNACK was for.
THEOREM SubscriptionFollowsAnswer ==
  ASSUME OneSlot PROVE Spec => []SubscribeAfterConnack
<1>1. IInv => SubscribeAfterConnack
  BY DEF IInv, DataIsAnswered, SubscribeAfterConnack, InFlight, Subscribes
<1> QED
  BY <1>1, Invariant, PTL

\* The unknown timer closes the client's socket, and never an established one.
THEOREM TimerIsSafe ==
  ASSUME OneSlot PROVE Spec => TimerSparesLive
<1>1. IInv /\ [Next]_vars
      => [TimerStep /\ UnknownTimer => socket = NoSocket \/ tcp[socket].st # "estab"]_vars
  <2> SUFFICES ASSUME IInv, Next, TimerStep, UnknownTimer, socket # NoSocket
               PROVE  tcp[socket].st # "estab"
    OBVIOUS
  <2>1. status = "Unknown" /\ socket \in Slots
    BY DEF UnknownTimer, UnknownExpired, IInv, TypeOK
  <2> QED
    BY <2>1 DEF TimerStep, IInv, ConnectedIsKnown
<1> QED
  BY <1>1, Invariant, PTL DEF Spec, TimerSparesLive
=============================================================================
