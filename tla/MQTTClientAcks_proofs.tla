----------------------- MODULE MQTTClientAcks_proofs -----------------------
(***************************************************************************)
(* Three more proofs about a client with one TCP socket, all on top of the *)
(* invariant of MQTTClient_proofs: a client that says it is connected has  *)
(* a connection (CorrectStatus), if the loss of one is told in a poll of   *)
(* its own; its acknowledgements are owed (AckOwed), if TCP delivers every *)
(* packet in one piece; and so do its PUBCOMPs match the releases of the   *)
(* broker as long as a message of quality 2 is in flight alone             *)
(* (PubcompMatchesAlone).                                                  *)
(***************************************************************************)
EXTENDS MQTTClient_proofs

(***************************************************************************)
(* CorrectStatus.  A connection that is gone while the client still says   *)
(* it is connected has left its flag, then its status, and nothing that    *)
(* could write over the status before SockStep has looked at it: only the  *)
(* flush of received data does that, and there is data only of an          *)
(* established connection.                                                 *)
(***************************************************************************)
DataIsLive == \A s \in Slots :
  "RECV" \in tcp[s].flags \/ recvBuf[s] # <<>> => tcp[s].st = "estab"

LossIsTold(s) ==
  /\ tcp[s].st = "free"
  /\ \/ pc = "eth" /\ tcp[s].flags \in {{"DISCONNECT"}, {"TIM_OUT"}}
     \/ pc \in {"recv", "sock"} /\ socketStates[s] \in {"disconnected", "timeout"}

StatusIsTrue ==
  isMQTTConnected =>
    socket # NoSocket /\ (tcp[socket].st = "estab" \/ LossIsTold(socket))

StatusInv == DataIsLive /\ StatusIsTrue

(***************************************************************************)
(* AckOwed.  A message of quality 1 or 2 and its acknowledgement are one   *)
(* token that moves from the broker's side of the connection to the        *)
(* received data, the client's buffer and, changed into the                *)
(* acknowledgement, back.  It is in one place, and the broker waits for it.*)
(***************************************************************************)
\* What the client has to do with is whole packets, as the broker sends them.
Whole(p) ==
  /\ p.type # "FRAGMENT"
  /\ p.type = "PUBLISH" => p.qos \in 0..2 /\ (p.qos # 0 => p.id # 0)

Wholes(q) == \A i \in 1..Len(q) : Whole(q[i])

WholeInv == \A s \in Slots :
  tcp[s].st = "estab" =>
    Wholes(tcp[s].down) /\ Wholes(tcp[s].rx) /\ Wholes(recvBuf[s])

Has(q, x)  == \E i \in 1..Len(q) : q[i] = x
Once(q, x) == \A i, j \in 1..Len(q) : q[i] = x /\ q[j] = x => i = j

\* What the client answers to the broker's messages, and to a message itself.
Answer   == {a \in Packet : a.type \in {"PUBACK", "PUBREC", "PUBCOMP"}}
Replies  == {a \in Packet : a.type \in {"PUBACK", "PUBREC"}}
Asked(a) == Publish(IF a.type = "PUBACK" THEN 1 ELSE 2, a.id)

InOnePlace(d, x, b, u, m, a) ==
  /\ Once(d, m) /\ Once(x, m) /\ Once(b, m) /\ Once(u, a)
  /\ ~(Has(d, m) /\ Has(x, m)) /\ ~(Has(d, m) /\ Has(b, m)) /\ ~(Has(d, m) /\ Has(u, a))
  /\ ~(Has(x, m) /\ Has(b, m)) /\ ~(Has(x, m) /\ Has(u, a)) /\ ~(Has(b, m) /\ Has(u, a))

Anywhere(d, x, b, u, m, a) == Has(d, m) \/ Has(x, m) \/ Has(b, m) \/ Has(u, a)

\* The acknowledgement a on a connection with these data, whose broker waits
\* for those acknowledgements and has sent those messages.
Accounted(d, x, b, u, unacked, done, a) ==
  /\ Has(u, a) => a.qos = 0
  /\ a.qos = 0 =>
       /\ InOnePlace(d, x, b, u, Asked(a), a)
       /\ Anywhere(d, x, b, u, Asked(a), a) => a \in unacked
  /\ a \in unacked => a.id \in done

AckInv == \A s \in Slots : \A a \in Replies :
  /\ tcp[s].st = "synsent" => ~Has(tcp[s].up, a)
  /\ tcp[s].st = "estab" =>
       Accounted(tcp[s].down, tcp[s].rx, recvBuf[s], tcp[s].up, broker[s].unacked, sent, a)

(***************************************************************************)
(* PubcompMatchesAlone.  As long as every message of quality 2 was in      *)
(* flight alone, its PUBREL and its PUBCOMP are one token too, and         *)
(* lastTopicPacketID cannot change before the token is back: another id    *)
(* would be that of a message in flight beside it.                         *)
(***************************************************************************)
Rels == {m \in Packet : m.type = "PUBREL"}
Completion(m) == [m EXCEPT !.type = "PUBCOMP"]

InTurn(unacked, released) ==
  /\ \A a \in unacked : a.type = "PUBREC" => unacked = {a} /\ released = {}
  /\ \A i \in released : released = {i} /\ unacked = {}

\* The release m, with a client whose lastTopicPacketID is last.
Released(d, x, b, u, released, last, m) ==
  /\ InOnePlace(d, x, b, u, m, Completion(m))
  /\ Anywhere(d, x, b, u, m, Completion(m)) => m.qos = 0 /\ m.id \in released
  /\ Has(d, m) \/ Has(x, m) \/ Has(b, m) => m.id = last

Exchange(d, x, b, u, unacked, released, last) ==
  /\ InTurn(unacked, released)
  /\ \A a \in Replies : a.type = "PUBREC" /\ Has(u, a) => a.id = last
  /\ \A m \in Rels : Released(d, x, b, u, released, last, m)

ExchangeInv == \A s \in Slots :
  /\ tcp[s].st = "synsent" => \A m \in Rels : ~Has(tcp[s].up, Completion(m))
  /\ tcp[s].st = "estab" /\ broker[s].alone =>
       Exchange(tcp[s].down, tcp[s].rx, recvBuf[s], tcp[s].up,
                broker[s].unacked, broker[s].released, lastId)

-----------------------------------------------------------------------------
(* The status, one lemma per step of the loop.                             *)

LEMMA InitStatus == Init => StatusInv
<1> SUFFICES ASSUME Init PROVE StatusInv
  OBVIOUS
<1> DEFINE none == [s \in Slots |-> NewSocket("free")]
<1>1. none \in Sockets /\ NoSocket \in Ids
  BY NewSocketType DEF Sockets, PcbState, Ids
<1>2. \/ tcp = none /\ socket = NoSocket
      \/ \E n \in Slots, st \in {"synsent", "idle"} :
           tcp = [none EXCEPT ![n] = NewSocket(st)] /\ socket = n
  BY <1>1, CreateCases DEF Init
<1>3. \A s \in Slots : tcp[s].flags = {}
  BY <1>2, NewIsClean
<1> QED
  BY <1>3 DEF Init, EthInit, StatusInv, DataIsLive, StatusIsTrue, isMQTTConnected

LEMMA EthStepStatus ==
  ASSUME IInv, StatusInv, NEW ticks \in 0..MaxTurn, EthStep(ticks)
  PROVE  StatusInv'
<1>1. pc = "eth" /\ pc' = "recv" /\ UNCHANGED <<status, socket>>
  BY DEF EthStep
<1>2. ASSUME NEW s \in Slots
      PROVE  /\ tcp'[s].st = tcp[s].st /\ tcp'[s].flags = {}
             /\ recvBuf'[s] # <<>> => "RECV" \in tcp[s].flags
             /\ socketStates'[s] = StateAfter(socketStates[s], tcp[s].flags)
  <2>1. tcp[s] \in Socket /\ recvBuf[s] = <<>>
    BY <1>1 DEF IInv, TypeOK, EthTypeOK, BufferDrained
  <2> QED
    BY <2>1 DEF EthStep, EthMainTask, Socket
<1>3. DataIsLive'
  BY <1>2 DEF StatusInv, DataIsLive
<1>4. StatusIsTrue'
  <2> SUFFICES ASSUME isMQTTConnected
               PROVE  socket # NoSocket /\ (tcp'[socket].st = "estab" \/ LossIsTold(socket)')
    BY <1>1 DEF StatusIsTrue, isMQTTConnected
  <2>1. socket \in Slots /\ (tcp[socket].st = "estab" \/ LossIsTold(socket))
    BY DEF StatusInv, StatusIsTrue, IInv, TypeOK
  <2>2. CASE LossIsTold(socket)
    <3>1. StateAfter(socketStates[socket], tcp[socket].flags) \in {"disconnected", "timeout"}
      BY <1>1, <2>2 DEF LossIsTold, StateAfter
    <3> QED
      BY <1>1, <1>2, <2>1, <2>2, <3>1, SlotsAssumption DEF LossIsTold
  <2> QED
    BY <1>2, <2>1, <2>2, SlotsAssumption
<1> QED
  BY <1>3, <1>4 DEF StatusInv

\* A call that sends changes no slot but in what is under way to the broker.
LEMMA SendKeeps ==
  ASSUME NEW t \in Sockets, NEW s \in Ids, NEW p \in Packet, NEW n \in Slots
  PROVE  /\ sendPacket(t, s, p)[n].st = t[n].st /\ sendPacket(t, s, p)[n].flags = t[n].flags
         /\ sendPacket(t, s, p)[n].rx = t[n].rx /\ sendPacket(t, s, p)[n].down = t[n].down
BY DEF sendPacket, Sockets, Socket

\* RecvStep sends one packet or none.
LEMMA RecvSends ==
  ASSUME TypeOK, getRecvBuf(socket) # <<>>, NEW p \in Looks(Head(getRecvBuf(socket))),
         \/ RecvConnack(p) \/ RecvStatus(p) \/ RecvPublish(p)
         \/ RecvPubrel(p)  \/ RecvOther(p)
  PROVE  tcp' = tcp \/ \E y \in Packet : tcp' = sendPacket(tcp, socket, y)
<1>1. CASE RecvConnack(p)
  BY <1>1, PacketTypes DEF RecvConnack, MQTTSubscribe, Types
<1>2. CASE RecvPublish(p)
  <2>1. p.id \in Nat /\ p.qos \in 0..3
    BY LooksType
  <2>2. lastId' \in Nat
    BY <1>2, <2>1, PublishedIdType DEF RecvPublish
  <2> QED
    BY <1>2, <2>1, <2>2, AcknowledgeType DEF RecvPublish
<1>3. CASE RecvPubrel(p)
  BY <1>3, PacketTypes DEF RecvPubrel, Types, AckTypes, TypeOK
<1>4. CASE RecvStatus(p) \/ RecvOther(p)
  BY <1>4 DEF RecvStatus, RecvOther
<1> QED
  BY <1>1, <1>2, <1>3, <1>4

\* What it may answer to a whole packet.
LEMMA RecvAnswers ==
  ASSUME TypeOK, getRecvBuf(socket) # <<>>, NEW p \in Looks(Head(getRecvBuf(socket))),
         \/ RecvConnack(p) \/ RecvStatus(p) \/ RecvPublish(p)
         \/ RecvPubrel(p)  \/ RecvOther(p),
         Whole(Head(recvBuf[socket]))
  PROVE  /\ p = Head(recvBuf[socket])
         /\ \/ tcp' = tcp /\ lastId' = lastId
            \/ \E y \in Packet :
                 /\ tcp' = sendPacket(tcp, socket, y)
                 /\ \/ y \notin Answer /\ lastId' = lastId
                    \/ /\ p.type = "PUBLISH" /\ p.qos \in 1..2
                       /\ y = Ack(PublishAnswer[p.qos], p.id) /\ lastId' = p.id
                    \/ p.type = "PUBREL" /\ y = Ack("PUBCOMP", lastId) /\ lastId' = lastId
<1>1. socket \in Slots /\ socket # NoSocket
  BY SlotsAssumption DEF getRecvBuf, TypeOK
<1>2. p = Head(recvBuf[socket]) /\ Whole(p)
  BY <1>1 DEF getRecvBuf, Looks, Whole
<1>3. p.id \in Nat /\ p.qos \in 0..3
  BY LooksType
<1>4. CASE RecvConnack(p)
  <2>1. Plain("SUBSCRIBE") \in Packet /\ Plain("SUBSCRIBE").type = "SUBSCRIBE"
    BY PacketTypes DEF Types, Plain
  <2>2. Plain("SUBSCRIBE") \notin Answer
    BY <2>1 DEF Answer
  <2> QED
    BY <1>2, <1>4, <2>1, <2>2 DEF RecvConnack, MQTTSubscribe
<1>5. CASE RecvPublish(p)
  <2>1. CASE p.qos = 0
    <3>1. p.qos \notin DOMAIN PublishAnswer
      BY <2>1 DEF PublishAnswer
    <3> QED
      BY <1>2, <1>5, <2>1, <3>1 DEF RecvPublish, parsePublishedTopic, Acknowledge
  <2>2. CASE p.qos # 0
    <3>1. p.qos \in 1..2 /\ p.id # 0 /\ p.type = "PUBLISH"
      BY <1>2, <1>5, <2>2 DEF Whole, RecvPublish
    <3>2. p.qos \in DOMAIN PublishAnswer /\ PublishAnswer[p.qos] \in Types
      BY <3>1 DEF PublishAnswer, Types, AckTypes
    <3>3. tcp' = sendPacket(tcp, socket, Ack(PublishAnswer[p.qos], p.id)) /\ lastId' = p.id
      BY <1>5, <2>2, <3>1, <3>2 DEF RecvPublish, parsePublishedTopic, Acknowledge
    <3>4. Ack(PublishAnswer[p.qos], p.id) \in Packet
      BY <1>3, <3>2, PacketTypes
    <3> QED
      BY <1>2, <3>1, <3>3, <3>4
  <2> QED
    BY <2>1, <2>2
<1>6. CASE RecvPubrel(p)
  <2>1. Ack("PUBCOMP", lastId) \in Packet
    BY PacketTypes DEF Types, AckTypes, TypeOK
  <2> QED
    BY <1>2, <1>6, <2>1 DEF RecvPubrel
<1>7. CASE RecvStatus(p) \/ RecvOther(p)
  BY <1>2, <1>7 DEF RecvStatus, RecvOther
<1> QED
  BY <1>4, <1>5, <1>6, <1>7

LEMMA RecvStepStatus ==
  ASSUME OneSlot, IInv, StatusInv, RecvStep
  PROVE  StatusInv'
<1>1. pc = "recv" /\ pc' = "sock"
  BY DEF RecvStep
<1>2. CASE RecvNothing
  BY <1>1, <1>2 DEF RecvNothing, ethVars, clientVars, StatusInv, DataIsLive, StatusIsTrue,
                    LossIsTold, isMQTTConnected
<1>3. ASSUME getRecvBuf(socket) # <<>>,
             NEW p \in Looks(Head(getRecvBuf(socket))),
             \/ RecvConnack(p) \/ RecvStatus(p) \/ RecvPublish(p)
             \/ RecvPubrel(p)  \/ RecvOther(p)
      PROVE  StatusInv'
  <2>1. socket \in Slots /\ recvBuf[socket] # <<>>
    BY <1>3 DEF getRecvBuf, IInv, TypeOK
  <2>2. tcp[socket].st = "estab" /\ \A s \in Slots : s = socket
    BY <2>1 DEF StatusInv, DataIsLive, OneSlot
  <2>3. tcp \in Sockets /\ socket \in Ids
    BY DEF IInv, TypeOK, EthTypeOK, Sockets, Ids
  <2>4. tcp'[socket].st = "estab"
    <3>1. tcp' = tcp \/ \E y \in Packet : tcp' = sendPacket(tcp, socket, y)
      BY <1>3, RecvSends DEF IInv
    <3> QED
      BY <2>1, <2>2, <2>3, <3>1, SendKeeps
  <2>5. UNCHANGED socket
    BY <1>3 DEF RecvConnack, RecvStatus, RecvPublish, RecvPubrel, RecvOther, RecvDone
  <2> QED
    BY <2>1, <2>2, <2>4, <2>5, SlotsAssumption DEF StatusInv, DataIsLive, StatusIsTrue
<1> QED
  BY <1>2, <1>3 DEF RecvStep

LEMMA SockStepStatus ==
  ASSUME OneSlot, IInv, StatusInv, SockStep
  PROVE  StatusInv'
<1>1. pc = "sock" /\ pc' = "timers" /\ UNCHANGED <<socketStates, recvBuf>>
  BY DEF SockStep
<1>2. tcp \in Sockets /\ socket \in Ids
  BY DEF IInv, TypeOK, EthTypeOK, Sockets, Ids
<1>3. \A s \in Slots : recvBuf'[s] = <<>>
  BY <1>1 DEF IInv, BufferDrained
<1>4. CASE SockNone
  BY <1>1, <1>4 DEF SockNone, StatusInv, DataIsLive, StatusIsTrue, isMQTTConnected
<1>5. CASE SockLost
  <2>1. PICK r \in createTcpSocket(tcp, socket) : tcp' = r.tcp
    BY <1>5 DEF SockLost, connect
  <2>2. ~isMQTTConnected'
    BY <1>5 DEF SockLost, isMQTTConnected
  <2>3. \A s \in Slots : tcp'[s] = tcp[s] \/ tcp'[s].flags = {}
    BY <1>2, <2>1, CreateInv, NewIsClean DEF IInv
  <2> QED
    BY <1>3, <2>2, <2>3 DEF StatusInv, DataIsLive, StatusIsTrue
<1>6. CASE SockConnected
  <2>1. Plain("CONNECT") \in Packet
    BY PacketTypes DEF Types
  <2>2. \A n \in Slots : tcp'[n].st = tcp[n].st /\ tcp'[n].flags = tcp[n].flags
    BY <1>2, <1>6, <2>1, SendKeeps DEF SockConnected, MQTTConnect
  <2>3. UNCHANGED socket /\ (isMQTTConnected' => isMQTTConnected)
    BY <1>6 DEF SockConnected, isMQTTConnected
  <2>4. socket # NoSocket => socketStates[socket] = "connected"
    BY <1>6 DEF SockConnected, getSocketStatus
  <2>5. isMQTTConnected => socket # NoSocket /\ tcp[socket].st = "estab"
    BY <1>1, <2>4 DEF StatusInv, StatusIsTrue, LossIsTold
  <2> QED
    BY <1>2, <1>3, <2>2, <2>3, <2>5 DEF StatusInv, DataIsLive, StatusIsTrue, Ids
<1> QED
  BY <1>4, <1>5, <1>6 DEF SockStep

LEMMA TimerStepStatus ==
  ASSUME OneSlot, IInv, StatusInv, TimerStep
  PROVE  StatusInv'
<1>1. pc = "timers" /\ pc' = "app" /\ UNCHANGED recvBuf
  BY DEF TimerStep
<1>2. tcp \in Sockets /\ socket \in Ids
  BY DEF IInv, TypeOK, EthTypeOK, Sockets, Ids
<1>3. \A s \in Slots : recvBuf'[s] = <<>>
  BY <1>1 DEF IInv, BufferDrained
<1>4. CASE NoUnknownTimer
  <2>1. Sending(tcp, tcp') /\ UNCHANGED <<socket, status>>
    BY <1>2, <1>4, PingSending DEF NoUnknownTimer
  <2> QED
    BY <1>1, <1>2, <1>3, <2>1
    DEF StatusInv, DataIsLive, StatusIsTrue, LossIsTold, isMQTTConnected, Sending, Ids
<1>5. CASE UnknownTimer
  <2> DEFINE t == closeSocket(tcp, socket)
  <2>1. \A n \in Slots : tcp[n].st # "estab"
    BY <1>1, <1>5 DEF UnknownTimer, UnknownExpired, IInv, ConnectedIsKnown
  <2>2. t \in Sockets
    BY <1>2, CloseType
  <2>3. PICK r \in createTcpSocket(t, socket) :
          tcp' = Ping(MQTTConnect(r.tcp, r.socket), r.socket)
    BY <1>5 DEF UnknownTimer
  <2> HIDE DEF t
  <2>4. r.tcp \in Sockets /\ r.socket \in Ids
    BY <1>2, <2>2, CreateType
  <2>5. Plain("CONNECT") \in Packet /\ Plain("CONNECT").type # "SUBSCRIBE"
    BY PacketTypes DEF Types, Plain
  <2>6. Sending(r.tcp, tcp')
    <3>1. /\ Sending(r.tcp, MQTTConnect(r.tcp, r.socket))
          /\ MQTTConnect(r.tcp, r.socket) \in Sockets
      BY <2>4, <2>5, SendSending, SendType DEF MQTTConnect
    <3> QED
      BY <2>3, <2>4, <3>1, PingSending DEF Sending
  <2>7. ASSUME NEW n \in Slots PROVE "RECV" \notin tcp'[n].flags
    <3>1. t[n] = tcp[n] \/ t[n].flags = {}
      BY <1>2, <2>1, CloseInv, NewIsClean DEF t
    <3>2. r.tcp[n] = t[n] \/ r.tcp[n].flags = {}
      BY <2>2, CreateInv, NewIsClean DEF IInv
    <3> QED
      BY <2>1, <2>6, <3>1, <3>2 DEF StatusInv, DataIsLive, Sending
  <2>8. ~isMQTTConnected'
    BY <1>5 DEF UnknownTimer, isMQTTConnected
  <2> QED
    BY <1>3, <2>7, <2>8 DEF StatusInv, DataIsLive, StatusIsTrue
<1> QED
  BY <1>4, <1>5 DEF TimerStep

LEMMA AppSending ==
  ASSUME TypeOK, AppStep
  PROVE  tcp' = tcp \/ \E y \in Packet : tcp' = sendPacket(tcp, socket, y) /\ y \notin Answer
<1>1. CASE AppIdle
  BY <1>1 DEF AppIdle
<1>2. ASSUME NEW q \in Qos, AppPublish(q)
      PROVE  \E y \in Packet : tcp' = sendPacket(tcp, socket, y) /\ y \notin Answer
  <2>1. Publish(q, packedID) \in Packet /\ Publish(q, packedID).type = "PUBLISH"
    BY ClientAssumption, PacketTypes DEF Publish, TypeOK
  <2>2. Publish(q, packedID) \notin Answer
    BY <2>1 DEF Answer
  <2> QED
    BY <1>2, <2>1, <2>2 DEF AppPublish, MQTTPublish
<1>3. CASE AppSend
  <2>1. \A type \in {"UNSUBSCRIBE", "DISCONNECT"} :
          Plain(type) \in Packet /\ Plain(type) \notin Answer
    BY PacketTypes DEF Types, Plain, Answer
  <2> QED
    BY <1>3, <2>1 DEF AppSend, MQTTUnsubscribe, MQTTDisconnect
<1> QED
  BY <1>1, <1>2, <1>3 DEF AppStep

LEMMA AppStepStatus ==
  ASSUME IInv, StatusInv, AppStep
  PROVE  StatusInv'
<1>1. pc = "app" /\ pc' = "eth" /\ UNCHANGED <<recvBuf, status, socket>>
  BY DEF AppStep
<1>2. tcp \in Sockets /\ socket \in Ids
  BY DEF IInv, TypeOK, EthTypeOK, Sockets, Ids
<1>3. \A n \in Slots : tcp'[n].st = tcp[n].st /\ tcp'[n].flags = tcp[n].flags
  BY <1>2, AppSending, SendKeeps DEF IInv
<1> QED
  BY <1>1, <1>2, <1>3 DEF StatusInv, DataIsLive, StatusIsTrue, LossIsTold, isMQTTConnected, Ids

-----------------------------------------------------------------------------
(* The status, outside the loop.                                           *)

\* A step outside the program changes one slot s.  If the client takes it for
\* connected, its connection stays, or goes with nothing but the flag of its end.
LEMMA SlotStatus ==
  ASSUME TypeOK, StatusInv, pc = "eth", NEW s \in Slots,
         UNCHANGED <<pc, status, socket, socketStates, recvBuf>>,
         \A n \in Slots \ {s} : tcp'[n] = tcp[n],
         "RECV" \in tcp'[s].flags \/ recvBuf[s] # <<>> => tcp'[s].st = "estab",
         isMQTTConnected /\ socket = s =>
           \/ tcp'[s].st = "estab"
           \/ tcp'[s].st = "free" /\ tcp'[s].flags \in {{"DISCONNECT"}, {"TIM_OUT"}}
  PROVE  StatusInv'
<1>1. DataIsLive'
  BY DEF StatusInv, DataIsLive
<1>2. StatusIsTrue'
  <2> SUFFICES ASSUME isMQTTConnected
               PROVE  socket # NoSocket /\ (tcp'[socket].st = "estab" \/ LossIsTold(socket)')
    BY DEF StatusIsTrue, isMQTTConnected
  <2>1. socket # NoSocket /\ (tcp[socket].st = "estab" \/ LossIsTold(socket))
    BY DEF StatusInv, StatusIsTrue
  <2>2. CASE socket = s
    BY <2>1, <2>2 DEF LossIsTold
  <2>3. CASE socket # s /\ socket \in Slots
    BY <2>1, <2>3 DEF LossIsTold
  <2> QED
    BY <2>1, <2>2, <2>3 DEF TypeOK
<1> QED
  BY <1>1, <1>2 DEF StatusInv

\* What a slot is after data arrived for it, in one piece or not, and after the
\* broker refused its CONNECT.
LEMMA NetRecvKeeps ==
  ASSUME TypeOK, NEW s \in Slots, NetRecv(s)
  PROVE  /\ tcp[s].st = "estab" /\ tcp'[s].st = "estab"
         /\ \A n \in Slots \ {s} : tcp'[n] = tcp[n]
<1>1. tcp \in [Slots -> Socket] /\ tcp[s] \in Socket /\ tcp[s].st = "estab"
  BY NetRecvType DEF TypeOK, EthTypeOK
<1>2. PICK q, d \in Seq(Packet) :
        tcp' = [tcp EXCEPT ![s] = [tcp[s] EXCEPT !.flags = @ \cup {"RECV"},
                                                 !.rx = q, !.down = d]]
  BY NetRecvType
<1> QED
  BY <1>1, <1>2 DEF Socket

LEMMA NetRecvWhole ==
  ASSUME ~Split, TypeOK, NEW s \in Slots, NetRecv(s)
  PROVE  /\ tcp[s].st = "estab" /\ tcp[s].down # <<>> /\ UNCHANGED broker
         /\ tcp'[s].st = "estab" /\ tcp'[s].up = tcp[s].up
         /\ tcp'[s].rx = Append(tcp[s].rx, Head(tcp[s].down))
         /\ tcp'[s].down = Tail(tcp[s].down)
         /\ \A n \in Slots \ {s} : tcp'[n] = tcp[n]
<1>1. tcp \in [Slots -> Socket] /\ tcp[s] \in Socket
  BY DEF TypeOK, EthTypeOK
<1>2. LibRecv(s) /\ UNCHANGED broker
  BY DEF NetRecv, LibRecvPart, LibRecvRest
<1> QED
  BY <1>1, <1>2 DEF LibRecv, Raise, Socket

LEMMA RefusesKeeps ==
  ASSUME TypeOK, NEW s \in Slots, BrokerRefuses(s)
  PROVE  /\ tcp'[s].st = tcp[s].st /\ tcp'[s].up = <<>> /\ tcp'[s].rx = tcp[s].rx
         /\ tcp'[s].down = Append(tcp[s].down, Plain("CONNACK"))
         /\ broker'[s].unacked = broker[s].unacked /\ broker'[s].released = broker[s].released
         /\ broker'[s].alone = broker[s].alone
         /\ \A n \in Slots \ {s} : tcp'[n] = tcp[n] /\ broker'[n] = broker[n]
<1>1. /\ tcp \in [Slots -> Socket] /\ broker \in [Slots -> BrokerEnd]
      /\ tcp[s] \in Socket /\ broker[s] \in BrokerEnd
  BY DEF TypeOK, EthTypeOK
<1>2. /\ tcp' = [tcp EXCEPT ![s] = [tcp[s] EXCEPT !.up = <<>>, !.fin = TRUE,
                               !.down = Append(tcp[s].down, Plain("CONNACK"))]]
      /\ broker' = [broker EXCEPT ![s] = [broker[s] EXCEPT !.refused = TRUE,
                                                           !.closed = TRUE]]
  BY BrokerRefusesType
<1> QED
  BY <1>1, <1>2 DEF Socket, BrokerEnd

LEMMA NetStatus ==
  ASSUME ~Merge, IInv, StatusInv, NEW s \in Slots,
         NetConnect(s) \/ NetRecv(s) \/ NetEnd(s) \/ NetReset(s)
  PROVE  StatusInv'
<1>1. /\ pc = "eth"
      /\ UNCHANGED <<pc, status, socket, socketStates, recvBuf>>
  BY DEF NetConnect, NetRecv, NetEnd, NetReset, LibConnect, LibRecv, LibRecvPart,
         LibRecvRest, LibFin, LibClosed, LibReset, clientVars
<1>2. TypeOK /\ tcp \in [Slots -> Socket] /\ tcp[s] \in Socket /\ recvBuf[s] = <<>>
  BY <1>1 DEF IInv, TypeOK, EthTypeOK, BufferDrained
<1>3. CASE NetConnect(s)
  <2>1. tcp' = [tcp EXCEPT ![s] = [tcp[s] EXCEPT !.flags = @ \cup {"CONNECT"}, !.st = "estab"]]
    BY <1>2, <1>3 DEF NetConnect, LibConnect, Raise
  <2>2. tcp'[s].st = "estab" /\ \A n \in Slots \ {s} : tcp'[n] = tcp[n]
    BY <1>2, <2>1 DEF Socket
  <2> QED
    BY <1>1, <1>2, <2>2, SlotStatus
<1>4. CASE NetRecv(s)
  <2>1. tcp'[s].st = "estab" /\ \A n \in Slots \ {s} : tcp'[n] = tcp[n]
    BY <1>2, <1>4, NetRecvKeeps
  <2> QED
    BY <1>1, <1>2, <2>1, SlotStatus
<1>5. CASE NetEnd(s) \/ NetReset(s)
  <2>1. PICK f \in {"DISCONNECT", "TIM_OUT"} :
          Lost(s, f) /\ (tcp[s].st # "closing" => tcp[s].flags = {})
    BY <1>5 DEF NetEnd, NetReset, LibFin, LibClosed, LibReset
  <2>2. tcp[s].st \in {"synsent", "estab", "closing"}
    BY <1>5 DEF NetEnd, NetReset, LibFin, LibClosed, LibReset
  <2>3. /\ tcp'[s].st = "free" /\ tcp'[s].flags = tcp[s].flags \cup {f}
        /\ \A n \in Slots \ {s} : tcp'[n] = tcp[n]
    BY <1>2, <2>1 DEF Lost, NewSocket
  <2>4. "RECV" \notin tcp'[s].flags
    BY <2>1, <2>2, <2>3 DEF StatusInv, DataIsLive
  <2>5. isMQTTConnected /\ socket = s => tcp[s].st = "estab"
    BY <2>2 DEF StatusInv, StatusIsTrue, LossIsTold, IInv, FreshIsClean, isMQTTConnected
  <2>6. isMQTTConnected /\ socket = s => tcp'[s].flags \in {{"DISCONNECT"}, {"TIM_OUT"}}
    BY <2>1, <2>3, <2>5
  <2> QED
    BY <1>1, <1>2, <2>3, <2>4, <2>6, SlotStatus
<1> QED
  BY <1>3, <1>4, <1>5

LEMMA BrokerStatus ==
  ASSUME IInv, StatusInv, NEW s \in Slots,
         BrokerRecv(s) \/ BrokerRefuses(s) \/ BrokerPublish(s) \/ BrokerClose(s)
  PROVE  StatusInv'
<1>1. /\ pc = "eth" /\ tcp[s].st = "estab"
      /\ UNCHANGED <<pc, status, socket, socketStates, recvBuf>>
  BY DEF BrokerRecv, BrokerRefuses, BrokerPublish, BrokerClose, Live, Unseen, clientVars
<1>2. TypeOK /\ tcp \in [Slots -> Socket] /\ tcp[s] \in Socket
  BY DEF IInv, TypeOK, EthTypeOK
<1>3. BrokerCloses(s) => tcp'[s].st = "estab" /\ \A n \in Slots \ {s} : tcp'[n] = tcp[n]
  BY <1>1, <1>2 DEF BrokerCloses, Socket
<1>4. tcp'[s].st = "estab" /\ \A n \in Slots \ {s} : tcp'[n] = tcp[n]
  <2>1. CASE BrokerRecv(s)
    <3> DEFINE p == Head(tcp[s].up)
    <3>1. BrokerReads(s, p)
      BY <2>1 DEF BrokerRecv
    <3>2. CASE ~BrokerCloses(s)
      <4>1. CASE p.type = "CONNECT" /\ ~broker[s].session
        BY <1>1, <1>2, <3>1, <4>1 DEF BrokerReads, Socket
      <4>2. CASE ~(p.type = "CONNECT" /\ ~broker[s].session)
        BY <1>1, <1>2, <3>1, <3>2, <4>2 DEF BrokerReads, Socket
      <4> QED
        BY <4>1, <4>2
    <3> QED
      BY <1>3, <3>2
  <2>2. CASE BrokerPublish(s)
    BY <1>1, <1>2, <2>2 DEF BrokerPublish, Socket
  <2>3. CASE BrokerClose(s)
    BY <1>3, <2>3 DEF BrokerClose
  <2>4. CASE BrokerRefuses(s)
    BY <1>1, <1>2, <2>4, RefusesKeeps
  <2> QED
    BY <2>1, <2>2, <2>3, <2>4
<1> QED
  BY <1>1, <1>2, <1>4, SlotStatus

LEMMA NextStatus ==
  ASSUME OneSlot, ~Merge, IInv, StatusInv, [Next]_vars
  PROVE  StatusInv'
<1>1. ASSUME NEW ticks \in 0..MaxTurn, EthStep(ticks)
      PROVE  StatusInv'
  BY <1>1, EthStepStatus
<1>2. CASE RecvStep
  BY <1>2, RecvStepStatus
<1>3. CASE SockStep
  BY <1>3, SockStepStatus
<1>4. CASE TimerStep
  BY <1>4, TimerStepStatus
<1>5. CASE AppStep
  BY <1>5, AppStepStatus
<1>6. ASSUME NEW s \in Slots,
             \/ NetConnect(s) \/ NetRecv(s) \/ NetEnd(s) \/ NetReset(s)
             \/ BrokerRecv(s) \/ BrokerRefuses(s) \/ BrokerPublish(s) \/ BrokerClose(s)
      PROVE  StatusInv'
  BY <1>6, NetStatus, BrokerStatus
<1>7. CASE Rollover \/ UNCHANGED vars
  <2>1. UNCHANGED <<tcp, socketStates, recvBuf, pc, status, socket>>
    BY <1>7 DEF Rollover, vars, ethVars, clientVars
  <2> QED
    BY <2>1 DEF StatusInv, DataIsLive, StatusIsTrue, LossIsTold, isMQTTConnected
<1> QED
  BY <1>1, <1>2, <1>3, <1>4, <1>5, <1>6, <1>7 DEF Next, MainLoop, Environment

\* If the library reports the loss of a connection in a poll of its own
\* (~Merge), isMQTTConnected() is true of it when mainTask returns.
THEOREM StatusIsCorrect ==
  ASSUME OneSlot, ~Merge PROVE Spec => []CorrectStatus
<1>1. Init => StatusInv
  BY InitStatus
<1>2. IInv /\ StatusInv /\ [Next]_vars => StatusInv'
  BY NextStatus
<1>3. StatusInv => CorrectStatus
  BY DEF StatusInv, StatusIsTrue, LossIsTold, CorrectStatus
<1> QED
  BY <1>1, <1>2, <1>3, Invariant, PTL DEF Spec

-----------------------------------------------------------------------------
(* Sequences: where a packet is after one more, one less, a part of one.   *)

LEMMA EmptyHas == \A x : ~Has(<<>>, x) /\ Once(<<>>, x)
BY DEF Has, Once

LEMMA AppendHas ==
  ASSUME NEW q \in Seq(Packet), NEW y \in Packet, NEW x
  PROVE  /\ Has(Append(q, y), x) <=> Has(q, x) \/ y = x
         /\ Once(q, x) /\ ~(Has(q, x) /\ y = x) => Once(Append(q, y), x)
<1>1. /\ Len(q) \in Nat /\ Len(Append(q, y)) = Len(q) + 1
      /\ Append(q, y)[Len(q) + 1] = y
      /\ \A i \in 1..Len(q) : Append(q, y)[i] = q[i]
  OBVIOUS
<1>2. \A i \in 1..(Len(q) + 1) : i \in 1..Len(q) \/ i = Len(q) + 1
  BY <1>1
<1>3. 1..Len(q) \subseteq 1..(Len(q) + 1) /\ Len(q) + 1 \in 1..(Len(q) + 1)
  BY <1>1
<1>4. Has(Append(q, y), x) <=> Has(q, x) \/ y = x
  BY <1>1, <1>2, <1>3 DEF Has
<1>5. Once(q, x) /\ ~(Has(q, x) /\ y = x) => Once(Append(q, y), x)
  BY <1>1, <1>2 DEF Has, Once
<1> QED
  BY <1>4, <1>5

LEMMA TailHas ==
  ASSUME NEW q \in Seq(Packet), q # <<>>, NEW x
  PROVE  /\ Has(q, x) <=> Head(q) = x \/ Has(Tail(q), x)
         /\ Once(q, x) => Once(Tail(q), x) /\ ~(Head(q) = x /\ Has(Tail(q), x))
<1>1. /\ Len(q) \in Nat \ {0} /\ Len(Tail(q)) = Len(q) - 1 /\ Head(q) = q[1]
      /\ \A i \in 1..(Len(q) - 1) : Tail(q)[i] = q[i + 1]
  OBVIOUS
<1>2. \A i \in 1..Len(q) : i = 1 \/ (i - 1 \in 1..(Len(q) - 1) /\ (i - 1) + 1 = i)
  BY <1>1
<1>3. \A i \in 1..(Len(q) - 1) : i + 1 \in 1..Len(q) /\ i + 1 # 1
  BY <1>1
<1>4. 1 \in 1..Len(q)
  BY <1>1
<1>5. Has(q, x) <=> Head(q) = x \/ Has(Tail(q), x)
  <2>1. Has(q, x) => Head(q) = x \/ Has(Tail(q), x)
    BY <1>1, <1>2 DEF Has
  <2>2. Head(q) = x \/ Has(Tail(q), x) => Has(q, x)
    BY <1>1, <1>3, <1>4 DEF Has
  <2> QED
    BY <2>1, <2>2
<1>6. ASSUME Once(q, x) PROVE Once(Tail(q), x) /\ ~(Head(q) = x /\ Has(Tail(q), x))
  <2>1. Once(Tail(q), x)
    <3> SUFFICES ASSUME NEW i \in 1..(Len(q) - 1), NEW j \in 1..(Len(q) - 1),
                        Tail(q)[i] = x, Tail(q)[j] = x
                 PROVE  i = j
      BY <1>1 DEF Once
    <3>1. i + 1 = j + 1
      BY <1>1, <1>3, <1>6 DEF Once
    <3> QED
      BY <3>1
  <2>2. ~(Head(q) = x /\ Has(Tail(q), x))
    BY <1>1, <1>3, <1>4, <1>6 DEF Has, Once
  <2> QED
    BY <2>1, <2>2
<1> QED
  BY <1>5, <1>6

LEMMA AskedIs ==
  ASSUME NEW a \in Replies
  PROVE  /\ Asked(a) \in Packet /\ Asked(a).type = "PUBLISH"
         /\ Asked(a).qos \in 1..2 /\ Asked(a).id = a.id
         /\ a.type = PublishAnswer[Asked(a).qos]
         /\ a.qos = 0 => a = Ack(PublishAnswer[Asked(a).qos], Asked(a).id)
<1>1. a \in Packet /\ a.type \in {"PUBACK", "PUBREC"} /\ a.id \in Nat
  BY DEF Replies, Packet
<1>2. /\ Asked(a).type = "PUBLISH" /\ Asked(a).id = a.id
      /\ Asked(a).qos = IF a.type = "PUBACK" THEN 1 ELSE 2
  BY DEF Asked, Publish
<1>3. Asked(a) \in Packet
  BY <1>1, PacketTypes DEF Asked
<1>4. a.type = PublishAnswer[Asked(a).qos]
  BY <1>1, <1>2 DEF PublishAnswer
<1>5. a.qos = 0 => a = Ack(a.type, a.id)
  BY <1>1 DEF Packet, Ack
<1> QED
  BY <1>1, <1>2, <1>3, <1>4, <1>5

\* The acknowledgement of a PUBLISH is the one that is asked for.
LEMMA AnswerIs ==
  ASSUME NEW p \in Packet, p.type = "PUBLISH", p.qos \in 1..2
  PROVE  /\ Ack(PublishAnswer[p.qos], p.id) \in Replies
         /\ Ack(PublishAnswer[p.qos], p.id).qos = 0
         /\ Ack(PublishAnswer[p.qos], p.id).id = p.id
         /\ Asked(Ack(PublishAnswer[p.qos], p.id)) = p
<1>1. p.id \in Nat /\ p = Publish(p.qos, p.id)
  BY DEF Packet, Publish
<1>2. PublishAnswer[p.qos] = (IF p.qos = 1 THEN "PUBACK" ELSE "PUBREC")
  BY DEF PublishAnswer
<1>3. Ack(PublishAnswer[p.qos], p.id) \in Packet
  BY <1>1, <1>2, PacketTypes DEF Types, AckTypes
<1>4. Asked(Ack(PublishAnswer[p.qos], p.id)) = p
  BY <1>1, <1>2 DEF Asked, Ack, Publish
<1> QED
  BY <1>2, <1>3, <1>4 DEF Replies, Ack

\* u is t but for packets given to it to send, none of A among them.
SendsNo(A, t, u) == \A n \in Slots :
  /\ u[n].st = t[n].st /\ u[n].rx = t[n].rx /\ u[n].down = t[n].down
  /\ \A a \in A : /\ Has(u[n].up, a) <=> Has(t[n].up, a)
                  /\ Once(t[n].up, a) => Once(u[n].up, a)

LEMMA SendsOther ==
  ASSUME NEW A, NEW t \in Sockets, NEW s \in Ids, NEW y \in Packet, y \notin A
  PROVE  SendsNo(A, t, sendPacket(t, s, y))
<1>1. CASE ~Sendable(t, s)
  BY <1>1 DEF sendPacket, SendsNo
<1>2. CASE Sendable(t, s)
  <2>1. s \in Slots /\ t[s] \in Socket /\ t[s].up \in Seq(Packet)
    BY <1>2 DEF Sendable, Ids, Sockets, Socket
  <2>2. ASSUME NEW a \in A
        PROVE  /\ Has(Append(t[s].up, y), a) <=> Has(t[s].up, a)
               /\ Once(t[s].up, a) => Once(Append(t[s].up, y), a)
    BY <2>1, AppendHas
  <2>3. sendPacket(t, s, y) = [t EXCEPT ![s] = [t[s] EXCEPT !.up = Append(t[s].up, y)]]
    BY <1>2 DEF sendPacket
  <2> QED
    BY <2>1, <2>2, <2>3 DEF SendsNo, Sockets, Socket
<1> QED
  BY <1>1, <1>2

LEMMA SendsTwice ==
  ASSUME NEW A, NEW t, NEW u, NEW w, SendsNo(A, t, u), SendsNo(A, u, w)
  PROVE  SendsNo(A, t, w)
BY DEF SendsNo

LEMMA PingNoAnswer ==
  ASSUME NEW t \in Sockets, NEW s \in Ids
  PROVE  SendsNo(Answer, t, Ping(t, s))
<1>1. Plain("PINGREQ") \in Packet /\ Plain("PINGREQ").type = "PINGREQ"
  BY PacketTypes DEF Types, Plain
<1>2. Plain("PINGREQ") \notin Answer /\ SendsNo(Answer, t, t)
  BY <1>1 DEF SendsNo, Answer
<1> QED
  BY <1>1, <1>2, SendsOther DEF Ping, MQTTPingreq

-----------------------------------------------------------------------------
(* The acknowledgements, in the loop.                                      *)

\* What the steps of the loop from the socket on do to a slot: it is the same but
\* for packets sent that are no answers, or it is new and no connection yet.
NoAnswer(x, y) ==
  \/ /\ y.st = x.st /\ y.rx = x.rx /\ y.down = x.down
     /\ \A a \in Answer : /\ Has(y.up, a) <=> Has(x.up, a)
                          /\ Once(x.up, a) => Once(y.up, a)
  \/ y.st # "estab" /\ \A a \in Answer : ~Has(y.up, a)

LEMMA SockStepSends ==
  ASSUME OneSlot, IInv, SockStep
  PROVE  /\ UNCHANGED <<recvBuf, broker, sent, lastId>>
         /\ \A n \in Slots : NoAnswer(tcp[n], tcp'[n])
<1>1. tcp \in Sockets /\ socket \in Ids /\ UNCHANGED <<recvBuf, broker, sent, lastId>>
  BY DEF IInv, TypeOK, EthTypeOK, Sockets, Ids, SockStep
<1>2. CASE SockNone
  BY <1>1, <1>2 DEF SockNone, NoAnswer
<1>3. CASE SockLost
  <2>1. PICK r \in createTcpSocket(tcp, socket) : tcp' = r.tcp
    BY <1>3 DEF SockLost, connect
  <2> SUFFICES ASSUME NEW n \in Slots PROVE NoAnswer(tcp[n], r.tcp[n])
    BY <1>1, <2>1
  <2>2. CASE r.tcp[n] = tcp[n]
    BY <2>2 DEF NoAnswer
  <2>3. CASE r.tcp[n].st \in {"synsent", "idle"} /\ r.tcp[n] = NewSocket(r.tcp[n].st)
    <3>1. r.tcp[n].st # "estab" /\ r.tcp[n].up = <<>>
      BY <2>3 DEF NewSocket
    <3> QED
      BY <3>1, EmptyHas DEF NoAnswer
  <2> QED
    BY <1>1, <2>2, <2>3, CreateInv DEF IInv
<1>4. CASE SockConnected
  <2>1. Plain("CONNECT") \in Packet /\ Plain("CONNECT") \notin Answer
    BY PacketTypes DEF Types, Plain, Answer
  <2>2. SendsNo(Answer, tcp, tcp')
    <3>1. SendsNo(Answer, tcp, tcp)
      BY DEF SendsNo
    <3> QED
      BY <1>1, <1>4, <2>1, <3>1, SendsOther DEF SockConnected, MQTTConnect
  <2> QED
    BY <1>1, <2>2 DEF SendsNo, NoAnswer
<1> QED
  BY <1>2, <1>3, <1>4 DEF SockStep

LEMMA TimerStepSends ==
  ASSUME OneSlot, IInv, TimerStep
  PROVE  /\ UNCHANGED <<recvBuf, broker, sent, lastId>>
         /\ \A n \in Slots : NoAnswer(tcp[n], tcp'[n])
<1>1. /\ pc = "timers" /\ tcp \in Sockets /\ socket \in Ids
      /\ UNCHANGED <<recvBuf, broker, sent, lastId>>
  BY DEF IInv, TypeOK, EthTypeOK, Sockets, Ids, TimerStep
<1>2. CASE NoUnknownTimer
  BY <1>1, <1>2, PingNoAnswer DEF NoUnknownTimer, SendsNo, NoAnswer
<1>3. CASE UnknownTimer
  <2> DEFINE t == closeSocket(tcp, socket)
  <2>1. \A n \in Slots : tcp[n].st # "estab"
    BY <1>1, <1>3 DEF UnknownTimer, UnknownExpired, IInv, ConnectedIsKnown
  <2>2. t \in Sockets
    BY <1>1, CloseType
  <2>3. PICK r \in createTcpSocket(t, socket) :
          tcp' = Ping(MQTTConnect(r.tcp, r.socket), r.socket)
    BY <1>3 DEF UnknownTimer
  <2> HIDE DEF t
  <2>4. r.tcp \in Sockets /\ r.socket \in Ids
    BY <1>1, <2>2, CreateType
  <2>5. Plain("CONNECT") \in Packet /\ Plain("CONNECT") \notin Answer
    BY PacketTypes DEF Types, Plain, Answer
  <2>6. SendsNo(Answer, r.tcp, tcp')
    <3>1. /\ SendsNo(Answer, r.tcp, MQTTConnect(r.tcp, r.socket))
          /\ MQTTConnect(r.tcp, r.socket) \in Sockets
      BY <2>4, <2>5, SendsOther, SendType DEF MQTTConnect
    <3>2. SendsNo(Answer, MQTTConnect(r.tcp, r.socket), tcp')
      BY <2>3, <2>4, <3>1, PingNoAnswer
    <3> QED
      BY <3>1, <3>2, SendsTwice
  <2>7. ASSUME NEW n \in Slots PROVE NoAnswer(tcp[n], tcp'[n])
    <3>1. CASE r.tcp[n] = tcp[n]
      BY <2>6, <3>1 DEF SendsNo, NoAnswer
    <3>2. CASE \E st \in PcbState \ {"estab"} : r.tcp[n] = NewSocket(st)
      <4>1. r.tcp[n].st # "estab" /\ r.tcp[n].up = <<>>
        BY <3>2 DEF NewSocket
      <4> QED
        BY <2>6, <4>1, EmptyHas DEF SendsNo, NoAnswer
    <3>3. t[n] = tcp[n] \/ t[n] = NewSocket("closing") \/ t[n] = NewSocket("free")
      BY <1>1, <2>1, CloseInv DEF t
    <3>4. \/ r.tcp = t
          \/ r.tcp[n].st \in {"synsent", "idle"} /\ r.tcp[n] = NewSocket(r.tcp[n].st)
      BY <2>2, CreateInv DEF IInv
    <3> QED
      BY <3>1, <3>2, <3>3, <3>4 DEF PcbState
  <2> QED
    BY <1>1, <2>7
<1> QED
  BY <1>2, <1>3 DEF TimerStep

LEMMA AppStepSends ==
  ASSUME IInv, AppStep
  PROVE  /\ UNCHANGED <<recvBuf, broker, sent, lastId>>
         /\ \A n \in Slots : NoAnswer(tcp[n], tcp'[n])
<1>1. tcp \in Sockets /\ socket \in Ids /\ UNCHANGED <<recvBuf, broker, sent, lastId>>
  BY DEF IInv, TypeOK, EthTypeOK, Sockets, Ids, AppStep
<1>2. SendsNo(Answer, tcp, tcp)
  BY DEF SendsNo
<1>3. SendsNo(Answer, tcp, tcp')
  BY <1>1, <1>2, AppSending, SendsOther DEF IInv
<1> QED
  BY <1>1, <1>3 DEF SendsNo, NoAnswer

\* Such a step leaves the acknowledgements as they are.
LEMMA LoopAcks ==
  ASSUME AckInv, \A n \in Slots : NoAnswer(tcp[n], tcp'[n]), UNCHANGED <<recvBuf, broker, sent>>
  PROVE  AckInv'
<1> SUFFICES ASSUME NEW s \in Slots, NEW a \in Replies
             PROVE  /\ tcp'[s].st = "synsent" => ~Has(tcp'[s].up, a)
                    /\ tcp'[s].st = "estab" =>
                         Accounted(tcp'[s].down, tcp'[s].rx, recvBuf[s], tcp'[s].up,
                                   broker[s].unacked, sent, a)
  BY DEF AckInv
<1>1. a \in Answer
  BY DEF Replies, Answer
<1>2. /\ tcp[s].st = "synsent" => ~Has(tcp[s].up, a)
      /\ tcp[s].st = "estab" =>
           Accounted(tcp[s].down, tcp[s].rx, recvBuf[s], tcp[s].up,
                     broker[s].unacked, sent, a)
  BY DEF AckInv
<1>3. \/ /\ tcp'[s].st = tcp[s].st /\ tcp'[s].rx = tcp[s].rx /\ tcp'[s].down = tcp[s].down
         /\ Has(tcp'[s].up, a) <=> Has(tcp[s].up, a)
         /\ Once(tcp[s].up, a) => Once(tcp'[s].up, a)
      \/ tcp'[s].st # "estab" /\ ~Has(tcp'[s].up, a)
  BY <1>1 DEF NoAnswer
<1> QED
  BY <1>2, <1>3 DEF Accounted, InOnePlace, Anywhere

LEMMA InitAcks == Init => AckInv
<1> SUFFICES ASSUME Init PROVE AckInv
  OBVIOUS
<1> DEFINE none == [s \in Slots |-> NewSocket("free")]
<1>1. none \in Sockets /\ NoSocket \in Ids
  BY NewSocketType DEF Sockets, PcbState, Ids
<1>2. \/ tcp = none /\ socket = NoSocket
      \/ \E n \in Slots, st \in {"synsent", "idle"} :
           tcp = [none EXCEPT ![n] = NewSocket(st)] /\ socket = n
  BY <1>1, CreateCases DEF Init
<1>3. \A s \in Slots : tcp[s].st # "estab" /\ tcp[s].up = <<>>
  BY <1>2 DEF NewSocket
<1> QED
  BY <1>3, EmptyHas DEF AckInv

\* The received data goes over to the client's buffer, which is empty.
LEMMA EthStepAcks ==
  ASSUME IInv, AckInv, NEW ticks \in 0..MaxTurn, EthStep(ticks)
  PROVE  AckInv'
<1> SUFFICES ASSUME NEW s \in Slots, NEW a \in Replies
             PROVE  /\ tcp'[s].st = "synsent" => ~Has(tcp'[s].up, a)
                    /\ tcp'[s].st = "estab" =>
                         Accounted(tcp'[s].down, tcp'[s].rx, recvBuf'[s], tcp'[s].up,
                                   broker'[s].unacked, sent', a)
  BY DEF AckInv
<1>1. tcp[s] \in Socket /\ recvBuf[s] = <<>> /\ UNCHANGED <<broker, sent>>
  BY DEF IInv, TypeOK, EthTypeOK, BufferDrained, EthStep
<1>2. /\ tcp'[s].st = tcp[s].st /\ tcp'[s].down = tcp[s].down /\ tcp'[s].up = tcp[s].up
      /\ \/ tcp'[s].rx = <<>> /\ recvBuf'[s] = tcp[s].rx
         \/ tcp'[s].rx = tcp[s].rx /\ recvBuf'[s] = <<>>
  BY <1>1 DEF EthStep, EthMainTask, Socket
<1>3. /\ tcp[s].st = "synsent" => ~Has(tcp[s].up, a)
      /\ tcp[s].st = "estab" =>
           Accounted(tcp[s].down, tcp[s].rx, <<>>, tcp[s].up, broker[s].unacked, sent, a)
  BY <1>1 DEF AckInv
<1>4. \A x : ~Has(<<>>, x) /\ Once(<<>>, x)
  BY EmptyHas
<1> QED
  BY <1>1, <1>2, <1>3, <1>4 DEF Accounted, InOnePlace, Anywhere

\* The packet at the head of the buffer is answered, and the buffer flushed.
LEMMA RecvStepAcks ==
  ASSUME OneSlot, IInv, WholeInv, AckInv, RecvStep
  PROVE  AckInv'
<1>1. CASE RecvNothing
  BY <1>1 DEF RecvNothing, ethVars, AckInv
<1>2. ASSUME getRecvBuf(socket) # <<>>,
             NEW p \in Looks(Head(getRecvBuf(socket))),
             \/ RecvConnack(p) \/ RecvStatus(p) \/ RecvPublish(p)
             \/ RecvPubrel(p)  \/ RecvOther(p)
      PROVE  AckInv'
  <2>1. /\ socket \in Slots /\ recvBuf[socket] # <<>> /\ recvBuf[socket] \in Seq(Packet)
        /\ \A s \in Slots : s = socket
    BY <1>2 DEF getRecvBuf, IInv, TypeOK, EthTypeOK, OneSlot
  <2>2. tcp \in Sockets /\ socket \in Ids /\ tcp[socket].up \in Seq(Packet)
    BY <2>1 DEF IInv, TypeOK, EthTypeOK, Sockets, Ids, Socket
  <2>3. recvBuf'[socket] = <<>> /\ UNCHANGED <<broker, sent>>
    BY <1>2, <2>1 DEF RecvConnack, RecvStatus, RecvPublish, RecvPubrel, RecvOther, RecvDone,
                      flushRecvBuf, IInv, TypeOK, EthTypeOK
  <2>4. tcp[socket].st # "synsent"
    BY <2>1 DEF IInv, FreshIsClean
  <2>11. tcp'[socket].st = tcp[socket].st
    BY <1>2, <2>1, <2>2, RecvSends, SendKeeps DEF IInv
  <2> SUFFICES ASSUME NEW a \in Replies, tcp'[socket].st = "estab"
               PROVE  Accounted(tcp'[socket].down, tcp'[socket].rx, <<>>, tcp'[socket].up,
                                broker[socket].unacked, sent, a)
    BY <2>1, <2>3, <2>4, <2>11 DEF AckInv
  <2>5. \/ SendsNo(Replies, tcp, tcp')
        \/ \E y \in Packet :
             /\ tcp' = sendPacket(tcp, socket, y)
             /\ Head(recvBuf[socket]).type = "PUBLISH" /\ Head(recvBuf[socket]).qos \in 1..2
             /\ y = Ack(PublishAnswer[Head(recvBuf[socket]).qos], Head(recvBuf[socket]).id)
    <3>1. SendsNo(Replies, tcp, tcp)
      BY DEF SendsNo
    <3>2. \A y \in Packet : y \notin Answer \/ y = Ack("PUBCOMP", lastId) => y \notin Replies
      BY DEF Answer, Replies, Ack
    <3>3. Whole(Head(recvBuf[socket]))
      BY <2>1, <2>11 DEF WholeInv, Wholes
    <3> QED
      BY <1>2, <2>2, <3>1, <3>2, <3>3, RecvAnswers, SendsOther DEF IInv
  <2>6. \A x : ~Has(<<>>, x) /\ Once(<<>>, x)
    BY EmptyHas
  <2>7. CASE SendsNo(Replies, tcp, tcp')
    <3>1. /\ tcp'[socket].st = tcp[socket].st /\ tcp'[socket].rx = tcp[socket].rx
          /\ tcp'[socket].down = tcp[socket].down
          /\ Has(tcp'[socket].up, a) <=> Has(tcp[socket].up, a)
          /\ Once(tcp[socket].up, a) => Once(tcp'[socket].up, a)
      BY <2>1, <2>7 DEF SendsNo
    <3>2. Accounted(tcp[socket].down, tcp[socket].rx, recvBuf[socket], tcp[socket].up,
                    broker[socket].unacked, sent, a)
      BY <2>1, <3>1 DEF AckInv
    <3> QED
      BY <2>6, <3>1, <3>2 DEF Accounted, InOnePlace, Anywhere
  <2>8. ASSUME NEW y \in Packet, tcp' = sendPacket(tcp, socket, y),
               Head(recvBuf[socket]).type = "PUBLISH", Head(recvBuf[socket]).qos \in 1..2,
               y = Ack(PublishAnswer[Head(recvBuf[socket]).qos], Head(recvBuf[socket]).id)
        PROVE  Accounted(tcp'[socket].down, tcp'[socket].rx, <<>>, tcp'[socket].up,
                         broker[socket].unacked, sent, a)
    <3> DEFINE m == Head(recvBuf[socket])
    <3>1. m \in Packet /\ Has(recvBuf[socket], m)
      <4>1. m \in Packet
        BY <2>1
      <4>2. m = recvBuf[socket][1] /\ 1 \in 1..Len(recvBuf[socket])
        BY <2>1
      <4> QED
        BY <4>1, <4>2 DEF Has
    <3>2. y \in Replies /\ y.qos = 0 /\ Asked(y) = m
      BY <2>8, <3>1, AnswerIs
    <3>3. /\ tcp'[socket].st = tcp[socket].st /\ tcp'[socket].rx = tcp[socket].rx
          /\ tcp'[socket].down = tcp[socket].down
      BY <2>1, <2>2, <2>8, SendKeeps
    <3>4. tcp'[socket].up = tcp[socket].up \/ tcp'[socket].up = Append(tcp[socket].up, y)
      BY <2>1, <2>2, <2>8 DEF sendPacket, Sockets, Socket
    <3>5. Accounted(tcp[socket].down, tcp[socket].rx, recvBuf[socket], tcp[socket].up,
                    broker[socket].unacked, sent, a)
      BY <2>1, <3>3 DEF AckInv
    <3>6. CASE tcp'[socket].up = tcp[socket].up
      BY <2>6, <3>3, <3>5, <3>6 DEF Accounted, InOnePlace, Anywhere
    <3>7. CASE tcp'[socket].up = Append(tcp[socket].up, y)
      <4>1. /\ Has(tcp'[socket].up, a) <=> Has(tcp[socket].up, a) \/ y = a
            /\ Once(tcp[socket].up, a) /\ ~(Has(tcp[socket].up, a) /\ y = a)
                 => Once(tcp'[socket].up, a)
        BY <2>2, <3>7, AppendHas
      <4>2. CASE y # a
        BY <2>6, <3>3, <3>5, <4>1, <4>2 DEF Accounted, InOnePlace, Anywhere
      <4>3. CASE y = a
        <5>1. a.qos = 0 /\ Has(recvBuf[socket], Asked(a))
          BY <3>1, <3>2, <4>3
        <5> QED
          BY <2>6, <3>3, <3>5, <4>1, <4>3, <5>1 DEF Accounted, InOnePlace, Anywhere
      <4> QED
        BY <4>2, <4>3
    <3> QED
      BY <3>4, <3>6, <3>7
  <2> QED
    BY <2>5, <2>7, <2>8
<1> QED
  BY <1>1, <1>2 DEF RecvStep

-----------------------------------------------------------------------------
(* The acknowledgements, outside the loop.                                 *)

\* A step outside the program changes one slot.
LEMMA SlotAcks ==
  ASSUME AckInv, NEW s \in Slots, UNCHANGED recvBuf, sent \subseteq sent',
         \A n \in Slots \ {s} : tcp'[n] = tcp[n] /\ broker'[n] = broker[n],
         tcp'[s].st # "synsent",
         \A a \in Replies : tcp'[s].st = "estab" =>
           Accounted(tcp'[s].down, tcp'[s].rx, recvBuf[s], tcp'[s].up,
                     broker'[s].unacked, sent', a)
  PROVE  AckInv'
<1> SUFFICES ASSUME NEW n \in Slots, NEW a \in Replies, n # s
             PROVE  /\ tcp'[n].st = "synsent" => ~Has(tcp'[n].up, a)
                    /\ tcp'[n].st = "estab" =>
                         Accounted(tcp'[n].down, tcp'[n].rx, recvBuf'[n], tcp'[n].up,
                                   broker'[n].unacked, sent', a)
  BY DEF AckInv
<1>1. tcp'[n] = tcp[n] /\ broker'[n] = broker[n]
  OBVIOUS
<1>2. /\ tcp[n].st = "synsent" => ~Has(tcp[n].up, a)
      /\ tcp[n].st = "estab" =>
           Accounted(tcp[n].down, tcp[n].rx, recvBuf[n], tcp[n].up,
                     broker[n].unacked, sent, a)
  BY DEF AckInv
<1> QED
  BY <1>1, <1>2 DEF Accounted

LEMMA NetAcks ==
  ASSUME ~Split, IInv, AckInv, NEW s \in Slots,
         NetConnect(s) \/ NetRecv(s) \/ NetEnd(s) \/ NetReset(s)
  PROVE  AckInv'
<1>1. /\ tcp \in [Slots -> Socket] /\ broker \in [Slots -> BrokerEnd]
      /\ tcp[s] \in Socket
      /\ tcp[s].down \in Seq(Packet) /\ tcp[s].rx \in Seq(Packet)
  BY DEF IInv, TypeOK, EthTypeOK, Socket
<1>2. UNCHANGED <<recvBuf, sent>>
  BY DEF NetConnect, NetRecv, NetEnd, NetReset, LibConnect, LibRecv, LibRecvPart,
         LibRecvRest, LibFin, LibClosed, LibReset
<1>3. CASE NetConnect(s)
  <2>1. /\ tcp[s].st = "synsent"
        /\ tcp' = [tcp EXCEPT ![s] = [tcp[s] EXCEPT !.flags = @ \cup {"CONNECT"},
                                                   !.st = "estab"]]
        /\ broker' = [broker EXCEPT ![s] = NewBrokerEnd]
    BY <1>1, <1>3 DEF NetConnect, LibConnect, Raise
  <2>2. /\ tcp[s].rx = <<>> /\ tcp[s].down = <<>> /\ recvBuf[s] = <<>>
        /\ \A a \in Replies : ~Has(tcp[s].up, a)
    BY <2>1 DEF IInv, FreshIsClean, AckInv
  <2>3. /\ tcp'[s].st = "estab" /\ tcp'[s].rx = <<>> /\ tcp'[s].down = <<>>
        /\ tcp'[s].up = tcp[s].up /\ broker'[s].unacked = {}
        /\ \A n \in Slots \ {s} : tcp'[n] = tcp[n] /\ broker'[n] = broker[n]
    BY <1>1, <2>1, <2>2 DEF Socket, NewBrokerEnd
  <2>4. ASSUME NEW a \in Replies
        PROVE  Accounted(<<>>, <<>>, <<>>, tcp[s].up, {}, sent, a)
    <3>1. ~Has(tcp[s].up, a) /\ Once(tcp[s].up, a)
      BY <2>2 DEF Has, Once
    <3> QED
      BY <3>1, EmptyHas DEF Accounted, InOnePlace, Anywhere
  <2> QED
    BY <1>2, <2>2, <2>3, <2>4, SlotAcks
<1>4. CASE NetRecv(s)
  <2>1. tcp[s].st = "estab" /\ tcp[s].down # <<>> /\ UNCHANGED broker
    BY <1>4, NetRecvWhole DEF IInv
  <2>2. /\ tcp'[s].st = "estab" /\ tcp'[s].up = tcp[s].up
        /\ tcp'[s].rx = Append(tcp[s].rx, Head(tcp[s].down))
        /\ tcp'[s].down = Tail(tcp[s].down)
        /\ \A n \in Slots \ {s} : tcp'[n] = tcp[n]
    BY <1>4, NetRecvWhole DEF IInv
  <2>3. ASSUME NEW a \in Replies
        PROVE  Accounted(tcp'[s].down, tcp'[s].rx, recvBuf[s], tcp'[s].up,
                         broker[s].unacked, sent, a)
    <3> DEFINE m == Asked(a)
    <3>1. Head(tcp[s].down) \in Packet
      BY <1>1, <2>1
    <3>2. /\ Has(tcp'[s].rx, m) <=> Has(tcp[s].rx, m) \/ Head(tcp[s].down) = m
          /\ Once(tcp[s].rx, m) /\ ~(Has(tcp[s].rx, m) /\ Head(tcp[s].down) = m)
               => Once(tcp'[s].rx, m)
      BY <1>1, <2>2, <3>1, AppendHas
    <3>3. /\ Head(tcp[s].down) = m => Has(tcp[s].down, m)
          /\ Has(tcp'[s].down, m) => Has(tcp[s].down, m)
          /\ Once(tcp[s].down, m) =>
               Once(tcp'[s].down, m) /\ ~(Head(tcp[s].down) = m /\ Has(tcp'[s].down, m))
      <4> HIDE DEF m
      <4> QED
        BY <1>1, <2>1, <2>2, TailHas
    <3>4. Accounted(tcp[s].down, tcp[s].rx, recvBuf[s], tcp[s].up, broker[s].unacked, sent, a)
      BY <2>1 DEF AckInv
    <3> HIDE DEF m
    <3>5. /\ Has(tcp[s].up, a) => a.qos = 0
          /\ a.qos = 0 => /\ InOnePlace(tcp[s].down, tcp[s].rx, recvBuf[s], tcp[s].up, m, a)
                          /\ Anywhere(tcp[s].down, tcp[s].rx, recvBuf[s], tcp[s].up, m, a)
                             => a \in broker[s].unacked
          /\ a \in broker[s].unacked => a.id \in sent
      BY <3>4 DEF Accounted, m
    <3>6. a.qos = 0 =>
            InOnePlace(tcp'[s].down, tcp'[s].rx, recvBuf[s], tcp[s].up, m, a)
      BY <3>2, <3>3, <3>5 DEF InOnePlace
    <3>7. a.qos = 0 =>
            (Anywhere(tcp'[s].down, tcp'[s].rx, recvBuf[s], tcp[s].up, m, a)
             => a \in broker[s].unacked)
      BY <3>2, <3>3, <3>5 DEF Anywhere
    <3> QED
      BY <2>2, <3>5, <3>6, <3>7 DEF Accounted, m
  <2> QED
    BY <1>2, <2>1, <2>2, <2>3, SlotAcks
<1>5. CASE NetEnd(s) \/ NetReset(s)
  <2>1. UNCHANGED broker /\ \E f \in SocketInt : Lost(s, f)
    BY <1>5 DEF NetEnd, NetReset, LibFin, LibClosed, LibReset, SocketInt
  <2>2. tcp'[s].st = "free" /\ \A n \in Slots \ {s} : tcp'[n] = tcp[n]
    BY <1>1, <2>1 DEF Lost, NewSocket
  <2> QED
    BY <1>2, <2>1, <2>2, SlotAcks
<1> QED
  BY <1>3, <1>4, <1>5

\* What the broker answers is one packet or none, no PUBLISH, and a PUBREL to a
\* PUBREC alone.
LEMMA BrokerAnswers ==
  ASSUME NEW p \in Packet
  PROVE  \/ BrokerAnswer(p) = <<>>
         \/ \E y \in Packet : /\ BrokerAnswer(p) = <<y>> /\ y.type \notin {"PUBLISH", "FRAGMENT"}
                              /\ y.type = "PUBREL" => p.type = "PUBREC" /\ y = Ack("PUBREL", p.id)
<1>1. \A type \in {"SUBACK", "UNSUBACK", "PINGRESP"} :
        Plain(type) \in Packet /\ Plain(type).type \notin {"PUBLISH", "PUBREL", "FRAGMENT"}
  BY PacketTypes DEF Types, Plain
<1>2. \A type \in {"PUBREL", "PUBACK", "PUBREC"} :
        Ack(type, p.id) \in Packet /\ Ack(type, p.id).type = type
  BY PacketTypes DEF Types, AckTypes, Ack, Packet
<1> QED
  BY <1>1, <1>2 DEF BrokerAnswer

\* What the broker makes of a packet p that it does not close at.
Reads(s, p) ==
  /\ tcp'[s].st = "estab" /\ tcp'[s].up = Tail(tcp[s].up) /\ tcp'[s].rx = tcp[s].rx
  /\ \A n \in Slots \ {s} : tcp'[n] = tcp[n] /\ broker'[n] = broker[n]
  /\ \/ tcp'[s].down = tcp[s].down
     \/ \E y \in Packet : /\ tcp'[s].down = Append(tcp[s].down, y)
                          /\ y.type \notin {"PUBLISH", "FRAGMENT"}
                          /\ y.type = "PUBREL" => p.type = "PUBREC" /\ y = Ack("PUBREL", p.id)
  /\ broker'[s].unacked = broker[s].unacked \ {p} \/
       (p.type = "CONNECT" /\ broker'[s].unacked = broker[s].unacked)
  /\ broker'[s].released =
       IF p.type = "PUBREC" THEN broker[s].released \cup ({p.id} \cap MsgIds)
       ELSE IF p.type = "PUBCOMP" THEN broker[s].released \ {p.id} ELSE broker[s].released
  /\ broker'[s].alone = broker[s].alone

LEMMA BrokerReadsOne ==
  ASSUME IInv, NEW s \in Slots, BrokerRecv(s), NEW p, p = Head(tcp[s].up), ~BrokerCloses(s)
  PROVE  Reads(s, p)
<1>1. /\ tcp \in [Slots -> Socket] /\ broker \in [Slots -> BrokerEnd]
      /\ tcp[s] \in Socket /\ broker[s] \in BrokerEnd
      /\ tcp[s].down \in Seq(Packet) /\ tcp[s].up \in Seq(Packet) /\ tcp[s].up # <<>>
      /\ tcp[s].st = "estab" /\ BrokerReads(s, p)
  BY DEF IInv, TypeOK, EthTypeOK, Socket, BrokerRecv, Live
<1>2. p \in Packet
  BY <1>1
<1>3. /\ tcp'[s].st = "estab" /\ tcp'[s].up = Tail(tcp[s].up) /\ tcp'[s].rx = tcp[s].rx
      /\ \A n \in Slots \ {s} : tcp'[n] = tcp[n] /\ broker'[n] = broker[n]
  BY <1>1 DEF BrokerReads, Socket
<1>4. CASE p.type = "CONNECT" /\ ~broker[s].session
  <2>1. /\ broker'[s].unacked = broker[s].unacked
        /\ broker'[s].released = broker[s].released
        /\ broker'[s].alone = broker[s].alone
        /\ tcp'[s].down = Append(tcp[s].down, Plain("CONNACK"))
    BY <1>1, <1>4 DEF BrokerReads, BrokerEnd, Socket
  <2>2. Plain("CONNACK") \in Packet /\ Plain("CONNACK").type = "CONNACK"
    BY PacketTypes DEF Types, Plain
  <2> QED
    BY <1>3, <1>4, <2>1, <2>2 DEF Reads
<1>5. CASE ~(p.type = "CONNECT" /\ ~broker[s].session)
  <2> DEFINE released == CASE p.type = "PUBREC"  -> broker[s].released \cup ({p.id} \cap MsgIds)
                           [] p.type = "PUBCOMP" -> broker[s].released \ {p.id}
                           [] OTHER              -> broker[s].released
  <2>1. released =
          IF p.type = "PUBREC" THEN broker[s].released \cup ({p.id} \cap MsgIds)
          ELSE IF p.type = "PUBCOMP" THEN broker[s].released \ {p.id} ELSE broker[s].released
    OBVIOUS
  <2>2. broker' = [broker EXCEPT ![s] = [broker[s] EXCEPT
                     !.unacked = @ \ {p}, !.released = released]]
    BY <1>1, <1>5 DEF BrokerReads, BrokerEnd
  <2>3. tcp'[s].down = tcp[s].down \o BrokerAnswer(p)
    BY <1>1, <1>5 DEF BrokerReads, Socket
  <2> HIDE DEF released
  <2>4. /\ broker'[s].unacked = broker[s].unacked \ {p} /\ broker'[s].released = released
        /\ broker'[s].alone = broker[s].alone
    BY <1>1, <2>2 DEF BrokerEnd
  <2>5. \A y \in Packet : tcp[s].down \o <<y>> = Append(tcp[s].down, y)
    BY <1>1
  <2>6. tcp[s].down \o <<>> = tcp[s].down
    BY <1>1
  <2>7. \/ tcp'[s].down = tcp[s].down
        \/ \E y \in Packet :
             /\ tcp'[s].down = Append(tcp[s].down, y)
             /\ y.type \notin {"PUBLISH", "FRAGMENT"}
             /\ y.type = "PUBREL" => p.type = "PUBREC" /\ y = Ack("PUBREL", p.id)
    <3>1. \/ BrokerAnswer(p) = <<>>
          \/ \E y \in Packet :
               /\ BrokerAnswer(p) = <<y>> /\ y.type \notin {"PUBLISH", "FRAGMENT"}
               /\ y.type = "PUBREL" => p.type = "PUBREC" /\ y = Ack("PUBREL", p.id)
      BY <1>2, BrokerAnswers
    <3> QED
      BY <2>3, <2>5, <2>6, <3>1
  <2> QED
    BY <1>3, <2>1, <2>4, <2>7 DEF Reads
<1> QED
  BY <1>4, <1>5

\* A broker that closes drops the acknowledgements it has not read.
LEMMA ClosesAcks ==
  ASSUME IInv, AckInv, NEW s \in Slots, tcp[s].st = "estab",
         BrokerCloses(s), UNCHANGED <<recvBuf, sent>>
  PROVE  AckInv'
<1>1. /\ tcp \in [Slots -> Socket] /\ broker \in [Slots -> BrokerEnd]
      /\ tcp[s] \in Socket /\ broker[s] \in BrokerEnd
  BY DEF IInv, TypeOK, EthTypeOK
<1>2. /\ tcp'[s].st = "estab" /\ tcp'[s].up = <<>> /\ tcp'[s].down = tcp[s].down
      /\ tcp'[s].rx = tcp[s].rx /\ broker'[s].unacked = broker[s].unacked
      /\ \A n \in Slots \ {s} : tcp'[n] = tcp[n] /\ broker'[n] = broker[n]
  BY <1>1 DEF BrokerCloses, Socket, BrokerEnd
<1>3. ASSUME NEW a \in Replies
      PROVE  Accounted(tcp[s].down, tcp[s].rx, recvBuf[s], <<>>, broker[s].unacked, sent, a)
  <2>1. Accounted(tcp[s].down, tcp[s].rx, recvBuf[s], tcp[s].up, broker[s].unacked, sent, a)
    BY DEF AckInv
  <2> QED
    BY <2>1, EmptyHas DEF Accounted, InOnePlace, Anywhere
<1> QED
  BY <1>2, <1>3, SlotAcks

\* The broker reads an acknowledgement, which is then nowhere.
LEMMA BrokerReadsAcks ==
  ASSUME IInv, AckInv, NEW s \in Slots, BrokerRecv(s)
  PROVE  AckInv'
<1> DEFINE p == Head(tcp[s].up)
<1>1. /\ tcp \in [Slots -> Socket] /\ broker \in [Slots -> BrokerEnd]
      /\ tcp[s] \in Socket /\ broker[s] \in BrokerEnd
      /\ tcp[s].down \in Seq(Packet) /\ tcp[s].up \in Seq(Packet) /\ tcp[s].up # <<>>
      /\ tcp[s].st = "estab"
      /\ UNCHANGED <<recvBuf, sent>> /\ BrokerReads(s, p)
  BY DEF IInv, TypeOK, EthTypeOK, Socket, BrokerRecv, Live, Unseen
<1>2. p \in Packet
  BY <1>1
<1>3. CASE BrokerCloses(s)
  BY <1>1, <1>3, ClosesAcks
<1>4. CASE ~BrokerCloses(s)
  <2>1. Reads(s, p)
    BY <1>4, BrokerReadsOne
  <2>2. /\ tcp'[s].st = "estab" /\ tcp'[s].up = Tail(tcp[s].up) /\ tcp'[s].rx = tcp[s].rx
        /\ \A n \in Slots \ {s} : tcp'[n] = tcp[n] /\ broker'[n] = broker[n]
        /\ \/ tcp'[s].down = tcp[s].down
           \/ \E y \in Packet : y.type # "PUBLISH" /\ tcp'[s].down = Append(tcp[s].down, y)
    BY <2>1 DEF Reads
  <2>3. \/ p.type = "CONNECT" /\ broker'[s].unacked = broker[s].unacked
        \/ broker'[s].unacked = broker[s].unacked \ {p}
    BY <2>1 DEF Reads
  <2>4. ASSUME NEW a \in Replies
        PROVE  Accounted(tcp'[s].down, tcp'[s].rx, recvBuf[s], tcp'[s].up,
                         broker'[s].unacked, sent, a)
    <3> DEFINE m == Asked(a)
    <3>1. /\ Has(tcp[s].up, a) <=> p = a \/ Has(tcp'[s].up, a)
          /\ Once(tcp[s].up, a) => Once(tcp'[s].up, a) /\ ~(p = a /\ Has(tcp'[s].up, a))
      BY <1>1, <2>2, TailHas
    <3>2. /\ Has(tcp'[s].down, m) <=> Has(tcp[s].down, m)
          /\ Once(tcp[s].down, m) => Once(tcp'[s].down, m)
      <4>1. CASE tcp'[s].down = tcp[s].down
        BY <4>1
      <4>2. ASSUME NEW y \in Packet, y.type # "PUBLISH", tcp'[s].down = Append(tcp[s].down, y)
            PROVE  /\ Has(tcp'[s].down, m) <=> Has(tcp[s].down, m)
                   /\ Once(tcp[s].down, m) => Once(tcp'[s].down, m)
        <5>1. y # m
          BY <4>2, AskedIs
        <5> QED
          BY <1>1, <4>2, <5>1, AppendHas
      <4> QED
        BY <2>2, <4>1, <4>2
    <3>3. p = a \/ (a \in broker'[s].unacked <=> a \in broker[s].unacked)
      BY <2>3
    <3>4. a \in broker'[s].unacked => a \in broker[s].unacked
      BY <2>3
    <3>5. Accounted(tcp[s].down, tcp[s].rx, recvBuf[s], tcp[s].up, broker[s].unacked, sent, a)
      BY <1>1 DEF AckInv
    <3> HIDE DEF m
    <3>6. /\ Has(tcp[s].up, a) => a.qos = 0
          /\ a.qos = 0 => /\ InOnePlace(tcp[s].down, tcp[s].rx, recvBuf[s], tcp[s].up, m, a)
                          /\ Anywhere(tcp[s].down, tcp[s].rx, recvBuf[s], tcp[s].up, m, a)
                             => a \in broker[s].unacked
          /\ a \in broker[s].unacked => a.id \in sent
      BY <3>5 DEF Accounted, m
    <3>7. a.qos = 0 =>
            InOnePlace(tcp'[s].down, tcp[s].rx, recvBuf[s], tcp'[s].up, m, a)
      BY <3>1, <3>2, <3>6 DEF InOnePlace
    <3>8. a.qos = 0 =>
            (Anywhere(tcp'[s].down, tcp[s].rx, recvBuf[s], tcp'[s].up, m, a)
             => a \in broker'[s].unacked)
      BY <3>1, <3>2, <3>3, <3>6 DEF Anywhere, InOnePlace
    <3> QED
      BY <2>2, <3>1, <3>4, <3>6, <3>7, <3>8 DEF Accounted, m
  <2> QED
    BY <1>1, <2>2, <2>4, SlotAcks
<1> QED
  BY <1>3, <1>4

\* A message that has not been sent is nowhere, and nowhere answered.
LEMMA BrokerPublishAcks ==
  ASSUME IInv, AckInv, NEW s \in Slots, BrokerPublish(s)
  PROVE  AckInv'
<1>1. PICK id \in MsgIds \ sent, q \in Qos :
        /\ sent' = sent \cup {id}
        /\ tcp' = [tcp EXCEPT ![s].down = Append(@, Publish(q, id))]
        /\ broker' = [broker EXCEPT
             ![s].unacked = IF q = 0 THEN @ ELSE @ \cup {Ack(PublishAnswer[q], id)},
             ![s].alone = @ /\ Alone(broker[s], q)]
  BY DEF BrokerPublish
<1> DEFINE y == Publish(q, id)
<1>2. /\ tcp \in [Slots -> Socket] /\ broker \in [Slots -> BrokerEnd]
      /\ tcp[s] \in Socket /\ broker[s] \in BrokerEnd /\ tcp[s].down \in Seq(Packet)
      /\ tcp[s].st = "estab" /\ UNCHANGED recvBuf
  BY DEF IInv, TypeOK, EthTypeOK, Socket, BrokerPublish, Live, Unseen
<1>3. y \in Packet /\ y.type = "PUBLISH" /\ y.qos = q /\ y.id = id /\ q \in 0..2
  BY PacketTypes, ClientAssumption DEF Publish
<1>4. /\ tcp'[s].st = "estab" /\ tcp'[s].up = tcp[s].up /\ tcp'[s].rx = tcp[s].rx
      /\ tcp'[s].down = Append(tcp[s].down, y)
      /\ \A n \in Slots \ {s} : tcp'[n] = tcp[n] /\ broker'[n] = broker[n]
  BY <1>1, <1>2 DEF Socket
<1>5. broker'[s].unacked = IF q = 0 THEN broker[s].unacked
                           ELSE broker[s].unacked \cup {Ack(PublishAnswer[q], id)}
  BY <1>1, <1>2 DEF BrokerEnd
<1> HIDE DEF y
<1>6. ASSUME NEW a \in Replies
      PROVE  Accounted(tcp'[s].down, tcp'[s].rx, recvBuf[s], tcp'[s].up,
                       broker'[s].unacked, sent', a)
  <2> DEFINE m == Asked(a)
  <2>1. /\ Has(tcp'[s].down, m) <=> Has(tcp[s].down, m) \/ y = m
        /\ Once(tcp[s].down, m) /\ ~(Has(tcp[s].down, m) /\ y = m) => Once(tcp'[s].down, m)
    BY <1>2, <1>3, <1>4, AppendHas
  <2>2. a.qos = 0 /\ y = m => a.id \notin sent /\ a \in broker'[s].unacked
    <3> SUFFICES ASSUME a.qos = 0, y = m
                 PROVE  a.id \notin sent /\ a \in broker'[s].unacked
      OBVIOUS
    <3>1. a.id = id /\ q \in 1..2 /\ a = Ack(PublishAnswer[q], id)
      BY <1>3, AskedIs
    <3> QED
      BY <1>5, <3>1
  <2>3. a \in broker[s].unacked => a \in broker'[s].unacked
    BY <1>5
  <2>4. a \in broker'[s].unacked => a \in broker[s].unacked \/ a.id = id
    BY <1>5 DEF Ack
  <2>5. Accounted(tcp[s].down, tcp[s].rx, recvBuf[s], tcp[s].up, broker[s].unacked, sent, a)
    BY <1>2 DEF AckInv
  <2> HIDE DEF m
  <2>6. /\ Has(tcp[s].up, a) => a.qos = 0
        /\ a.qos = 0 => /\ InOnePlace(tcp[s].down, tcp[s].rx, recvBuf[s], tcp[s].up, m, a)
                        /\ Anywhere(tcp[s].down, tcp[s].rx, recvBuf[s], tcp[s].up, m, a)
                           => a \in broker[s].unacked
        /\ a \in broker[s].unacked => a.id \in sent
    BY <2>5 DEF Accounted, m
  <2>7. a.qos = 0 =>
          InOnePlace(tcp'[s].down, tcp[s].rx, recvBuf[s], tcp[s].up, m, a)
    BY <2>1, <2>2, <2>6 DEF InOnePlace, Anywhere
  <2>8. a.qos = 0 =>
          (Anywhere(tcp'[s].down, tcp[s].rx, recvBuf[s], tcp[s].up, m, a)
           => a \in broker'[s].unacked)
    BY <2>1, <2>2, <2>3, <2>6 DEF Anywhere
  <2> QED
    BY <1>1, <1>4, <2>4, <2>6, <2>7, <2>8 DEF Accounted, m
<1>7. sent \subseteq sent'
  BY <1>1
<1> QED
  BY <1>2, <1>4, <1>6, <1>7, SlotAcks

LEMMA BrokerCloseAcks ==
  ASSUME IInv, AckInv, NEW s \in Slots, BrokerClose(s)
  PROVE  AckInv'
<1>1. /\ tcp \in [Slots -> Socket] /\ broker \in [Slots -> BrokerEnd]
      /\ tcp[s] \in Socket /\ broker[s] \in BrokerEnd /\ tcp[s].st = "estab"
      /\ UNCHANGED <<recvBuf, sent>> /\ BrokerCloses(s)
  BY DEF IInv, TypeOK, EthTypeOK, BrokerClose, Live, Unseen
<1> QED
  BY <1>1, ClosesAcks

\* So does one that refuses the CONNECT.
LEMMA BrokerRefusesAcks ==
  ASSUME IInv, AckInv, NEW s \in Slots, BrokerRefuses(s)
  PROVE  AckInv'
<1>1. /\ tcp \in [Slots -> Socket] /\ broker \in [Slots -> BrokerEnd]
      /\ tcp[s] \in Socket /\ broker[s] \in BrokerEnd /\ tcp[s].down \in Seq(Packet)
      /\ tcp[s].st = "estab" /\ UNCHANGED <<recvBuf, sent>>
  BY DEF IInv, TypeOK, EthTypeOK, Socket, BrokerRefuses, Live, Unseen
<1>2. /\ tcp'[s].st = "estab" /\ tcp'[s].up = <<>> /\ tcp'[s].rx = tcp[s].rx
      /\ tcp'[s].down = Append(tcp[s].down, Plain("CONNACK"))
      /\ broker'[s].unacked = broker[s].unacked
      /\ \A n \in Slots \ {s} : tcp'[n] = tcp[n] /\ broker'[n] = broker[n]
  BY <1>1, RefusesKeeps DEF IInv
<1>3. Plain("CONNACK") \in Packet /\ Plain("CONNACK").type = "CONNACK"
  BY PacketTypes DEF Types, Plain
<1>4. ASSUME NEW a \in Replies
      PROVE  Accounted(tcp'[s].down, tcp[s].rx, recvBuf[s], <<>>, broker[s].unacked, sent, a)
  <2>1. Accounted(tcp[s].down, tcp[s].rx, recvBuf[s], tcp[s].up, broker[s].unacked, sent, a)
    BY <1>1 DEF AckInv
  <2>2. Asked(a) # Plain("CONNACK")
    BY <1>3, AskedIs
  <2>3. /\ Has(tcp'[s].down, Asked(a)) <=> Has(tcp[s].down, Asked(a))
        /\ Once(tcp[s].down, Asked(a)) => Once(tcp'[s].down, Asked(a))
    BY <1>1, <1>2, <1>3, <2>2, AppendHas
  <2> QED
    BY <2>1, <2>3, EmptyHas DEF Accounted, InOnePlace, Anywhere
<1> QED
  BY <1>1, <1>2, <1>4, SlotAcks

-----------------------------------------------------------------------------
(* The packets are whole.                                                  *)

LEMMA WholesOf ==
  ASSUME NEW q \in Seq(Packet), Wholes(q)
  PROVE  /\ q # <<>> => Whole(Head(q)) /\ Wholes(Tail(q))
         /\ \A y \in Packet : Whole(y) => Wholes(Append(q, y))
<1>1. ASSUME q # <<>> PROVE Whole(Head(q)) /\ Wholes(Tail(q))
  <2>1. /\ Head(q) = q[1] /\ 1 \in 1..Len(q) /\ Len(Tail(q)) = Len(q) - 1
        /\ \A i \in 1..(Len(q) - 1) : Tail(q)[i] = q[i + 1] /\ i + 1 \in 1..Len(q)
    BY <1>1
  <2> QED
    BY <2>1 DEF Wholes
<1>2. ASSUME NEW y \in Packet, Whole(y) PROVE Wholes(Append(q, y))
  <2>1. /\ Len(Append(q, y)) = Len(q) + 1
        /\ \A i \in 1..(Len(q) + 1) :
             Append(q, y)[i] = y \/ (i \in 1..Len(q) /\ Append(q, y)[i] = q[i])
    OBVIOUS
  <2> QED
    BY <1>2, <2>1 DEF Wholes
<1> QED
  BY <1>1, <1>2

\* A step outside the program changes one slot.
LEMMA SlotWhole ==
  ASSUME WholeInv, NEW s \in Slots, UNCHANGED recvBuf,
         \A n \in Slots \ {s} : tcp'[n] = tcp[n],
         tcp'[s].st = "estab" =>
           Wholes(tcp'[s].down) /\ Wholes(tcp'[s].rx) /\ Wholes(recvBuf[s])
  PROVE  WholeInv'
BY DEF WholeInv

LEMMA LoopWhole ==
  ASSUME WholeInv, \A n \in Slots : NoAnswer(tcp[n], tcp'[n]), UNCHANGED recvBuf
  PROVE  WholeInv'
<1> SUFFICES ASSUME NEW s \in Slots, tcp'[s].st = "estab"
             PROVE  Wholes(tcp'[s].down) /\ Wholes(tcp'[s].rx) /\ Wholes(recvBuf[s])
  BY DEF WholeInv
<1> QED
  BY DEF WholeInv, NoAnswer

LEMMA InitWhole == Init => WholeInv
<1> SUFFICES ASSUME Init PROVE WholeInv
  OBVIOUS
<1> DEFINE none == [s \in Slots |-> NewSocket("free")]
<1>1. none \in Sockets /\ NoSocket \in Ids
  BY NewSocketType DEF Sockets, PcbState, Ids
<1>2. \/ tcp = none /\ socket = NoSocket
      \/ \E n \in Slots, st \in {"synsent", "idle"} :
           tcp = [none EXCEPT ![n] = NewSocket(st)] /\ socket = n
  BY <1>1, CreateCases DEF Init
<1>3. \A s \in Slots : tcp[s].st # "estab"
  BY <1>2 DEF NewSocket
<1> QED
  BY <1>3 DEF WholeInv

LEMMA EthStepWhole ==
  ASSUME IInv, WholeInv, NEW ticks \in 0..MaxTurn, EthStep(ticks)
  PROVE  WholeInv'
<1> SUFFICES ASSUME NEW s \in Slots, tcp'[s].st = "estab"
             PROVE  Wholes(tcp'[s].down) /\ Wholes(tcp'[s].rx) /\ Wholes(recvBuf'[s])
  BY DEF WholeInv
<1>1. tcp[s] \in Socket
  BY DEF IInv, TypeOK, EthTypeOK
<1>2. /\ tcp'[s].st = tcp[s].st /\ tcp'[s].down = tcp[s].down
      /\ tcp'[s].rx \in {<<>>, tcp[s].rx} /\ recvBuf'[s] \in {tcp[s].rx, recvBuf[s]}
  BY <1>1 DEF EthStep, EthMainTask, Socket
<1>3. Wholes(tcp[s].down) /\ Wholes(tcp[s].rx) /\ Wholes(recvBuf[s]) /\ Wholes(<<>>)
  BY <1>2 DEF WholeInv, Wholes
<1> QED
  BY <1>2, <1>3

LEMMA RecvStepWhole ==
  ASSUME OneSlot, IInv, WholeInv, RecvStep
  PROVE  WholeInv'
<1>1. CASE RecvNothing
  BY <1>1 DEF RecvNothing, ethVars, WholeInv
<1>2. ASSUME getRecvBuf(socket) # <<>>,
             NEW p \in Looks(Head(getRecvBuf(socket))),
             \/ RecvConnack(p) \/ RecvStatus(p) \/ RecvPublish(p)
             \/ RecvPubrel(p)  \/ RecvOther(p)
      PROVE  WholeInv'
  <2>1. /\ socket \in Slots /\ \A s \in Slots : s = socket
        /\ tcp \in Sockets /\ socket \in Ids
    BY <1>2, LooksType DEF IInv, TypeOK, EthTypeOK, OneSlot, Sockets, Ids
  <2>2. recvBuf'[socket] = <<>>
    BY <1>2, <2>1 DEF RecvConnack, RecvStatus, RecvPublish, RecvPubrel, RecvOther, RecvDone,
                      flushRecvBuf, IInv, TypeOK, EthTypeOK
  <2>3. /\ tcp'[socket].st = tcp[socket].st /\ tcp'[socket].rx = tcp[socket].rx
        /\ tcp'[socket].down = tcp[socket].down
    BY <1>2, <2>1, RecvSends, SendKeeps DEF IInv
  <2> QED
    BY <2>1, <2>2, <2>3 DEF WholeInv, Wholes
<1> QED
  BY <1>1, <1>2 DEF RecvStep

LEMMA NetWhole ==
  ASSUME ~Split, IInv, WholeInv, NEW s \in Slots,
         NetConnect(s) \/ NetRecv(s) \/ NetEnd(s) \/ NetReset(s)
  PROVE  WholeInv'
<1>1. /\ tcp \in [Slots -> Socket] /\ tcp[s] \in Socket
      /\ tcp[s].down \in Seq(Packet) /\ tcp[s].rx \in Seq(Packet)
  BY DEF IInv, TypeOK, EthTypeOK, Socket
<1>2. UNCHANGED recvBuf
  BY DEF NetConnect, NetRecv, NetEnd, NetReset, LibConnect, LibRecv, LibRecvPart,
         LibRecvRest, LibFin, LibClosed, LibReset
<1>3. CASE NetConnect(s)
  <2>1. /\ tcp[s].st = "synsent"
        /\ tcp' = [tcp EXCEPT ![s] = [tcp[s] EXCEPT !.flags = @ \cup {"CONNECT"},
                                                   !.st = "estab"]]
    BY <1>1, <1>3 DEF NetConnect, LibConnect, Raise
  <2>2. tcp[s].rx = <<>> /\ tcp[s].down = <<>> /\ recvBuf[s] = <<>>
    BY <2>1 DEF IInv, FreshIsClean
  <2>3. /\ tcp'[s].rx = <<>> /\ tcp'[s].down = <<>>
        /\ \A n \in Slots \ {s} : tcp'[n] = tcp[n]
    BY <1>1, <2>1, <2>2 DEF Socket
  <2> QED
    BY <1>2, <2>2, <2>3, SlotWhole DEF Wholes
<1>4. CASE NetRecv(s)
  <2>1. /\ tcp[s].st = "estab" /\ tcp[s].down # <<>>
        /\ tcp'[s].rx = Append(tcp[s].rx, Head(tcp[s].down))
        /\ tcp'[s].down = Tail(tcp[s].down)
        /\ \A n \in Slots \ {s} : tcp'[n] = tcp[n]
    BY <1>4, NetRecvWhole DEF IInv
  <2>2. Wholes(tcp[s].down) /\ Wholes(tcp[s].rx) /\ Wholes(recvBuf[s])
    BY <2>1 DEF WholeInv
  <2>3. Head(tcp[s].down) \in Packet
    BY <1>1, <2>1
  <2>4. Wholes(tcp'[s].down) /\ Wholes(tcp'[s].rx)
    BY <1>1, <2>1, <2>2, <2>3, WholesOf
  <2> QED
    BY <1>2, <2>1, <2>2, <2>4, SlotWhole
<1>5. CASE NetEnd(s) \/ NetReset(s)
  <2>1. \E f \in SocketInt : Lost(s, f)
    BY <1>5 DEF NetEnd, NetReset, LibFin, LibClosed, LibReset, SocketInt
  <2>2. tcp'[s].st = "free" /\ \A n \in Slots \ {s} : tcp'[n] = tcp[n]
    BY <1>1, <2>1 DEF Lost, NewSocket
  <2> QED
    BY <1>2, <2>2, SlotWhole
<1> QED
  BY <1>3, <1>4, <1>5

\* What the broker sends is whole.
LEMMA BrokerWhole ==
  ASSUME IInv, WholeInv, NEW s \in Slots,
         BrokerRecv(s) \/ BrokerRefuses(s) \/ BrokerPublish(s) \/ BrokerClose(s)
  PROVE  WholeInv'
<1>1. /\ tcp \in [Slots -> Socket] /\ tcp[s] \in Socket /\ tcp[s].st = "estab"
      /\ tcp[s].down \in Seq(Packet) /\ UNCHANGED recvBuf
  BY DEF IInv, TypeOK, EthTypeOK, Socket, BrokerRecv, BrokerRefuses, BrokerPublish,
         BrokerClose, Live, Unseen
<1>2. Wholes(tcp[s].down) /\ Wholes(tcp[s].rx) /\ Wholes(recvBuf[s])
  BY <1>1 DEF WholeInv
<1> SUFFICES /\ tcp'[s].rx = tcp[s].rx /\ \A n \in Slots \ {s} : tcp'[n] = tcp[n]
             /\ \/ tcp'[s].down = tcp[s].down
                \/ \E y \in Packet : Whole(y) /\ tcp'[s].down = Append(tcp[s].down, y)
  <2>1. \A y \in Packet : Whole(y) => Wholes(Append(tcp[s].down, y))
    BY <1>1, <1>2, WholesOf
  <2> QED
    BY <1>1, <1>2, <2>1, SlotWhole
<1>3. CASE BrokerCloses(s)
  BY <1>1, <1>3 DEF BrokerCloses, Socket
<1>4. CASE BrokerRecv(s) /\ ~BrokerCloses(s)
  <2>1. Reads(s, Head(tcp[s].up))
    BY <1>4, BrokerReadsOne
  <2>2. \A y : y.type \notin {"PUBLISH", "FRAGMENT"} => Whole(y)
    BY DEF Whole
  <2> QED
    BY <2>1, <2>2 DEF Reads
<1>5. CASE BrokerRefuses(s)
  <2>1. Plain("CONNACK") \in Packet /\ Whole(Plain("CONNACK"))
    BY PacketTypes DEF Types, Plain, Whole
  <2> QED
    BY <1>1, <1>5, <2>1, RefusesKeeps DEF IInv
<1>6. CASE BrokerPublish(s)
  <2>1. PICK id \in MsgIds, q \in Qos :
          tcp' = [tcp EXCEPT ![s].down = Append(@, Publish(q, id))]
    BY <1>6 DEF BrokerPublish
  <2>2. Publish(q, id) \in Packet /\ Whole(Publish(q, id))
    BY ClientAssumption, PacketTypes DEF Publish, Whole
  <2> QED
    BY <1>1, <2>1, <2>2 DEF Socket
<1>7. BrokerClose(s) => BrokerCloses(s)
  BY DEF BrokerClose
<1> QED
  BY <1>3, <1>4, <1>5, <1>6, <1>7

LEMMA NextWhole ==
  ASSUME OneSlot, ~Split, IInv, WholeInv, [Next]_vars
  PROVE  WholeInv'
<1>1. ASSUME NEW ticks \in 0..MaxTurn, EthStep(ticks)
      PROVE  WholeInv'
  BY <1>1, EthStepWhole
<1>2. CASE RecvStep
  BY <1>2, RecvStepWhole
<1>3. CASE SockStep
  BY <1>3, SockStepSends, LoopWhole
<1>4. CASE TimerStep
  BY <1>4, TimerStepSends, LoopWhole
<1>5. CASE AppStep
  BY <1>5, AppStepSends, LoopWhole
<1>6. ASSUME NEW s \in Slots,
             \/ NetConnect(s) \/ NetRecv(s) \/ NetEnd(s) \/ NetReset(s)
             \/ BrokerRecv(s) \/ BrokerRefuses(s) \/ BrokerPublish(s) \/ BrokerClose(s)
      PROVE  WholeInv'
  BY <1>6, NetWhole, BrokerWhole
<1>7. CASE Rollover \/ UNCHANGED vars
  BY <1>7 DEF Rollover, vars, ethVars, WholeInv
<1> QED
  BY <1>1, <1>2, <1>3, <1>4, <1>5, <1>6, <1>7 DEF Next, MainLoop, Environment

LEMMA NextAcks ==
  ASSUME OneSlot, ~Split, IInv, WholeInv, AckInv, [Next]_vars
  PROVE  AckInv'
<1>1. ASSUME NEW ticks \in 0..MaxTurn, EthStep(ticks)
      PROVE  AckInv'
  BY <1>1, EthStepAcks
<1>2. CASE RecvStep
  BY <1>2, RecvStepAcks
<1>3. CASE SockStep
  BY <1>3, SockStepSends, LoopAcks
<1>4. CASE TimerStep
  BY <1>4, TimerStepSends, LoopAcks
<1>5. CASE AppStep
  BY <1>5, AppStepSends, LoopAcks
<1>6. ASSUME NEW s \in Slots,
             \/ NetConnect(s) \/ NetRecv(s) \/ NetEnd(s) \/ NetReset(s)
             \/ BrokerRecv(s) \/ BrokerRefuses(s) \/ BrokerPublish(s) \/ BrokerClose(s)
      PROVE  AckInv'
  BY <1>6, NetAcks, BrokerReadsAcks, BrokerRefusesAcks, BrokerPublishAcks, BrokerCloseAcks
<1>7. CASE Rollover \/ UNCHANGED vars
  BY <1>7 DEF Rollover, vars, ethVars, AckInv
<1> QED
  BY <1>1, <1>2, <1>3, <1>4, <1>5, <1>6, <1>7 DEF Next, MainLoop, Environment

\* Every PUBACK and PUBREC answers, once, a PUBLISH that its connection carried
\* and its broker waits for, whatever is lost or merged into one read, as long as
\* TCP delivers every packet in one piece (~Split).
THEOREM AcksAreOwed ==
  ASSUME OneSlot, ~Split PROVE Spec => []AckOwed
<1>1. Init => WholeInv /\ AckInv
  BY InitWhole, InitAcks
<1>2. IInv /\ WholeInv /\ AckInv /\ [Next]_vars => WholeInv' /\ AckInv'
  BY NextWhole, NextAcks
<1>3. IInv /\ AckInv => AckOwed
  <2> SUFFICES ASSUME IInv, AckInv, NEW s \in Slots, NEW i \in InFlight(s),
                      tcp[s].up[i].type \in {"PUBACK", "PUBREC"}
               PROVE  /\ tcp[s].up[i] \in broker[s].unacked
                      /\ \A j \in InFlight(s) : tcp[s].up[j] = tcp[s].up[i] => j = i
    BY DEF AckOwed
  <2>1. tcp[s].st = "estab" /\ i \in 1..Len(tcp[s].up) /\ InFlight(s) \subseteq 1..Len(tcp[s].up)
    BY DEF InFlight
  <2>2. tcp[s].up \in Seq(Packet)
    BY DEF IInv, TypeOK, EthTypeOK, Socket
  <2>3. tcp[s].up[i] \in Replies
    BY <2>1, <2>2 DEF Replies
  <2>4. Has(tcp[s].up, tcp[s].up[i])
    BY <2>1 DEF Has
  <2>5. tcp[s].up[i] \in broker[s].unacked /\ Once(tcp[s].up, tcp[s].up[i])
    BY <2>1, <2>3, <2>4 DEF AckInv, Accounted, InOnePlace, Anywhere
  <2> QED
    BY <2>1, <2>5 DEF Once
<1> QED
  BY <1>1, <1>2, <1>3, Invariant, PTL DEF Spec

-----------------------------------------------------------------------------
(* The exchange of a message of quality 2.                                 *)

LEMMA CompletionIs ==
  ASSUME NEW m \in Rels
  PROVE  /\ Completion(m) \in Answer /\ Completion(m) \notin Replies
         /\ Completion(m).id = m.id /\ Completion(m).qos = m.qos
         /\ \A n \in Rels : Completion(n) = Completion(m) => n = m
         /\ m.type # "PUBLISH"
<1>1. /\ Completion(m).type = "PUBCOMP" /\ Completion(m).id = m.id
      /\ Completion(m).qos = m.qos /\ Completion(m) \in Packet
  BY DEF Completion, Rels, Packet, Types, AckTypes
<1>2. ASSUME NEW n \in Rels, Completion(n) = Completion(m) PROVE n = m
  <2>1. Completion(n).id = n.id /\ Completion(n).qos = n.qos
    BY DEF Completion, Rels, Packet
  <2>2. n.id = m.id /\ n.qos = m.qos /\ n.type = m.type
    BY <1>1, <1>2, <2>1 DEF Rels
  <2>3. n \in Packet /\ m \in Packet
    BY DEF Rels
  <2> QED
    BY <2>2, <2>3 DEF Packet
<1> QED
  BY <1>1, <1>2 DEF Answer, Replies, Rels

\* Every PUBCOMP completes a release.
LEMMA CompletesOne ==
  ASSUME NEW c \in Packet, c.type = "PUBCOMP"
  PROVE  /\ [c EXCEPT !.type = "PUBREL"] \in Rels
         /\ Completion([c EXCEPT !.type = "PUBREL"]) = c
BY DEF Rels, Completion, Packet, Types, AckTypes

LEMMA InTurnLess ==
  ASSUME NEW U, NEW R, InTurn(U, R), NEW V \in SUBSET U
  PROVE  InTurn(V, R)
BY DEF InTurn

\* r holds no packet of S that q does not, and none twice.
Fewer(q, r, S) == \A m \in S : /\ Has(r, m) => Has(q, m)
                               /\ Once(q, m) => Once(r, m)

LEMMA FewerIs ==
  ASSUME NEW S, NEW q \in Seq(Packet)
  PROVE  /\ Fewer(q, q, S) /\ Fewer(q, <<>>, S)
         /\ q # <<>> => Fewer(q, Tail(q), S)
         /\ \A y \in Packet \ S : Fewer(q, Append(q, y), S)
<1>1. Fewer(q, q, S) /\ Fewer(q, <<>>, S)
  BY EmptyHas DEF Fewer
<1>2. q # <<>> => Fewer(q, Tail(q), S)
  BY TailHas DEF Fewer
<1>3. ASSUME NEW y \in Packet \ S PROVE Fewer(q, Append(q, y), S)
  BY AppendHas DEF Fewer
<1> QED
  BY <1>1, <1>2, <1>3

\* Less under way leaves the exchange as it should be.
LEMMA ExchangeLess ==
  ASSUME NEW d, NEW x, NEW b, NEW u, NEW U, NEW R, NEW last, Exchange(d, x, b, u, U, R, last),
         NEW e, NEW c, NEW v, NEW V,
         Fewer(d, e, Rels), Fewer(b, c, Rels), Fewer(u, v, Answer), InTurn(V, R)
  PROVE  Exchange(e, x, c, v, V, R, last)
<1>1. ASSUME NEW a \in Replies, a.type = "PUBREC", Has(v, a) PROVE a.id = last
  <2>1. a \in Answer
    BY DEF Replies, Answer
  <2> QED
    BY <1>1, <2>1 DEF Fewer, Exchange
<1>2. ASSUME NEW m \in Rels PROVE Released(e, x, c, v, R, last, m)
  <2>1. Completion(m) \in Answer
    BY CompletionIs
  <2>2. Released(d, x, b, u, R, last, m)
    BY DEF Exchange
  <2>3. /\ Has(e, m) => Has(d, m)
        /\ Has(c, m) => Has(b, m)
        /\ Has(v, Completion(m)) => Has(u, Completion(m))
        /\ Once(d, m) => Once(e, m)
        /\ Once(b, m) => Once(c, m)
        /\ Once(u, Completion(m)) => Once(v, Completion(m))
    BY <2>1 DEF Fewer
  <2> QED
    BY <2>2, <2>3 DEF Released, InOnePlace, Anywhere
<1> QED
  BY <1>1, <1>2 DEF Exchange

\* Nothing is under way for a broker that has released nothing.
LEMMA NoneReleased ==
  ASSUME NEW d, NEW x, NEW b, NEW u, NEW U, NEW last, Exchange(d, x, b, u, U, {}, last),
         NEW m \in Rels
  PROVE  /\ ~Has(d, m) /\ ~Has(x, m) /\ ~Has(b, m) /\ ~Has(u, Completion(m))
BY DEF Exchange, Released, Anywhere

LEMMA NoneIsReleased ==
  ASSUME NEW d, NEW x, NEW b, NEW u, NEW R, NEW last, NEW m,
         ~Has(d, m), ~Has(x, m), ~Has(b, m), ~Has(u, Completion(m))
  PROVE  Released(d, x, b, u, R, last, m)
BY DEF Released, InOnePlace, Anywhere, Has, Once

LEMMA InitExchange == Init => ExchangeInv
<1> SUFFICES ASSUME Init PROVE ExchangeInv
  OBVIOUS
<1> DEFINE none == [s \in Slots |-> NewSocket("free")]
<1>1. none \in Sockets /\ NoSocket \in Ids
  BY NewSocketType DEF Sockets, PcbState, Ids
<1>2. \/ tcp = none /\ socket = NoSocket
      \/ \E n \in Slots, st \in {"synsent", "idle"} :
           tcp = [none EXCEPT ![n] = NewSocket(st)] /\ socket = n
  BY <1>1, CreateCases DEF Init
<1>3. \A s \in Slots : tcp[s].st # "estab" /\ tcp[s].up = <<>>
  BY <1>2 DEF NewSocket
<1> QED
  BY <1>3, EmptyHas DEF ExchangeInv

LEMMA EthStepExchange ==
  ASSUME IInv, ExchangeInv, NEW ticks \in 0..MaxTurn, EthStep(ticks)
  PROVE  ExchangeInv'
<1> SUFFICES ASSUME NEW s \in Slots
             PROVE  /\ tcp'[s].st = "synsent" => \A m \in Rels : ~Has(tcp'[s].up, Completion(m))
                    /\ tcp'[s].st = "estab" /\ broker'[s].alone =>
                         Exchange(tcp'[s].down, tcp'[s].rx, recvBuf'[s], tcp'[s].up,
                                  broker'[s].unacked, broker'[s].released, lastId')
  BY DEF ExchangeInv
<1>1. tcp[s] \in Socket /\ recvBuf[s] = <<>> /\ UNCHANGED <<broker, lastId>>
  BY DEF IInv, TypeOK, EthTypeOK, BufferDrained, EthStep
<1>2. /\ tcp'[s].st = tcp[s].st /\ tcp'[s].down = tcp[s].down /\ tcp'[s].up = tcp[s].up
      /\ \/ tcp'[s].rx = <<>> /\ recvBuf'[s] = tcp[s].rx
         \/ tcp'[s].rx = tcp[s].rx /\ recvBuf'[s] = <<>>
  BY <1>1 DEF EthStep, EthMainTask, Socket
<1>3. tcp[s].st = "synsent" => \A m \in Rels : ~Has(tcp[s].up, Completion(m))
  BY DEF ExchangeInv
<1>4. tcp[s].st = "estab" /\ broker[s].alone =>
        Exchange(tcp[s].down, tcp[s].rx, <<>>, tcp[s].up,
                 broker[s].unacked, broker[s].released, lastId)
  BY <1>1 DEF ExchangeInv
<1>5. ASSUME NEW m \in Rels, NEW d, NEW x, NEW u, NEW R, NEW last,
             Released(d, x, <<>>, u, R, last, m)
      PROVE  Released(d, <<>>, x, u, R, last, m)
  BY <1>5, EmptyHas DEF Released, InOnePlace, Anywhere
<1> QED
  BY <1>1, <1>2, <1>3, <1>4, <1>5 DEF Exchange

LEMMA LoopExchange ==
  ASSUME IInv, ExchangeInv, \A n \in Slots : NoAnswer(tcp[n], tcp'[n]),
         UNCHANGED <<recvBuf, broker, lastId>>
  PROVE  ExchangeInv'
<1> SUFFICES ASSUME NEW s \in Slots
             PROVE  /\ tcp'[s].st = "synsent" => \A m \in Rels : ~Has(tcp'[s].up, Completion(m))
                    /\ tcp'[s].st = "estab" /\ broker[s].alone =>
                         Exchange(tcp'[s].down, tcp'[s].rx, recvBuf[s], tcp'[s].up,
                                  broker[s].unacked, broker[s].released, lastId)
  BY DEF ExchangeInv
<1>1. /\ tcp[s].st = "synsent" => \A m \in Rels : ~Has(tcp[s].up, Completion(m))
      /\ tcp[s].st = "estab" /\ broker[s].alone =>
           Exchange(tcp[s].down, tcp[s].rx, recvBuf[s], tcp[s].up,
                    broker[s].unacked, broker[s].released, lastId)
  BY DEF ExchangeInv
<1>2. CASE tcp'[s].st # "estab" /\ \A a \in Answer : ~Has(tcp'[s].up, a)
  BY <1>2, CompletionIs
<1>3. CASE /\ tcp'[s].st = tcp[s].st /\ tcp'[s].rx = tcp[s].rx /\ tcp'[s].down = tcp[s].down
           /\ \A a \in Answer : /\ Has(tcp'[s].up, a) <=> Has(tcp[s].up, a)
                                /\ Once(tcp[s].up, a) => Once(tcp'[s].up, a)
  <2>1. tcp'[s].st = "synsent" => \A m \in Rels : ~Has(tcp'[s].up, Completion(m))
    BY <1>1, <1>3, CompletionIs
  <2>2. tcp[s].down \in Seq(Packet) /\ recvBuf[s] \in Seq(Packet)
    BY DEF IInv, TypeOK, EthTypeOK, Socket
  <2>3. Fewer(tcp[s].down, tcp[s].down, Rels) /\ Fewer(recvBuf[s], recvBuf[s], Rels)
    BY <2>2, FewerIs
  <2>4. Fewer(tcp[s].up, tcp'[s].up, Answer)
    BY <1>3 DEF Fewer
  <2>5. ASSUME tcp'[s].st = "estab", broker[s].alone
        PROVE  Exchange(tcp[s].down, tcp[s].rx, recvBuf[s], tcp'[s].up,
                        broker[s].unacked, broker[s].released, lastId)
    <3>1. /\ Exchange(tcp[s].down, tcp[s].rx, recvBuf[s], tcp[s].up,
                      broker[s].unacked, broker[s].released, lastId)
          /\ InTurn(broker[s].unacked, broker[s].released)
      BY <1>1, <1>3, <2>5 DEF Exchange
    <3> QED
      BY <2>3, <2>4, <3>1, ExchangeLess
  <2> QED
    BY <1>3, <2>1, <2>5
<1> QED
  BY <1>2, <1>3 DEF NoAnswer

\* The packet at the head of the buffer.  A PUBLISH with an id finds nothing of an
\* exchange under way; a PUBREL has the id that its PUBCOMP will carry.
LEMMA RecvStepExchange ==
  ASSUME OneSlot, IInv, WholeInv, AckInv, ExchangeInv, RecvStep
  PROVE  ExchangeInv'
<1>1. CASE RecvNothing
  BY <1>1 DEF RecvNothing, ethVars, clientVars, ExchangeInv
<1>2. ASSUME getRecvBuf(socket) # <<>>,
             NEW p \in Looks(Head(getRecvBuf(socket))),
             \/ RecvConnack(p) \/ RecvStatus(p) \/ RecvPublish(p)
             \/ RecvPubrel(p)  \/ RecvOther(p)
      PROVE  ExchangeInv'
  <2> DEFINE d == tcp[socket].down
             x == tcp[socket].rx
             b == recvBuf[socket]
             u == tcp[socket].up
             v == tcp'[socket].up
             U == broker[socket].unacked
             R == broker[socket].released
  <2>1. /\ socket \in Slots /\ b # <<>> /\ b \in Seq(Packet)
        /\ \A s \in Slots : s = socket
    BY <1>2 DEF getRecvBuf, IInv, TypeOK, EthTypeOK, OneSlot
  <2>2. /\ tcp \in Sockets /\ socket \in Ids /\ d \in Seq(Packet) /\ u \in Seq(Packet)
    BY <2>1 DEF IInv, TypeOK, EthTypeOK, Sockets, Ids, Socket
  <2>3. recvBuf'[socket] = <<>> /\ UNCHANGED broker
    BY <1>2, <2>1 DEF RecvConnack, RecvStatus, RecvPublish, RecvPubrel, RecvOther, RecvDone,
                      flushRecvBuf, IInv, TypeOK, EthTypeOK
  <2>4. tcp[socket].st # "synsent"
    BY <2>1 DEF IInv, FreshIsClean
  <2>5. Head(b) \in Packet /\ Has(b, Head(b))
    <3>1. Head(b) = b[1] /\ 1 \in 1..Len(b) /\ Head(b) \in Packet
      BY <2>1
    <3> QED
      BY <3>1 DEF Has
  <2>6. /\ tcp'[socket].st = tcp[socket].st /\ tcp'[socket].rx = x
        /\ tcp'[socket].down = d
    BY <1>2, <2>1, <2>2, RecvSends, SendKeeps DEF IInv
  <2> SUFFICES ASSUME tcp'[socket].st = "estab", broker[socket].alone
               PROVE  Exchange(d, x, <<>>, v, U, R, lastId')
    BY <2>1, <2>3, <2>4, <2>6 DEF ExchangeInv
  <2>7. /\ p = Head(b)
        /\ \/ tcp' = tcp /\ lastId' = lastId
           \/ \E y \in Packet :
                /\ tcp' = sendPacket(tcp, socket, y)
                /\ \/ y \notin Answer /\ lastId' = lastId
                   \/ /\ p.type = "PUBLISH" /\ p.qos \in 1..2
                      /\ y = Ack(PublishAnswer[p.qos], p.id) /\ lastId' = p.id
                   \/ p.type = "PUBREL" /\ y = Ack("PUBCOMP", lastId) /\ lastId' = lastId
    <3>1. Whole(Head(b))
      BY <2>1, <2>6, WholesOf DEF WholeInv
    <3> QED
      BY <1>2, <3>1, RecvAnswers DEF IInv
  <2>8. Exchange(d, x, b, u, U, R, lastId) /\ InTurn(U, R)
    BY <2>1, <2>6 DEF ExchangeInv, Exchange
  <2>9. \A a \in Replies : Accounted(d, x, b, u, U, sent, a)
    BY <2>1, <2>6 DEF AckInv
  <2>10. ASSUME NEW y \in Packet, tcp' = sendPacket(tcp, socket, y)
         PROVE  v = u \/ v = Append(u, y)
    BY <2>1, <2>2, <2>10 DEF sendPacket, Sockets, Socket
  <2>11. ASSUME NEW y \in Packet, NEW a, v = u \/ v = Append(u, y)
         PROVE  /\ Has(v, a) => Has(u, a) \/ y = a
                /\ Once(u, a) /\ ~(Has(u, a) /\ y = a) => Once(v, a)
    <3>1. /\ Has(Append(u, y), a) => Has(u, a) \/ y = a
          /\ Once(u, a) /\ ~(Has(u, a) /\ y = a) => Once(Append(u, y), a)
      BY <2>2, AppendHas
    <3> HIDE DEF u, v
    <3> QED
      BY <2>11, <3>1
  <2>12. CASE lastId' = lastId /\ (v = u \/ \E y \in Packet \ Answer : v = Append(u, y))
    <3>1. Fewer(u, v, Answer)
      BY <2>2, <2>12, FewerIs
    <3>2. Fewer(d, d, Rels) /\ Fewer(b, <<>>, Rels)
      BY <2>1, <2>2, FewerIs
    <3> HIDE DEF d, x, b, u, v, U, R
    <3>3. Exchange(d, x, <<>>, v, U, R, lastId)
      BY <2>8, <3>1, <3>2, ExchangeLess
    <3> QED
      BY <2>12, <3>3
  <2>13. ASSUME NEW y \in Packet, v = u \/ v = Append(u, y),
                Head(b).type = "PUBLISH", Head(b).qos \in 1..2,
                y = Ack(PublishAnswer[Head(b).qos], Head(b).id), lastId' = Head(b).id
         PROVE  Exchange(d, x, <<>>, v, U, R, lastId')
    <3>1. y \in Replies /\ y.qos = 0 /\ y.id = Head(b).id /\ Asked(y) = Head(b)
      BY <2>5, <2>13, AnswerIs
    <3> HIDE DEF d, x, b, u, v, U, R
    <3>2. y \in U /\ ~Has(u, y)
      BY <2>5, <2>9, <3>1 DEF Accounted, InOnePlace, Anywhere
    <3>3. R = {} /\ \A a \in U : a.type = "PUBREC" => U = {a}
      BY <2>8, <3>2 DEF InTurn
    <3>4. ASSUME NEW a \in Replies, a.type = "PUBREC", Has(v, a)
          PROVE  a.id = lastId'
      <4>1. Has(v, a) => Has(u, a) \/ y = a
        BY <2>13, <2>11
      <4>2. ~Has(u, a)
        <5> SUFFICES ASSUME Has(u, a) PROVE FALSE
          OBVIOUS
        <5>1. a \in U
          BY <2>9 DEF Accounted, Anywhere
        <5> QED
          BY <3>2, <3>3, <3>4, <5>1
      <4> QED
        BY <2>13, <3>1, <3>4, <4>1, <4>2
    <3>5. ASSUME NEW m \in Rels PROVE Released(d, x, <<>>, v, R, lastId', m)
      <4>1. ~Has(d, m) /\ ~Has(x, m) /\ ~Has(b, m) /\ ~Has(u, Completion(m))
        BY <2>8, <3>3, NoneReleased
      <4>2. Completion(m) # y
        BY <3>1, CompletionIs
      <4>3. ~Has(v, Completion(m))
        BY <2>13, <2>11, <4>1, <4>2
      <4> QED
        BY <4>1, <4>3, EmptyHas, NoneIsReleased
    <3> QED
      BY <2>8, <3>4, <3>5 DEF Exchange
  <2>14. ASSUME NEW y \in Packet, v = u \/ v = Append(u, y),
                Head(b).type = "PUBREL", y = Ack("PUBCOMP", lastId), lastId' = lastId
         PROVE  Exchange(d, x, <<>>, v, U, R, lastId')
    <3> DEFINE r == Head(b)
    <3>1. r \in Rels /\ Has(b, r)
      BY <2>5, <2>14 DEF Rels
    <3> HIDE DEF d, x, b, u, v, U, R, r
    <3>2. Released(d, x, b, u, R, lastId, r)
      BY <2>8, <3>1 DEF Exchange
    <3>3. r.qos = 0 /\ r.id = lastId /\ r.id \in R
      BY <3>1, <3>2 DEF Released, Anywhere
    <3>4. y = Completion(r)
      BY <2>14, <3>1, <3>3 DEF Completion, Rels, Packet, Ack
    <3>5. y \in Answer /\ y \notin Replies
      BY <3>1, <3>4, CompletionIs
    <3>6. ASSUME NEW a \in Replies, a.type = "PUBREC", Has(v, a)
          PROVE  a.id = lastId'
      <4>1. Has(u, a)
        BY <2>14, <2>11, <3>5, <3>6
      <4> QED
        BY <2>8, <2>14, <3>6, <4>1 DEF Exchange
    <3>7. ASSUME NEW m \in Rels PROVE Released(d, x, <<>>, v, R, lastId', m)
      <4> DEFINE c == Completion(m)
      <4>1. Released(d, x, b, u, R, lastId, m)
        BY <2>8 DEF Exchange
      <4>2. c = y => m = r
        BY <3>1, <3>4, CompletionIs
      <4> HIDE DEF c
      <4>3. /\ Has(v, c) => Has(u, c) \/ y = c
            /\ Once(u, c) /\ ~(Has(u, c) /\ y = c) => Once(v, c)
        BY <2>14, <2>11
      <4>4. ~Has(<<>>, m) /\ Once(<<>>, m)
        BY EmptyHas
      <4>5. CASE c # y
        BY <2>14, <4>1, <4>3, <4>4, <4>5 DEF Released, InOnePlace, Anywhere, c
      <4>6. CASE c = y
        <5>1. m = r
          BY <4>2, <4>6
        <5> QED
          BY <2>14, <3>1, <3>3, <4>1, <4>3, <4>4, <4>6, <5>1
          DEF Released, InOnePlace, Anywhere, c
      <4> QED
        BY <4>5, <4>6
    <3> QED
      BY <2>8, <3>6, <3>7 DEF Exchange
  <2> QED
    BY <2>7, <2>10, <2>12, <2>13, <2>14
<1> QED
  BY <1>1, <1>2 DEF RecvStep

\* A step outside the program changes one slot.
LEMMA SlotExchange ==
  ASSUME ExchangeInv, NEW s \in Slots, UNCHANGED <<recvBuf, lastId>>,
         \A n \in Slots \ {s} : tcp'[n] = tcp[n] /\ broker'[n] = broker[n],
         tcp'[s].st # "synsent",
         tcp'[s].st = "estab" /\ broker'[s].alone =>
           Exchange(tcp'[s].down, tcp'[s].rx, recvBuf[s], tcp'[s].up,
                    broker'[s].unacked, broker'[s].released, lastId)
  PROVE  ExchangeInv'
BY DEF ExchangeInv

LEMMA NetExchange ==
  ASSUME ~Split, IInv, AckInv, ExchangeInv, NEW s \in Slots,
         NetConnect(s) \/ NetRecv(s) \/ NetEnd(s) \/ NetReset(s)
  PROVE  ExchangeInv'
<1>1. /\ tcp \in [Slots -> Socket] /\ broker \in [Slots -> BrokerEnd]
      /\ tcp[s] \in Socket
      /\ tcp[s].down \in Seq(Packet) /\ tcp[s].rx \in Seq(Packet)
  BY DEF IInv, TypeOK, EthTypeOK, Socket
<1>2. UNCHANGED <<recvBuf, lastId>>
  BY DEF NetConnect, NetRecv, NetEnd, NetReset, LibConnect, LibRecv, LibRecvPart,
         LibRecvRest, LibFin, LibClosed, LibReset, clientVars
<1>3. CASE NetConnect(s)
  <2>1. /\ tcp[s].st = "synsent"
        /\ tcp' = [tcp EXCEPT ![s] = [tcp[s] EXCEPT !.flags = @ \cup {"CONNECT"},
                                                   !.st = "estab"]]
        /\ broker' = [broker EXCEPT ![s] = NewBrokerEnd]
    BY <1>1, <1>3 DEF NetConnect, LibConnect, Raise
  <2>2. /\ tcp[s].rx = <<>> /\ tcp[s].down = <<>> /\ recvBuf[s] = <<>>
        /\ \A m \in Rels : ~Has(tcp[s].up, Completion(m))
        /\ \A a \in Replies : ~Has(tcp[s].up, a)
    BY <2>1 DEF IInv, FreshIsClean, ExchangeInv, AckInv
  <2>3. /\ tcp'[s].st = "estab" /\ tcp'[s].rx = <<>> /\ tcp'[s].down = <<>>
        /\ tcp'[s].up = tcp[s].up /\ broker'[s].unacked = {} /\ broker'[s].released = {}
        /\ \A n \in Slots \ {s} : tcp'[n] = tcp[n] /\ broker'[n] = broker[n]
    BY <1>1, <2>1, <2>2 DEF Socket, NewBrokerEnd
  <2>4. InTurn({}, {})
    BY DEF InTurn
  <2>5. \A m \in Rels : Released(<<>>, <<>>, <<>>, tcp[s].up, {}, lastId, m)
    BY <2>2, EmptyHas, NoneIsReleased
  <2>6. Exchange(<<>>, <<>>, <<>>, tcp[s].up, {}, {}, lastId)
    BY <2>2, <2>4, <2>5 DEF Exchange
  <2> QED
    BY <1>2, <2>2, <2>3, <2>6, SlotExchange
<1>4. CASE NetRecv(s)
  <2>1. tcp[s].st = "estab" /\ tcp[s].down # <<>> /\ UNCHANGED broker
    BY <1>4, NetRecvWhole DEF IInv
  <2>2. /\ tcp'[s].st = "estab" /\ tcp'[s].up = tcp[s].up
        /\ tcp'[s].rx = Append(tcp[s].rx, Head(tcp[s].down))
        /\ tcp'[s].down = Tail(tcp[s].down)
        /\ \A n \in Slots \ {s} : tcp'[n] = tcp[n]
    BY <1>4, NetRecvWhole DEF IInv
  <2> SUFFICES ASSUME broker[s].alone
               PROVE  Exchange(tcp'[s].down, tcp'[s].rx, recvBuf[s], tcp'[s].up,
                               broker[s].unacked, broker[s].released, lastId)
    BY <1>2, <2>1, <2>2, SlotExchange
  <2>3. Exchange(tcp[s].down, tcp[s].rx, recvBuf[s], tcp[s].up,
                 broker[s].unacked, broker[s].released, lastId)
    BY <2>1 DEF ExchangeInv
  <2>4. ASSUME NEW m \in Rels
        PROVE  Released(tcp'[s].down, tcp'[s].rx, recvBuf[s], tcp'[s].up,
                        broker[s].released, lastId, m)
    <3>1. Head(tcp[s].down) \in Packet
      BY <1>1, <2>1
    <3>2. /\ Has(tcp'[s].rx, m) <=> Has(tcp[s].rx, m) \/ Head(tcp[s].down) = m
          /\ Once(tcp[s].rx, m) /\ ~(Has(tcp[s].rx, m) /\ Head(tcp[s].down) = m)
               => Once(tcp'[s].rx, m)
      BY <1>1, <2>2, <3>1, AppendHas
    <3>3. /\ Head(tcp[s].down) = m => Has(tcp[s].down, m)
          /\ Has(tcp'[s].down, m) => Has(tcp[s].down, m)
          /\ Once(tcp[s].down, m) =>
               Once(tcp'[s].down, m) /\ ~(Head(tcp[s].down) = m /\ Has(tcp'[s].down, m))
      BY <1>1, <2>1, <2>2, TailHas
    <3>4. Released(tcp[s].down, tcp[s].rx, recvBuf[s], tcp[s].up,
                   broker[s].released, lastId, m)
      BY <2>3 DEF Exchange
    <3> QED
      BY <2>2, <3>2, <3>3, <3>4 DEF Released, InOnePlace, Anywhere
  <2> QED
    BY <2>2, <2>3, <2>4 DEF Exchange
<1>5. CASE NetEnd(s) \/ NetReset(s)
  <2>1. UNCHANGED broker /\ \E f \in SocketInt : Lost(s, f)
    BY <1>5 DEF NetEnd, NetReset, LibFin, LibClosed, LibReset, SocketInt
  <2>2. tcp'[s].st = "free" /\ \A n \in Slots \ {s} : tcp'[n] = tcp[n]
    BY <1>1, <2>1 DEF Lost, NewSocket
  <2> QED
    BY <1>2, <2>1, <2>2, SlotExchange
<1> QED
  BY <1>3, <1>4, <1>5

LEMMA ClosesExchange ==
  ASSUME IInv, ExchangeInv, NEW s \in Slots, tcp[s].st = "estab",
         BrokerCloses(s), UNCHANGED <<recvBuf, lastId>>
  PROVE  ExchangeInv'
<1>1. /\ tcp \in [Slots -> Socket] /\ broker \in [Slots -> BrokerEnd]
      /\ tcp[s] \in Socket /\ broker[s] \in BrokerEnd
      /\ tcp[s].down \in Seq(Packet) /\ tcp[s].up \in Seq(Packet)
      /\ recvBuf[s] \in Seq(Packet)
  BY DEF IInv, TypeOK, EthTypeOK, Socket
<1>2. /\ tcp'[s].st = "estab" /\ tcp'[s].up = <<>> /\ tcp'[s].down = tcp[s].down
      /\ tcp'[s].rx = tcp[s].rx
      /\ broker'[s].unacked = broker[s].unacked /\ broker'[s].released = broker[s].released
      /\ broker'[s].alone = broker[s].alone
      /\ \A n \in Slots \ {s} : tcp'[n] = tcp[n] /\ broker'[n] = broker[n]
  BY <1>1 DEF BrokerCloses, Socket, BrokerEnd
<1> SUFFICES ASSUME broker[s].alone
             PROVE  Exchange(tcp[s].down, tcp[s].rx, recvBuf[s], <<>>,
                             broker[s].unacked, broker[s].released, lastId)
  BY <1>2, SlotExchange
<1>3. /\ Exchange(tcp[s].down, tcp[s].rx, recvBuf[s], tcp[s].up,
                  broker[s].unacked, broker[s].released, lastId)
      /\ InTurn(broker[s].unacked, broker[s].released)
  BY DEF ExchangeInv, Exchange
<1>4. /\ Fewer(tcp[s].down, tcp[s].down, Rels) /\ Fewer(recvBuf[s], recvBuf[s], Rels)
      /\ Fewer(tcp[s].up, <<>>, Answer)
  BY <1>1, FewerIs
<1> QED
  BY <1>3, <1>4, ExchangeLess

\* A refusal closes too, and its CONNACK has nothing to do with the exchange.
LEMMA BrokerRefusesExchange ==
  ASSUME IInv, ExchangeInv, NEW s \in Slots, BrokerRefuses(s)
  PROVE  ExchangeInv'
<1> DEFINE y == Plain("CONNACK")
<1>1. /\ tcp \in [Slots -> Socket] /\ broker \in [Slots -> BrokerEnd]
      /\ tcp[s] \in Socket /\ broker[s] \in BrokerEnd
      /\ tcp[s].down \in Seq(Packet) /\ tcp[s].up \in Seq(Packet)
      /\ recvBuf[s] \in Seq(Packet)
      /\ tcp[s].st = "estab" /\ UNCHANGED <<recvBuf, lastId>>
  BY DEF IInv, TypeOK, EthTypeOK, Socket, BrokerRefuses, Live, Unseen, clientVars
<1>2. y \in Packet \ Rels
  BY PacketTypes DEF Types, Plain, Rels
<1>3. /\ tcp'[s].st = "estab" /\ tcp'[s].up = <<>> /\ tcp'[s].rx = tcp[s].rx
      /\ tcp'[s].down = Append(tcp[s].down, y)
      /\ broker'[s].unacked = broker[s].unacked /\ broker'[s].released = broker[s].released
      /\ broker'[s].alone = broker[s].alone
      /\ \A n \in Slots \ {s} : tcp'[n] = tcp[n] /\ broker'[n] = broker[n]
  BY <1>1, RefusesKeeps DEF IInv
<1> HIDE DEF y
<1> SUFFICES ASSUME broker[s].alone
             PROVE  Exchange(Append(tcp[s].down, y), tcp[s].rx, recvBuf[s], <<>>,
                             broker[s].unacked, broker[s].released, lastId)
  BY <1>1, <1>3, SlotExchange
<1>4. /\ Exchange(tcp[s].down, tcp[s].rx, recvBuf[s], tcp[s].up,
                  broker[s].unacked, broker[s].released, lastId)
      /\ InTurn(broker[s].unacked, broker[s].released)
  BY <1>1 DEF ExchangeInv, Exchange
<1>5. /\ Fewer(tcp[s].down, Append(tcp[s].down, y), Rels)
      /\ Fewer(recvBuf[s], recvBuf[s], Rels) /\ Fewer(tcp[s].up, <<>>, Answer)
  BY <1>1, <1>2, FewerIs
<1> QED
  BY <1>4, <1>5, ExchangeLess

\* PUBREC turns into PUBREL and PUBCOMP into nothing; whatever else the broker
\* reads or answers leaves the exchange as it is.
LEMMA BrokerReadsExchange ==
  ASSUME IInv, AckInv, ExchangeInv, NEW s \in Slots, BrokerRecv(s)
  PROVE  ExchangeInv'
<1> DEFINE p == Head(tcp[s].up)
           d == tcp[s].down
           x == tcp[s].rx
           b == recvBuf[s]
           u == tcp[s].up
           U == broker[s].unacked
           R == broker[s].released
<1>1. /\ d \in Seq(Packet) /\ b \in Seq(Packet) /\ u \in Seq(Packet) /\ u # <<>>
      /\ tcp[s].st = "estab" /\ UNCHANGED <<recvBuf, lastId>>
  BY DEF IInv, TypeOK, EthTypeOK, Socket, BrokerRecv, Live, Unseen, clientVars
<1>2. p \in Packet /\ Has(u, p) /\ (Once(u, p) => ~Has(Tail(u), p))
  BY <1>1, TailHas
<1>3. CASE BrokerCloses(s)
  BY <1>1, <1>3, ClosesExchange
<1>4. CASE ~BrokerCloses(s)
  <2> DEFINE e == tcp'[s].down
             v == Tail(u)
             V == broker'[s].unacked
             S == broker'[s].released
  <2>1. Reads(s, p)
    BY <1>4, BrokerReadsOne
  <2>2. /\ tcp'[s].st = "estab" /\ tcp'[s].up = v /\ tcp'[s].rx = x
        /\ \A n \in Slots \ {s} : tcp'[n] = tcp[n] /\ broker'[n] = broker[n]
    BY <2>1 DEF Reads
  <2>3. \/ e = d
        \/ \E y \in Packet :
             e = Append(d, y) /\ (y.type = "PUBREL" => p.type = "PUBREC" /\ y = Ack("PUBREL", p.id))
    BY <2>1 DEF Reads
  <2>4. V = U \ {p} \/ (p.type = "CONNECT" /\ V = U)
    BY <2>1 DEF Reads
  <2>5. S = IF p.type = "PUBREC" THEN R \cup ({p.id} \cap MsgIds)
            ELSE IF p.type = "PUBCOMP" THEN R \ {p.id} ELSE R
    BY <2>1 DEF Reads
  <2> SUFFICES ASSUME broker[s].alone PROVE Exchange(e, x, b, v, V, S, lastId)
    <3>1. broker'[s].alone = broker[s].alone
      BY <2>1 DEF Reads
    <3> QED
      BY <1>1, <2>2, <3>1, SlotExchange
  <2>6. Exchange(d, x, b, u, U, R, lastId) /\ InTurn(U, R)
    BY <1>1 DEF ExchangeInv, Exchange
  <2>7. \A a \in Replies : Accounted(d, x, b, u, U, sent, a)
    BY <1>1 DEF AckInv
  <2>8. sent \subseteq MsgIds
    BY DEF IInv, TypeOK
  <2>9. Fewer(b, b, Rels) /\ Fewer(u, v, Answer)
    BY <1>1, FewerIs
  <2>10. ASSUME p.type # "PUBREC" PROVE Fewer(d, e, Rels)
    <3>1. e = d \/ \E y \in Packet \ Rels : e = Append(d, y)
      BY <2>3, <2>10 DEF Rels
    <3> QED
      BY <1>1, <3>1, FewerIs
  <2>11. \A a \in Replies : a.type = "PUBREC" /\ Has(v, a) => a.id = lastId
    BY <2>6, <2>9 DEF Exchange, Fewer, Replies, Answer
  <2>12. CASE p.type = "PUBREC"
    <3>1. p \in Replies
      BY <1>2, <2>12 DEF Replies
    <3> HIDE DEF p, d, x, b, u, e, v, U, R, V, S
    <3>2. p \in U /\ p.id \in sent /\ p.id = lastId
      BY <1>2, <2>6, <2>7, <2>12, <3>1 DEF Accounted, Anywhere, Exchange
    <3>3. U = {p} /\ R = {}
      BY <2>6, <2>12, <3>2 DEF InTurn
    <3>4. V = {} /\ S = {p.id}
      BY <2>4, <2>5, <2>8, <2>12, <3>2, <3>3
    <3>5. InTurn({}, {p.id})
      BY DEF InTurn
    <3>6. ASSUME NEW m \in Rels PROVE Released(e, x, b, v, {p.id}, lastId, m)
      <4>1. ~Has(d, m) /\ ~Has(x, m) /\ ~Has(b, m) /\ ~Has(u, Completion(m))
        BY <2>6, <3>3, NoneReleased
      <4>2. ~Has(v, Completion(m))
        BY <2>9, <4>1, CompletionIs DEF Fewer
      <4>3. CASE ~Has(e, m)
        BY <4>1, <4>2, <4>3, NoneIsReleased
      <4>4. CASE Has(e, m)
        <5>1. PICK y \in Packet : e = Append(d, y) /\ (y.type = "PUBREL" => y = Ack("PUBREL", p.id))
          BY <2>3, <4>1, <4>4
        <5>2. (Has(e, m) => y = m) /\ Once(e, m)
          <6>1. /\ Has(Append(d, y), m) <=> Has(d, m) \/ y = m
                /\ Once(d, m) /\ ~(Has(d, m) /\ y = m) => Once(Append(d, y), m)
            BY <1>1, AppendHas
          <6> QED
            BY <4>1, <5>1, <6>1 DEF Has, Once
        <5>3. m.qos = 0 /\ m.id = p.id
          BY <4>4, <5>1, <5>2 DEF Rels, Ack
        <5>4. Once(x, m) /\ Once(b, m) /\ Once(v, Completion(m))
          BY <4>1, <4>2 DEF Has, Once
        <5> QED
          BY <3>2, <4>1, <4>2, <5>2, <5>3, <5>4 DEF Released, InOnePlace, Anywhere
      <4> QED
        BY <4>3, <4>4
    <3> QED
      BY <2>11, <3>4, <3>5, <3>6 DEF Exchange
  <2>13. CASE p.type = "PUBCOMP"
    <3> DEFINE r == [p EXCEPT !.type = "PUBREL"]
    <3>1. r \in Rels /\ Completion(r) = p
      BY <1>2, <2>13, CompletesOne
    <3> HIDE DEF p, d, x, b, u, e, v, U, R, V, S, r
    <3>2. r.id = p.id /\ r.qos = p.qos
      BY <3>1, CompletionIs
    <3>3. /\ Released(d, x, b, u, R, lastId, r)
          /\ r.qos = 0 /\ p.id \in R
      BY <1>2, <2>6, <3>1, <3>2 DEF Exchange, Released, Anywhere
    <3>4. R = {p.id} /\ U = {} /\ V = {} /\ S = {}
      BY <2>4, <2>5, <2>6, <2>13, <3>3 DEF InTurn
    <3>5. Fewer(d, e, Rels)
      BY <2>10, <2>13
    <3>6. ASSUME NEW m \in Rels PROVE Released(e, x, b, v, {}, lastId, m)
      <4>1. Released(d, x, b, u, R, lastId, m)
        BY <2>6 DEF Exchange
      <4>2. (Has(e, m) => Has(d, m)) /\ (Has(v, Completion(m)) => Has(u, Completion(m)))
        BY <2>9, <3>5, CompletionIs DEF Fewer
      <4>3. CASE m = r
        <5>1. ~Has(d, m) /\ ~Has(x, m) /\ ~Has(b, m) /\ Once(u, p)
          BY <1>2, <3>1, <4>1, <4>3 DEF Released, InOnePlace
        <5>2. ~Has(v, Completion(m))
          BY <1>2, <3>1, <4>3, <5>1 DEF v
        <5> QED
          BY <4>2, <5>1, <5>2, NoneIsReleased
      <4>4. CASE m # r
        <5>1. ~Anywhere(d, x, b, u, m, Completion(m))
          <6>1. m.qos = 0 /\ m.id = p.id => m = r
            BY <3>1, <3>2, <3>3 DEF Rels, Packet
          <6> QED
            BY <3>4, <4>1, <4>4, <6>1 DEF Released
        <5> QED
          BY <4>2, <5>1, NoneIsReleased DEF Anywhere
      <4> QED
        BY <4>3, <4>4
    <3>7. InTurn({}, {})
      BY DEF InTurn
    <3> QED
      BY <2>11, <3>4, <3>6, <3>7 DEF Exchange
  <2>14. CASE p.type \notin {"PUBREC", "PUBCOMP"}
    <3> HIDE DEF p, d, x, b, u, e, v, U, R, V, S
    <3>1. S = R /\ V \in SUBSET U
      BY <2>4, <2>5, <2>14
    <3>2. InTurn(V, R)
      BY <2>6, <3>1, InTurnLess
    <3>3. Fewer(d, e, Rels)
      BY <2>10, <2>14
    <3> QED
      BY <2>6, <2>9, <3>1, <3>2, <3>3, ExchangeLess
  <2> QED
    BY <2>12, <2>13, <2>14
<1> QED
  BY <1>3, <1>4

\* What is sent leaves a message of quality 2 alone, if it was said to.
LEMMA PublishInTurn ==
  ASSUME NEW c \in BrokerEnd, InTurn(c.unacked, c.released),
         NEW q \in 1..2, Alone(c, q), NEW id
  PROVE  InTurn(c.unacked \cup {Ack(PublishAnswer[q], id)}, c.released)
<1> DEFINE a == Ack(PublishAnswer[q], id)
<1>1. a.type = PublishAnswer[q] /\ PublishAnswer[1] = "PUBACK"
  BY DEF Ack, PublishAnswer
<1> HIDE DEF a
<1>2. CASE c.unacked = {} /\ c.released = {}
  BY <1>2 DEF InTurn, a
<1>3. CASE q = 1 /\ c.released = {} /\ \A p \in c.unacked : p.type = PublishAnswer[1]
  <2>1. \A p \in c.unacked \cup {a} : p.type # "PUBREC"
    BY <1>1, <1>3
  <2> QED
    BY <1>3, <2>1 DEF InTurn, a
<1> QED
  BY <1>2, <1>3 DEF Alone

LEMMA BrokerPublishExchange ==
  ASSUME IInv, ExchangeInv, NEW s \in Slots, BrokerPublish(s)
  PROVE  ExchangeInv'
<1>1. PICK id \in MsgIds \ sent, q \in Qos :
        /\ tcp' = [tcp EXCEPT ![s].down = Append(@, Publish(q, id))]
        /\ broker' = [broker EXCEPT
             ![s].unacked = IF q = 0 THEN @ ELSE @ \cup {Ack(PublishAnswer[q], id)},
             ![s].alone = @ /\ Alone(broker[s], q)]
  BY DEF BrokerPublish
<1> DEFINE y == Publish(q, id)
           V == IF q = 0 THEN broker[s].unacked
                ELSE broker[s].unacked \cup {Ack(PublishAnswer[q], id)}
<1>2. /\ tcp \in [Slots -> Socket] /\ broker \in [Slots -> BrokerEnd]
      /\ tcp[s] \in Socket /\ broker[s] \in BrokerEnd
      /\ tcp[s].down \in Seq(Packet) /\ tcp[s].up \in Seq(Packet)
      /\ recvBuf[s] \in Seq(Packet)
      /\ tcp[s].st = "estab" /\ UNCHANGED <<recvBuf, lastId>>
  BY DEF IInv, TypeOK, EthTypeOK, Socket, BrokerPublish, Live, Unseen, clientVars
<1>3. y \in Packet \ Rels /\ q \in 0..2
  <2>1. y \in Packet /\ y.type = "PUBLISH" /\ q \in 0..2
    BY PacketTypes, ClientAssumption DEF Publish
  <2> QED
    BY <2>1 DEF Rels
<1>4. /\ tcp'[s].st = "estab" /\ tcp'[s].up = tcp[s].up /\ tcp'[s].rx = tcp[s].rx
      /\ tcp'[s].down = Append(tcp[s].down, y)
      /\ \A n \in Slots \ {s} : tcp'[n] = tcp[n] /\ broker'[n] = broker[n]
  BY <1>1, <1>2 DEF Socket
<1>5. /\ broker'[s].unacked = V /\ broker'[s].released = broker[s].released
      /\ broker'[s].alone = (broker[s].alone /\ Alone(broker[s], q))
  BY <1>1, <1>2 DEF BrokerEnd
<1> SUFFICES ASSUME broker[s].alone, Alone(broker[s], q)
             PROVE  Exchange(Append(tcp[s].down, y), tcp[s].rx, recvBuf[s], tcp[s].up,
                             V, broker[s].released, lastId)
  <2> HIDE DEF y, V
  <2> QED
    BY <1>2, <1>4, <1>5, SlotExchange
<1>6. /\ Exchange(tcp[s].down, tcp[s].rx, recvBuf[s], tcp[s].up,
                  broker[s].unacked, broker[s].released, lastId)
      /\ InTurn(broker[s].unacked, broker[s].released)
  BY <1>2 DEF ExchangeInv, Exchange
<1>7. InTurn(V, broker[s].released)
  <2>1. CASE q = 0
    BY <1>6, <2>1
  <2>2. CASE q \in 1..2
    BY <1>2, <1>6, <2>2, PublishInTurn
  <2> QED
    BY <1>3, <2>1, <2>2
<1> HIDE DEF y, V
<1>8. /\ Fewer(tcp[s].down, Append(tcp[s].down, y), Rels)
      /\ Fewer(recvBuf[s], recvBuf[s], Rels) /\ Fewer(tcp[s].up, tcp[s].up, Answer)
  BY <1>2, <1>3, FewerIs
<1> QED
  BY <1>6, <1>7, <1>8, ExchangeLess

LEMMA NextExchange ==
  ASSUME OneSlot, ~Split, IInv, WholeInv, AckInv, ExchangeInv, [Next]_vars
  PROVE  ExchangeInv'
<1>1. ASSUME NEW ticks \in 0..MaxTurn, EthStep(ticks)
      PROVE  ExchangeInv'
  BY <1>1, EthStepExchange
<1>2. CASE RecvStep
  BY <1>2, RecvStepExchange
<1>3. CASE SockStep
  BY <1>3, SockStepSends, LoopExchange
<1>4. CASE TimerStep
  BY <1>4, TimerStepSends, LoopExchange
<1>5. CASE AppStep
  BY <1>5, AppStepSends, LoopExchange
<1>6. ASSUME NEW s \in Slots,
             NetConnect(s) \/ NetRecv(s) \/ NetEnd(s) \/ NetReset(s)
      PROVE  ExchangeInv'
  BY <1>6, NetExchange
<1>7. ASSUME NEW s \in Slots, BrokerRecv(s) \/ BrokerRefuses(s) \/ BrokerPublish(s)
      PROVE  ExchangeInv'
  BY <1>7, BrokerReadsExchange, BrokerRefusesExchange, BrokerPublishExchange
<1>8. ASSUME NEW s \in Slots, BrokerClose(s)
      PROVE  ExchangeInv'
  <2>1. tcp[s].st = "estab" /\ UNCHANGED <<recvBuf, lastId>> /\ BrokerCloses(s)
    BY <1>8 DEF BrokerClose, Live, Unseen, clientVars
  <2> QED
    BY <2>1, ClosesExchange
<1>9. CASE Rollover \/ UNCHANGED vars
  BY <1>9 DEF Rollover, vars, ethVars, clientVars, ExchangeInv
<1> QED
  BY <1>1, <1>2, <1>3, <1>4, <1>5, <1>6, <1>7, <1>8, <1>9 DEF Next, MainLoop, Environment

\* Every PUBCOMP carries the id of a message its broker has released and waits
\* for, although the client takes the id from lastTopicPacketID: on a connection
\* on which every message of quality 2 was in flight alone so far, and with TCP
\* delivering every packet in one piece.
THEOREM PubcompsMatch ==
  ASSUME OneSlot, ~Split
  PROVE  Spec => []PubcompMatchesAlone
<1>1. Init => WholeInv /\ AckInv /\ ExchangeInv
  BY InitWhole, InitAcks, InitExchange
<1>2. IInv /\ WholeInv /\ AckInv /\ ExchangeInv /\ [Next]_vars
        => WholeInv' /\ AckInv' /\ ExchangeInv'
  BY NextWhole, NextAcks, NextExchange
<1>3. IInv /\ ExchangeInv => PubcompMatchesAlone
  <2> SUFFICES ASSUME IInv, ExchangeInv, NEW s \in Slots, broker[s].alone,
                      NEW i \in InFlight(s), tcp[s].up[i].type = "PUBCOMP"
               PROVE  tcp[s].up[i].id \in broker[s].released
    BY DEF PubcompMatchesAlone, PubcompIsOwed
  <2> DEFINE c == tcp[s].up[i]
             m == [c EXCEPT !.type = "PUBREL"]
  <2>1. tcp[s].st = "estab" /\ i \in 1..Len(tcp[s].up)
    BY DEF InFlight
  <2>2. tcp[s].up \in Seq(Packet)
    BY DEF IInv, TypeOK, EthTypeOK, Socket
  <2>3. c \in Packet /\ Has(tcp[s].up, c)
    BY <2>1, <2>2 DEF Has
  <2>4. m \in Rels /\ Completion(m) = c
    BY <2>3, CompletesOne
  <2> HIDE DEF c, m
  <2>5. m.id = c.id
    BY <2>4, CompletionIs
  <2>6. m.id \in broker[s].released
    BY <2>1, <2>3, <2>4 DEF ExchangeInv, Exchange, Released, Anywhere
  <2> QED
    BY <2>5, <2>6 DEF c
<1> QED
  BY <1>1, <1>2, <1>3, Invariant, PTL DEF Spec

=============================================================================
