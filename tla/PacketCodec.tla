---------------------------- MODULE PacketCodec ----------------------------
(***************************************************************************)
(* The serializers and deserializers of MQTT packets (MQTT/*.c).           *)
(*                                                                         *)
(* A packet is a sequence of bytes and so is a string; a message is the    *)
(* record of a serializer's arguments.  A serializer computes the          *)
(* remaining length from the arguments, checks the buffer against it, and  *)
(* then writes the fields one by one: nothing but the two computations'    *)
(* agreement makes the packet end where its header says.                   *)
(***************************************************************************)
EXTENDS RemainingLength, SequencesExt

\* enum msgTypes: the code of a type is its place.
msgTypes == <<"CONNECT", "CONNACK", "PUBLISH", "PUBACK", "PUBREC", "PUBREL",
              "PUBCOMP", "SUBSCRIBE", "SUBACK", "UNSUBSCRIBE", "UNSUBACK",
              "PINGREQ", "PINGRESP", "DISCONNECT">>

TypeCode(type) == CHOOSE i \in 1..Len(msgTypes) : msgTypes[i] = type

\* MQTTHeader.
Header(type, dup, qos, retain) == 16 * TypeCode(type) + 8 * dup + 2 * qos + retain

HeaderType(byte) ==
  LET i == byte \div 16 IN IF i \in 1..Len(msgTypes) THEN msgTypes[i] ELSE "none"
HeaderDup(byte)    == (byte \div 8) % 2
HeaderQos(byte)    == (byte \div 2) % 4
HeaderRetain(byte) == byte % 2

\* The result MQTTPACKET_BUFFER_TOO_SHORT, which writes nothing.
BufferTooShort == <<>>

-----------------------------------------------------------------------------
(* Messages: the arguments of a serializer.                                *)

Bit  == 0..1

\* The largest unsigned short.
MaxShort == 65535
Short    == 0..MaxShort

Acks == {"PUBACK", "PUBREC", "PUBREL", "PUBCOMP", "UNSUBACK"}

\* A string's length is written in two bytes.  A string that may be absent is a
\* sequence of none or one.
MQTTString  == {s \in Seq(Byte) : Len(s) <= MaxShort}
MQTTStrings == Seq(MQTTString)

Connects   == [type: {"CONNECT"}, version: {3, 4}, cleansession: Bit, keepAlive: Short,
               clientID: MQTTString, will: {w \in MQTTStrings : Len(w) \in {0, 2}},
               willQos: 0..2, willRetain: Bit,
               username: {u \in MQTTStrings : Len(u) <= 1},
               password: {p \in MQTTStrings : Len(p) <= 1}]
Publishes  == {m \in [type: {"PUBLISH"}, dup: Bit, qos: 0..2, retain: Bit, id: Short,
                      topic: MQTTString, payload: Seq(Byte)] : m.qos = 0 => m.id = 0}
AckMsgs    == [type: Acks, dup: Bit, id: Short]
Subscribes == [type: {"SUBSCRIBE"}, id: Short, filters: Seq([topic: MQTTString, qos: 0..2])]
Unsubs     == [type: {"UNSUBSCRIBE"}, id: Short, topics: MQTTStrings]
Connacks   == [type: {"CONNACK"}, sessionPresent: Bit, code: Byte]
Subacks    == [type: {"SUBACK"}, id: Short, granted: Seq(Byte)]
Plain      == [type: {"PINGREQ", "PINGRESP", "DISCONNECT"}]

Message == Connects \cup Publishes \cup AckMsgs \cup Subscribes \cup Unsubs
           \cup Connacks \cup Subacks \cup Plain

-----------------------------------------------------------------------------
(* Strings.                                                                *)

\* The program sets one of the two forms of an MQTTString at a time: the C string
\* when it writes, the length and the data when it has read.
MQTTstrlen(s) == Len(s)

writeMQTTString(s) == writeInt(MQTTstrlen(s)) \o s

\* What several strings take, each with its length in front.
StringsLength(strings) == FoldSeq(LAMBDA s, n : n + MQTTstrlen(s) + 2, 0, strings)

writeStrings(strings) ==
  FoldSeq(LAMBDA s, written : written \o writeMQTTString(s), <<>>, strings)

-----------------------------------------------------------------------------
(* Serializers: what they write to a buffer of buflen bytes.               *)

Serialized(header, rem_len, body, buflen) ==
  IF MQTTPacket_len(rem_len) > buflen THEN BufferTooShort
  ELSE <<header>> \o MQTTPacket_encode(rem_len) \o body

\* The strings of a CONNECT in their order.  Those that may be absent are
\* sequences of none or one; a will has two.
ConnectStrings(m) == <<m.clientID>> \o m.will \o m.username \o m.password

MQTTSerialize_connectLength(m) ==
  (IF m.version = 4 THEN 10 ELSE 12) + StringsLength(ConnectStrings(m))

ConnectFlags(m) ==
    2 * m.cleansession
  + (IF m.will = <<>> THEN 0 ELSE 4 + 8 * m.willQos + 32 * m.willRetain)
  + (IF m.password = <<>> THEN 0 ELSE 64) + (IF m.username = <<>> THEN 0 ELSE 128)

MQTTSerialize_connect(m, buflen) ==
  LET name == IF m.version = 4 THEN <<77, 81, 84, 84>> ELSE <<77, 81, 73, 115, 100, 112>> IN
  Serialized(Header("CONNECT", 0, 0, 0), MQTTSerialize_connectLength(m),
             writeMQTTString(name) \o <<m.version, ConnectFlags(m)>> \o
               writeInt(m.keepAlive) \o writeStrings(ConnectStrings(m)),
             buflen)

MQTTSerialize_publishLength(m) ==
  2 + MQTTstrlen(m.topic) + Len(m.payload) + (IF m.qos > 0 THEN 2 ELSE 0)

MQTTSerialize_publish(m, buflen) ==
  Serialized(Header("PUBLISH", m.dup, m.qos, m.retain), MQTTSerialize_publishLength(m),
             writeMQTTString(m.topic) \o (IF m.qos > 0 THEN writeInt(m.id) ELSE <<>>)
               \o m.payload,
             buflen)

\* puback, pubrec, pubrel and pubcomp.  Its buffer check is its own.
MQTTSerialize_ack(m, buflen) ==
  IF buflen < 4 THEN BufferTooShort
  ELSE <<Header(m.type, m.dup, IF m.type = "PUBREL" THEN 1 ELSE 0, 0)>> \o
       MQTTPacket_encode(2) \o writeInt(m.id)

MQTTSerialize_subscribeLength(m) ==
  2 + FoldSeq(LAMBDA f, n : n + 2 + MQTTstrlen(f.topic) + 1, 0, m.filters)

writeFilters(filters) ==
  FoldSeq(LAMBDA f, written : written \o writeMQTTString(f.topic) \o <<f.qos>>, <<>>, filters)

MQTTSerialize_subscribe(m, buflen) ==
  Serialized(Header("SUBSCRIBE", 0, 1, 0), MQTTSerialize_subscribeLength(m),
             writeInt(m.id) \o writeFilters(m.filters), buflen)

MQTTSerialize_unsubscribeLength(m) == 2 + StringsLength(m.topics)

MQTTSerialize_unsubscribe(m, buflen) ==
  Serialized(Header("UNSUBSCRIBE", 0, 1, 0), MQTTSerialize_unsubscribeLength(m),
             writeInt(m.id) \o writeStrings(m.topics), buflen)

\* pingreq, disconnect.
MQTTSerialize_zero(m, buflen) ==
  IF buflen < 2 THEN BufferTooShort
  ELSE <<Header(m.type, 0, 0, 0)>> \o MQTTPacket_encode(0)

\* The broker's packets that this library does not write.
SerializeBroker(m, buflen) ==
  LET body == CASE m.type = "CONNACK" -> <<m.sessionPresent, m.code>>
                [] m.type = "SUBACK"  -> writeInt(m.id) \o m.granted
                [] OTHER              -> <<>> IN
  Serialized(Header(m.type, 0, 0, 0), Len(body), body, buflen)

Serialize(m, buflen) ==
  CASE m.type = "CONNECT"                   -> MQTTSerialize_connect(m, buflen)
    [] m.type = "PUBLISH"                   -> MQTTSerialize_publish(m, buflen)
    [] m.type \in Acks                      -> MQTTSerialize_ack(m, buflen)
    [] m.type = "SUBSCRIBE"                 -> MQTTSerialize_subscribe(m, buflen)
    [] m.type = "UNSUBSCRIBE"               -> MQTTSerialize_unsubscribe(m, buflen)
    [] m.type \in {"PINGREQ", "DISCONNECT"} -> MQTTSerialize_zero(m, buflen)
    [] OTHER                                -> SerializeBroker(m, buflen)

-----------------------------------------------------------------------------
(* Deserializers.  rc is 1 for success.  A packet that is too short for    *)
(* its fields leaves rc at the number of bytes of its length.              *)

\* Past the header and the length: where the contents begin, and where they end.
Contents(buf) ==
  LET d == MQTTPacket_decodeBuf(Tail(buf)) IN
  [rc |-> d.len, first |-> 2 + d.len, last |-> 1 + d.len + d.value]

ContentsOf(buf) == SubSeq(buf, Contents(buf).first, Contents(buf).last)

Failed(rc) == [rc |-> rc]

MQTTDeserialize_connack(buf) ==
  LET c == ContentsOf(buf) IN
  IF HeaderType(buf[1]) # "CONNACK" THEN Failed(0)
  ELSE IF Len(c) < 2 THEN Failed(Contents(buf).rc)
  ELSE [rc |-> 1, type |-> "CONNACK", sessionPresent |-> c[1] % 2, code |-> c[2]]

\* Wrong: a string that ends with its packet is refused.
HasString_Strict(c) == Len(c) > 1 /\ 2 + readInt(c) < Len(c)

\* readMQTTLenString succeeds.
HasString(c) == Len(c) > 1 /\ 2 + readInt(c) <= Len(c)

MQTTDeserialize_publish(buf) ==
  LET c    == ContentsOf(buf)
      qos  == HeaderQos(buf[1])
      at   == 2 + readInt(c)                   \* the end of the topic
      from == IF qos > 0 THEN at + 2 ELSE at IN  \* and of the id
  IF HeaderType(buf[1]) # "PUBLISH" THEN Failed(0)
  ELSE IF ~HasString(c) THEN Failed(Contents(buf).rc)
  ELSE [rc |-> 1, type |-> "PUBLISH", dup |-> HeaderDup(buf[1]), qos |-> qos,
        retain |-> HeaderRetain(buf[1]), topic |-> SubSeq(c, 3, at),
        id |-> IF qos > 0 THEN readInt(SubSeq(c, at + 1, at + 2)) ELSE 0,
        payload |-> SubSeq(c, from + 1, Len(c))]

MQTTDeserialize_ack(buf) ==
  LET c == ContentsOf(buf) IN
  IF Len(c) < 2 THEN Failed(Contents(buf).rc)
  ELSE [rc |-> 1, type |-> HeaderType(buf[1]), dup |-> HeaderDup(buf[1]), id |-> readInt(c)]

\* The test of *count lets one member more than maxcount through.
MQTTDeserialize_suback(buf, maxcount) ==
  LET c == ContentsOf(buf) IN
  IF HeaderType(buf[1]) # "SUBACK" THEN Failed(0)
  ELSE IF Len(c) < 2 THEN Failed(Contents(buf).rc)
  ELSE IF Len(c) - 2 > maxcount + 1 THEN Failed(-1)
  ELSE [rc |-> 1, type |-> "SUBACK", id |-> readInt(c), granted |-> SubSeq(c, 3, Len(c))]

\* The type is looked at after, and instead of, the result.
MQTTDeserialize_unsuback(buf) ==
  LET a == MQTTDeserialize_ack(buf) IN
  IF HeaderType(buf[1]) = "UNSUBACK" THEN [a EXCEPT !.rc = 1] ELSE a

Deserialize(buf, maxcount) ==
  LET type == HeaderType(buf[1]) IN
  CASE type = "CONNACK"  -> MQTTDeserialize_connack(buf)
    [] type = "PUBLISH"  -> MQTTDeserialize_publish(buf)
    [] type = "SUBACK"   -> MQTTDeserialize_suback(buf, maxcount)
    [] type = "UNSUBACK" -> MQTTDeserialize_unsuback(buf)
    [] OTHER             -> MQTTDeserialize_ack(buf)
=============================================================================
