--------------------------- MODULE MCPacketReader ---------------------------
(***************************************************************************)
(* Messages for PacketReader: every type, the fields that may be absent    *)
(* present and absent, empty strings, ids at both ends of their range, and *)
(* PUBLISH packets whose remaining length is at a boundary of its code.    *)
(***************************************************************************)
EXTENDS PacketReader

S(n) == [i \in 1..n |-> 65]

Publication(qos, id, topic, payload) ==
  [type |-> "PUBLISH", dup |-> 0, qos |-> qos, retain |-> 1, id |-> id,
   topic |-> S(topic), payload |-> S(payload)]

Acknowledgement(type, id) == [type |-> type, dup |-> 0, id |-> id]

Connection(version, will, user, password) ==
  [type |-> "CONNECT", version |-> version, cleansession |-> 1, keepAlive |-> 300,
   clientID |-> S(1), will |-> will, willQos |-> 1, willRetain |-> 0,
   username |-> user, password |-> password]

MCMessages ==
  {Publication(0, 0, 1, 0), Publication(2, 65535, 0, 1)}
  \cup {Publication(0, 0, 2, n - 4) : n \in 127..128}
  \cup {Acknowledgement("PUBREL", 256), [type |-> "PINGREQ"]}
  \cup {Connection(4, <<S(2), S(1)>>, <<>>, <<>>), Connection(3, <<>>, <<S(1)>>, <<S(0)>>)}
  \cup {[type |-> "CONNACK", sessionPresent |-> 1, code |-> 5],
        [type |-> "SUBACK", id |-> 1, granted |-> <<0, 128>>],
        [type |-> "SUBSCRIBE", id |-> 1,
         filters |-> <<[topic |-> S(2), qos |-> 1], [topic |-> S(0), qos |-> 0]>>],
        [type |-> "UNSUBSCRIBE", id |-> 1, topics |-> <<S(1), S(3)>>]}
=============================================================================
