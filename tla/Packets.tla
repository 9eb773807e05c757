------------------------------ MODULE Packets ------------------------------
(***************************************************************************)
(* The MQTT control packets as the client tells them apart: the type that  *)
(* is the high half of the first byte (MQTT/inc/MQTTPacket.h), and the two *)
(* fields of the body that it looks at.                                    *)
(***************************************************************************)
EXTENDS Naturals

AckTypes == {"PUBACK", "PUBREC", "PUBREL", "PUBCOMP"}

\* FRAGMENT stands for the rest of a packet whose first bytes were read before.
Types == {"CONNECT", "CONNACK", "PUBLISH", "SUBSCRIBE", "SUBACK", "UNSUBSCRIBE",
          "UNSUBACK", "PINGREQ", "PINGRESP", "DISCONNECT", "FRAGMENT"} \cup AckTypes

(***************************************************************************)
(* The id of a PUBLISH of the broker names the message even at quality 0,  *)
(* where the wire carries no id and the client reads none.                 *)
(***************************************************************************)
Packet == [type: Types, qos: 0..3, id: Nat]

Plain(type)      == [type |-> type, qos |-> 0, id |-> 0]
Ack(type, id)    == [type |-> type, qos |-> 0, id |-> id]
Publish(qos, id) == [type |-> "PUBLISH", qos |-> qos, id |-> id]

\* A packet that is read in two parts.  Only a PUBLISH of quality 1 or 2 has an id
\* that matters to the client; it is 0 in a first part that ends before it.
FirstParts(p) ==
  IF p.type = "PUBLISH" /\ p.qos > 0 THEN {p, [p EXCEPT !.id = 0]} ELSE {p}
Rest(p) == [p EXCEPT !.type = "FRAGMENT"]
=============================================================================
