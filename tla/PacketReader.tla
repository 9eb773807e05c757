---------------------------- MODULE PacketReader ----------------------------
(***************************************************************************)
(* MQTTPacket_readnb of MQTT/MQTTPacket.c, the reader that never waits, on *)
(* a connection whose far end writes packets with the serializers.         *)
(*                                                                         *)
(* The reader is called again and again.  When the transport has nothing   *)
(* it returns 0, and the next call goes on where that one stopped: all     *)
(* that it keeps is in the MQTTTransport structure and in the buffer.  So  *)
(* a step here is one successful call of the transport's getfn, and a call *)
(* of the reader is any number of consecutive steps.                       *)
(*                                                                         *)
(* The caller takes the connection down when the reader reports an error,  *)
(* and reads the next connection with the same structure.                  *)
(***************************************************************************)
EXTENDS PacketCodec

CONSTANTS
  Messages,    \* the messages the far end may send
  SendBufs,    \* the sizes of the buffers it serializes them to
  BufLen,      \* the size of the reader's buffer
  Forms,       \* the numbers of bytes it may stretch a remaining length to
  Parts,       \* how much getfn may return of the contents it is asked for
  MaxCount,    \* maxcount of MQTTDeserialize_suback
  MaxPackets,  \* bound on the messages sent on one connection
  MaxFaults    \* bound on errors of the transport and of the far end

\* The reader writes a header and four bytes of length before it looks at buflen.
\* Five bytes more than the longest contents are the longest packet there is.
ASSUME ReaderAssumption ==
  /\ BufLen \in Nat /\ BufLen >= 5 /\ SendBufs \subseteq 0..(MaxRemaining + 5)
  /\ Forms \subseteq 1..4 /\ Parts \subseteq Nat /\ MaxCount \in Nat
  /\ MaxPackets \in Nat /\ MaxFaults \in Nat

\* What is written of the strings of a message is as long as was computed.
ASSUME MessageAssumption ==
  /\ Messages \subseteq Message
  /\ \A m \in Messages :
       CASE m.type = "CONNECT" ->
              LET written == writeStrings(ConnectStrings(m)) IN
              written \in Seq(Byte) /\ Len(written) = StringsLength(ConnectStrings(m))
         [] m.type = "SUBSCRIBE" ->
              LET written == writeFilters(m.filters) IN
              written \in Seq(Byte) /\ 2 + Len(written) = MQTTSerialize_subscribeLength(m)
         [] m.type = "UNSUBSCRIBE" ->
              LET written == writeStrings(m.topics) IN
              written \in Seq(Byte) /\ Len(written) = StringsLength(m.topics)
         [] m.type = "SUBACK" -> Len(m.granted) <= MaxCount
         [] OTHER -> TRUE

VARIABLES
  sent,    \* the messages sent on this connection
  stream,  \* their bytes that have not been read
  trp,     \* MQTTTransport: state, len, rem_len and multiplier
  buf,     \* what the reader has of the present packet in its buffer
  got,     \* the packets it has returned on this connection
  rc,      \* what it last returned: 0 for call again, -1, or a type
  faults   \* things gone wrong so far

vars == <<sent, stream, trp, buf, got, rc, faults>>

Fault == faults < MaxFaults /\ faults' = faults + 1

\* The packet as the reader leaves it: the remaining length in its shortest form.
Canonical(m) == Serialize(m, BufLen + MaxRemaining)

Init ==
  /\ sent = <<>> /\ stream = <<>> /\ got = <<>> /\ buf = <<>>
  /\ trp = [state |-> 0, len |-> 0, rem_len |-> 0, multiplier |-> 1]
  /\ rc = 0 /\ faults = 0

-----------------------------------------------------------------------------
(* The far end.                                                            *)

\* A remaining length in k bytes, k at least what it needs: the digits above
\* the number's own are zero.
Stretched(length, k) ==
  [i \in 1..k |-> Digit(length, i) + (IF i < k THEN 128 ELSE 0)]

\* The bytes of a packet with its length in k bytes, or as it is.
OnTheWire(packet, k) ==
  LET c == Contents(packet) IN
  IF k <= c.rc THEN packet
  ELSE <<packet[1]>> \o Stretched(c.last - c.first + 1, k) \o ContentsOf(packet)

\* A buffer larger than the reader's is a fault of the far end.
Send(m, size, k) ==
  /\ rc # -1 /\ Len(sent) < MaxPackets
  /\ Serialize(m, size) # BufferTooShort
  /\ IF size > BufLen THEN Fault ELSE UNCHANGED faults
  /\ sent' = Append(sent, m)
  /\ stream' = stream \o OnTheWire(Serialize(m, size), k)
  /\ UNCHANGED <<trp, buf, got, rc>>

\* A far end that writes a length that does not end.
SendBad ==
  /\ rc # -1 /\ Fault
  /\ stream' = stream \o <<Header("PUBLISH", 0, 0, 0), 255, 255, 255, 255, 1>>
  /\ UNCHANGED <<sent, trp, buf, got, rc>>

-----------------------------------------------------------------------------
(* The reader.                                                             *)

\* exit: the state is reset, and the rest of trp is as the call leaves it.
Exit(left, result) == rc' = result /\ trp' = [left EXCEPT !.state = 0]

Done(left)  == Exit(left, buf'[1] \div 16) /\ got' = Append(got, buf')
Fail(left)  == Exit(left, -1) /\ UNCHANGED got
Again(left) == rc' = 0 /\ trp' = left /\ UNCHANGED got

\* Wrong: what was missing of the packet before is kept.
ReadHeader_KeepsRest ==
  /\ trp.state = 0 /\ stream # <<>>
  /\ buf' = <<Head(stream)>> /\ stream' = Tail(stream)
  /\ trp' = [state |-> 1, len |-> 0, rem_len |-> trp.rem_len, multiplier |-> 1]
  /\ rc' = 0 /\ UNCHANGED got

\* State 0, and the start of MQTTPacket_decodenb.
ReadHeader ==
  /\ trp.state = 0 /\ stream # <<>>
  /\ buf' = <<Head(stream)>> /\ stream' = Tail(stream)
  /\ trp' = [state |-> 1, len |-> 0, rem_len |-> 0, multiplier |-> 1]
  /\ rc' = 0 /\ UNCHANGED got

\* Wrong: only the contents are compared with the buffer.
LengthRead_NoHeader(rem_len) ==
  LET written == <<buf[1]>> \o MQTTPacket_encode(rem_len)
      left == [state |-> 2, len |-> Len(written), rem_len |-> rem_len,
               multiplier |-> trp.multiplier * 128] IN
  /\ buf' = written
  /\ IF rem_len > BufLen THEN Fail(left)
     ELSE IF rem_len = 0 THEN Done(left) ELSE Again(left)

\* The last byte of the length: it goes back to the buffer in its shortest form.
LengthRead(rem_len) ==
  LET written == <<buf[1]>> \o MQTTPacket_encode(rem_len)
      left == [state |-> 2, len |-> Len(written), rem_len |-> rem_len,
               multiplier |-> trp.multiplier * 128] IN
  /\ buf' = written
  /\ IF rem_len + Len(written) > BufLen THEN Fail(left)
     ELSE IF rem_len = 0 THEN Done(left) ELSE Again(left)

\* Wrong: the bit that says that the length goes on is counted too.
ReadLength_NoMask ==
  /\ trp.state = 1 /\ stream # <<>>
  /\ stream' = Tail(stream)
  /\ LET c == Head(stream)
         rem_len == trp.rem_len + c * trp.multiplier
         left == [state |-> 1, len |-> trp.len + 1, rem_len |-> rem_len,
                  multiplier |-> trp.multiplier * 128] IN
     IF ~Continues(c) THEN LengthRead(rem_len)
     ELSE /\ UNCHANGED buf
          /\ IF left.len >= MAX_NO_OF_REMAINING_LENGTH_BYTES THEN Fail(left) ELSE Again(left)

\* State 1: MQTTPacket_decodenb reads a byte of the length.
ReadLength ==
  /\ trp.state = 1 /\ stream # <<>>
  /\ stream' = Tail(stream)
  /\ LET c == Head(stream)
         rem_len == trp.rem_len + (c % 128) * trp.multiplier
         left == [state |-> 1, len |-> trp.len + 1, rem_len |-> rem_len,
                  multiplier |-> trp.multiplier * 128] IN
     IF ~Continues(c) THEN LengthRead(rem_len)
     ELSE /\ UNCHANGED buf
          /\ IF left.len >= MAX_NO_OF_REMAINING_LENGTH_BYTES THEN Fail(left) ELSE Again(left)

\* Wrong: the next call asks for the whole rest again.
ReadBody_KeepsRest(k) ==
  /\ trp.state = 2 /\ k <= Len(stream)
  /\ buf' = buf \o SubSeq(stream, 1, k)
  /\ stream' = SubSeq(stream, k + 1, Len(stream))
  /\ LET left == [trp EXCEPT !.len = @ + k] IN
     IF k = trp.rem_len THEN Done(left) ELSE Again(left)

\* State 2: k bytes of the contents arrive.
ReadBody(k) ==
  /\ trp.state = 2 /\ k <= Len(stream)
  /\ buf' = buf \o SubSeq(stream, 1, k)
  /\ stream' = SubSeq(stream, k + 1, Len(stream))
  /\ LET left == [state |-> 2, len |-> trp.len + k, rem_len |-> trp.rem_len - k,
                  multiplier |-> trp.multiplier] IN
     IF k = trp.rem_len THEN Done(left) ELSE Again(left)

\* getfn returns all of what was asked for, or less.
Portions == {k \in Parts : k \in 1..(trp.rem_len - 1)} \cup {trp.rem_len}

Read ==
  /\ rc # -1
  /\ ReadHeader \/ ReadLength \/ \E k \in Portions : ReadBody(k)
  /\ UNCHANGED <<sent, faults>>

\* getfn returns -1, at whatever point the packet is.
ReadError ==
  /\ rc # -1 /\ Fault
  /\ Fail(trp)
  /\ UNCHANGED <<sent, stream, buf>>

\* The caller gives the connection up and reads the next one.
Reconnect ==
  /\ rc = -1
  /\ rc' = 0 /\ sent' = <<>> /\ stream' = <<>> /\ got' = <<>>
  /\ UNCHANGED <<trp, buf, faults>>

Next ==
  \/ \E m \in Messages, size \in SendBufs, k \in Forms : Send(m, size, k)
  \/ SendBad \/ Read \/ ReadError \/ Reconnect

Spec == Init /\ [][Next]_vars

\* The transport delivers what is on its way and the reader is called again.
FairSpec == Spec /\ WF_vars(Read)

-----------------------------------------------------------------------------
(* MQTTPacket_read, the reader that waits, on bytes that hold a packet.    *)

\* Wrong: the length stays in the buffer in the form it came in.
MQTTPacket_read_KeepsForm(bytes) ==
  LET d    == MQTTPacket_decodeBuf(Tail(bytes))
      head == SubSeq(bytes, 1, 1 + d.len) IN
  IF d.value + Len(head) > BufLen THEN [rc |-> -1, buf |-> head]
  ELSE [rc  |-> bytes[1] \div 16,
        buf |-> head \o SubSeq(bytes, 2 + d.len, 1 + d.len + d.value)]

\* Its length, in the shortest form, need not be as long as what was read.
MQTTPacket_read(bytes) ==
  LET d    == MQTTPacket_decodeBuf(Tail(bytes))
      head == <<bytes[1]>> \o MQTTPacket_encode(d.value) IN
  IF d.value + Len(head) > BufLen THEN [rc |-> -1, buf |-> head]
  ELSE [rc  |-> bytes[1] \div 16,
        buf |-> head \o SubSeq(bytes, 2 + d.len, 1 + d.len + d.value)]

-----------------------------------------------------------------------------
(* Properties.                                                             *)

TypeOK ==
  /\ sent \in Seq(Messages) /\ got \in Seq(Seq(Byte))
  /\ stream \in Seq(Byte) /\ buf \in Seq(Byte)
  /\ trp \in [state: 0..2, len: 0..BufLen, rem_len: 0..MaxRemaining,
              multiplier: {Power[i] : i \in 1..5}]
  /\ rc \in -1..15 /\ faults \in 0..MaxFaults

\* What the reader has and what it will still ask for fit its buffer, at every
\* point of a packet: the bound that MQTTPacket_readnb checks once, before it
\* shortens the length, holds for every later call of getfn.
FitsBuffer ==
  /\ Len(buf) <= BufLen
  /\ trp.state = 2 => trp.len = Len(buf) /\ trp.len + trp.rem_len <= BufLen

\* The reader reports an error only if something went wrong: a packet that was
\* serialized to a buffer of no more than the reader's size is always read,
\* whatever the boundary its length lies at.
OnlyFaultsFail == rc = -1 => faults > 0

\* The types that the library has a deserializer for.
Readable == {"CONNACK", "PUBLISH", "SUBACK"} \cup Acks

\* A packet read and deserialized is the message that was serialized.
Understood ==
  \A i \in 1..Len(got) :
    sent[i].type \in Readable =>
      LET read == Deserialize(got[i], MaxCount) IN
        /\ DOMAIN read = DOMAIN sent[i] \cup {"rc"}
        /\ read.rc = 1 /\ \A field \in DOMAIN sent[i] : read[field] = sent[i][field]

\* Both readers make the same of the bytes of a packet: the one that keeps its
\* state between calls loses none of it.  (Of a length that does not end they do
\* not: MQTTPacket_read drops the error of MQTTPacket_decode.)
ReadersAgree ==
  trp.state = 0 /\ faults = 0 /\ Len(got) < Len(sent) =>
    LET next == Canonical(sent[Len(got) + 1]) IN
      MQTTPacket_read(stream) = [rc |-> next[1] \div 16, buf |-> next]

\* Every packet sent is returned, in however many parts it arrives, unless the
\* connection is given up.
Delivered ==
  \A n \in 1..MaxPackets : Len(sent) >= n ~> (Len(got) >= n \/ rc = -1)

\* The calls of the reader make a stream of bytes one of packets.
Stream == INSTANCE PacketStream WITH
  queue    <- [i \in 1..(Len(sent) - Len(got)) |-> Canonical(sent[Len(got) + i])],
  received <- got
Implements == Stream!Spec
=============================================================================
