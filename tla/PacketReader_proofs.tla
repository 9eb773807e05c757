------------------------ MODULE PacketReader_proofs ------------------------
(***************************************************************************)
(* Proofs about the reader that never waits, for every size of its buffer, *)
(* every set of messages and every way in which their bytes arrive.        *)
(***************************************************************************)
EXTENDS PacketReader, PacketCodec_proofs

-----------------------------------------------------------------------------
(* Packets on the wire.                                                    *)

(* What the serializer of a message writes is a packet. *)
LEMMA MessageFrame ==
  ASSUME NEW m \in Messages
  PROVE  \E h, n, body : FrameIs(m, h, n, body)
<1>1. /\ m \in Message
      /\ CASE m.type = "CONNECT" ->
                /\ writeStrings(ConnectStrings(m)) \in Seq(Byte)
                /\ Len(writeStrings(ConnectStrings(m))) = StringsLength(ConnectStrings(m))
           [] m.type = "SUBSCRIBE" ->
                /\ writeFilters(m.filters) \in Seq(Byte)
                /\ 2 + Len(writeFilters(m.filters)) = MQTTSerialize_subscribeLength(m)
           [] m.type = "UNSUBSCRIBE" ->
                /\ writeStrings(m.topics) \in Seq(Byte)
                /\ Len(writeStrings(m.topics)) = StringsLength(m.topics)
           [] m.type = "SUBACK" -> Len(m.granted) <= MaxCount
           [] OTHER -> TRUE
  BY MessageAssumption, Zenon
<1>2. CASE m \in Connects
  <2>1. m.type = "CONNECT"
    BY <1>2, SMT DEF Connects
  <2>2. /\ writeStrings(ConnectStrings(m)) \in Seq(Byte)
        /\ Len(writeStrings(ConnectStrings(m))) = StringsLength(ConnectStrings(m))
    BY <1>1, <2>1, SMT
  <2> QED
    BY <1>2, <2>2, ConnectFrame, Zenon
<1>3. CASE m \in Publishes
  BY <1>3, PublishFrame, Zenon
<1>4. CASE m \in AckMsgs
  BY <1>4, AckFrame, Zenon
<1>5. CASE m \in Subscribes
  <2>1. m.type = "SUBSCRIBE"
    BY <1>5, SMT DEF Subscribes
  <2>2. /\ writeFilters(m.filters) \in Seq(Byte)
        /\ 2 + Len(writeFilters(m.filters)) = MQTTSerialize_subscribeLength(m)
    BY <1>1, <2>1, SMT
  <2> QED
    BY <1>5, <2>2, SubscribeFrame, Zenon
<1>6. CASE m \in Unsubs
  <2>1. m.type = "UNSUBSCRIBE"
    BY <1>6, SMT DEF Unsubs
  <2>2. /\ writeStrings(m.topics) \in Seq(Byte)
        /\ Len(writeStrings(m.topics)) = StringsLength(m.topics)
    BY <1>1, <2>1, SMT
  <2> QED
    BY <1>6, <2>2, UnsubscribeFrame, Zenon
<1>7. CASE m \in Connacks
  BY <1>7, ConnackFrame, Zenon
<1>8. CASE m \in Subacks
  BY <1>8, SubackFrame, Zenon
<1>9. CASE m \in Plain
  BY <1>9, PlainFrame, Zenon
<1> QED
  BY <1>1, <1>2, <1>3, <1>4, <1>5, <1>6, <1>7, <1>8, <1>9, Zenon DEF Message

(* A length in k bytes, which in its own number of bytes is what is encoded. *)
LEMMA StretchedIs ==
  ASSUME NEW n \in 0..MaxRemaining, NEW k \in 1..4
  PROVE  /\ Stretched(n, k) \in Seq(Byte) /\ Len(Stretched(n, k)) = k
         /\ \A i \in 1..k : Stretched(n, k)[i] = Digit(n, i) + (IF i < k THEN 128 ELSE 0)
         /\ k = EncodedSize(n) => Stretched(n, k) = MQTTPacket_encode(n)
<1> DEFINE f == [i \in 1..k |-> Digit(n, i) + (IF i < k THEN 128 ELSE 0)]
<1>1. ASSUME NEW i \in 1..k
      PROVE  Digit(n, i) + (IF i < k THEN 128 ELSE 0) \in Byte
  <2>1. Digit(n, i) \in Nat /\ Digit(n, i) < 128
    <3>1. i \in 1..4
      BY SMT
    <3> QED
      BY <3>1, DigitRange
  <2>2. /\ Digit(n, i) + (IF i < k THEN 128 ELSE 0) \in Nat
        /\ Digit(n, i) + (IF i < k THEN 128 ELSE 0) < 256
    BY <2>1, SMT
  <2> QED
    BY <2>2, ByteIs
<1>2. f \in [1..k -> Byte]
  BY <1>1, SMT
<1>3. f \in Seq(Byte) /\ Len(f) = k
  BY <1>2, SMT
<1>4. f = Stretched(n, k)
  BY Zenon DEF Stretched
<1>5. k = EncodedSize(n) => f = MQTTPacket_encode(n)
  BY Zenon DEF MQTTPacket_encode
<1>6. \A i \in 1..k : f[i] = Digit(n, i) + (IF i < k THEN 128 ELSE 0)
  BY Zenon
<1> QED
  BY <1>3, <1>4, <1>5, <1>6, Zenon

(* A packet on the wire, with its length in k bytes. *)
Wire(h, n, k, body) == <<h>> \o Stretched(n, k) \o body

LEMMA WireType ==
  ASSUME NEW h \in Byte, NEW n \in 0..MaxRemaining, NEW w \in EncodedSize(n)..4,
         NEW body \in Seq(Byte)
  PROVE  /\ Wire(h, n, w, body) \in Seq(Byte)
         /\ Len(Wire(h, n, w, body)) = 1 + w + Len(body)
         /\ w \in 1..4
<1>1. w \in 1..4
  BY SizeRange, SMT
<1>2. Stretched(n, w) \in Seq(Byte) /\ Len(Stretched(n, w)) = w
  BY <1>1, StretchedIs
<1>3. <<h>> \in Seq(Byte) /\ Len(<<h>>) = 1
  BY SMT
<1> QED
  BY <1>1, <1>2, <1>3, JoinThree DEF Wire

(* What the far end writes for a message. *)
LEMMA WireIs ==
  ASSUME NEW m \in Messages, NEW size \in SendBufs, NEW k \in Forms,
         Serialize(m, size) # BufferTooShort,
         NEW h, NEW n, NEW body, FrameIs(m, h, n, body)
  PROVE  /\ n \in 0..MaxRemaining /\ Serialize(m, size) = Packet(h, n, body)
         /\ \E w \in EncodedSize(n)..4 :
              OnTheWire(Serialize(m, size), k) = Wire(h, n, w, body)
         /\ size <= BufLen => 1 + EncodedSize(n) + n <= BufLen
<1>1. size \in Nat /\ size <= MaxRemaining + 5 /\ k \in 1..4 /\ BufLen \in Nat
  <2>1. size \in 0..(MaxRemaining + 5)
    BY ReaderAssumption
  <2>2. \A x \in Nat : \A y \in 0..x : y \in Nat /\ y <= x
    BY SMT
  <2>3. MaxRemaining + 5 \in Nat
    BY MaxIs, SMT
  <2> QED
    BY <2>1, <2>2, <2>3, ReaderAssumption
<1>2. n \in 0..MaxRemaining /\ MQTTPacket_len(n) <= size /\ Serialize(m, size) = Packet(h, n, body)
  BY <1>1, FrameFits
<1>3. h \in Byte /\ body \in Seq(Byte) /\ Len(body) = n
  BY DEF FrameIs
<1> DEFINE packet == Packet(h, n, body)
           enc == EncodedSize(n)
<1>4. /\ packet[1] = h /\ Contents(packet) = [rc |-> enc, first |-> 2 + enc, last |-> 1 + enc + n]
      /\ ContentsOf(packet) = body
  BY <1>2, <1>3, PacketIs
<1>5. enc \in 1..4 /\ n \in Nat
  BY <1>2, SizeRange, LengthIs
<1>6. \E w \in enc..4 : OnTheWire(packet, k) = Wire(h, n, w, body)
  <2> DEFINE c == Contents(packet)
  <2>1. c.rc = enc /\ c.last - c.first + 1 = n
    <3>1. c.rc = enc /\ c.first = 2 + enc /\ c.last = 1 + enc + n
      BY <1>4
    <3> HIDE DEF c
    <3>2. (1 + enc + n) - (2 + enc) + 1 = n
      BY <1>5, SMT
    <3> QED
      BY <3>1, <3>2, Zenon
  <2>2. OnTheWire(packet, k) =
          IF k <= c.rc THEN packet
          ELSE <<packet[1]>> \o Stretched(c.last - c.first + 1, k) \o ContentsOf(packet)
    BY Zenon DEF OnTheWire
  <2> HIDE DEF c
  <2>3. CASE k <= enc
    <3>1. OnTheWire(packet, k) = packet
      BY <2>1, <2>2, <2>3, Zenon
    <3>2. Stretched(n, enc) = MQTTPacket_encode(n)
      BY <1>2, <1>5, StretchedIs
    <3>3. packet = Wire(h, n, enc, body)
      BY <3>2, Zenon DEF Wire, Packet
    <3>4. enc \in enc..4
      BY <1>5, SMT
    <3> QED
      BY <3>1, <3>3, <3>4
  <2>4. CASE ~(k <= enc)
    <3>1. OnTheWire(packet, k) = Wire(h, n, k, body)
      BY <1>4, <2>1, <2>2, <2>4, Zenon DEF Wire
    <3>2. k \in enc..4
      BY <1>1, <1>5, <2>4, SMT
    <3> QED
      BY <3>1, <3>2
  <2> QED
    BY <2>3, <2>4
<1>7. size <= BufLen => 1 + enc + n <= BufLen
  <2> DEFINE len == MQTTPacket_len(n)
  <2>1. Len(MQTTPacket_encode(n)) = enc
    BY <1>2, EncodeType
  <2>2. len \in (1 + enc + n)..(1 + enc + n + 1)
    BY <1>2, <2>1, LenIsEnough, Zenon
  <2>3. len <= size
    BY <1>2
  <2> HIDE DEF len, enc
  <2> QED
    BY <1>1, <1>5, <2>2, <2>3, SMT
<1> QED
  BY <1>2, <1>6, <1>7, Zenon

(* What the reader makes of it. *)
LEMMA CanonicalIs ==
  ASSUME NEW m, NEW h, NEW n \in 0..MaxRemaining, NEW body, FrameIs(m, h, n, body)
  PROVE  /\ Canonical(m) = Packet(h, n, body) /\ Canonical(m) # <<>>
         /\ Serialize(m, MaxRemaining + 5) = Packet(h, n, body)
<1>1. h \in Byte /\ body \in Seq(Byte) /\ Len(body) = n
  BY DEF FrameIs
<1>2. Packet(h, n, body) # <<>>
  BY <1>1, PacketIs
<1>3. n \in Nat /\ n <= MaxRemaining /\ MaxRemaining \in Nat /\ BufLen \in Nat /\ BufLen >= 5
  BY MaxIs, ReaderAssumption, SMT
<1>4. ASSUME NEW buflen \in Nat, buflen >= MaxRemaining + 5
      PROVE  Serialize(m, buflen) = Packet(h, n, body)
  <2>1. Serialize(m, buflen) = Serialized(h, n, body, buflen)
    BY DEF FrameIs
  <2>2. ~(MQTTPacket_len(n) > buflen)
    BY <1>3, <1>4, SMT DEF MQTTPacket_len
  <2> QED
    BY <2>1, <2>2, Zenon DEF Serialized, Packet
<1>5. /\ BufLen + MaxRemaining \in Nat /\ BufLen + MaxRemaining >= MaxRemaining + 5
      /\ MaxRemaining + 5 \in Nat /\ MaxRemaining + 5 >= MaxRemaining + 5
  BY <1>3, SMT
<1> QED
  BY <1>2, <1>4, <1>5 DEF Canonical

-----------------------------------------------------------------------------
(* Types and the buffer.                                                   *)

\* Between two calls in the middle of a length: the header is in the buffer, and
\* the digits read so far are less than the place of the next one.
LengthInv ==
  trp.state = 1 =>
    /\ Len(buf) = 1 /\ trp.len \in 0..3
    /\ trp.multiplier = Power[trp.len + 1] /\ trp.rem_len < trp.multiplier

\* Between two calls in the middle of the contents: header and length are there.
BodyInv == trp.state = 2 => trp.len >= 2

IInv == TypeOK /\ FitsBuffer /\ LengthInv /\ BodyInv

LEMMA BytesAre ==
  ASSUME NEW c \in Byte
  PROVE  /\ c \in Nat /\ c < 256
         /\ c % 128 \in Nat /\ c % 128 < 128
         /\ c \div 16 \in 0..15
<1>1. c \in Nat
  BY SMT DEF Byte
<1>2. c < 256
  BY <1>1, ByteIs
<1> QED
  BY <1>1, <1>2, SMT

\* Reading on a sequence of bytes leaves one.
LEMMA SplitStream ==
  ASSUME NEW s \in Seq(Byte), NEW k \in Nat, k <= Len(s)
  PROVE  /\ SubSeq(s, 1, k) \in Seq(Byte) /\ Len(SubSeq(s, 1, k)) = k
         /\ SubSeq(s, k + 1, Len(s)) \in Seq(Byte)
BY SMT

\* What was read is the beginning of them.
LEMMA PrefixIs ==
  ASSUME NEW s \in Seq(Byte), NEW k \in Nat, k <= Len(s)
  PROVE  \A j \in 1..k : SubSeq(s, 1, k)[j] = s[j]
BY SMT

LEMMA InitInv == Init => IInv
<1> SUFFICES ASSUME Init PROVE IInv
  OBVIOUS
<1>1. trp = [state |-> 0, len |-> 0, rem_len |-> 0, multiplier |-> 1]
  BY DEF Init
<1>2. 0 \in 0..BufLen /\ 0 \in 0..MaxRemaining /\ 0 \in 0..MaxFaults
  BY ReaderAssumption, MaxIs, SMT
<1>3. 1 \in {Power[i] : i \in 1..5}
  BY Powers, SMT
<1>4. trp \in [state: 0..2, len: 0..BufLen, rem_len: 0..MaxRemaining,
               multiplier: {Power[i] : i \in 1..5}]
  BY <1>1, <1>2, <1>3, SMT
<1>5. TypeOK
  BY <1>2, <1>4, SMT DEF Init, TypeOK
<1>6. FitsBuffer /\ LengthInv /\ BodyInv
  BY <1>1, ReaderAssumption, SMT DEF Init, FitsBuffer, LengthInv, BodyInv
<1> QED
  BY <1>5, <1>6 DEF IInv

TrpSet == [state: 0..2, len: 0..BufLen, rem_len: 0..MaxRemaining,
           multiplier: {Power[i] : i \in 1..5}]

LEMMA TrpState ==
  ASSUME NEW A, NEW B, NEW C, NEW D,
         NEW r \in [state: A, len: B, rem_len: C, multiplier: D], NEW a \in A
  PROVE  LET e == [r EXCEPT !.state = a] IN
           e \in [state: A, len: B, rem_len: C, multiplier: D] /\ e.state = a
BY SMT

LEMMA TrpRecord ==
  ASSUME NEW A, NEW B, NEW C, NEW D, NEW a \in A, NEW b \in B, NEW c \in C, NEW d \in D
  PROVE  [state |-> a, len |-> b, rem_len |-> c, multiplier |-> d]
           \in [state: A, len: B, rem_len: C, multiplier: D]
BY SMT

\* What a step that leaves messages alone has to show of the rest.
LEMMA InvFrom ==
  ASSUME IInv, sent' = sent,
         faults' \in 0..MaxFaults, rc' \in -1..15, got' \in Seq(Seq(Byte)),
         stream' \in Seq(Byte), buf' \in Seq(Byte), Len(buf') <= BufLen,
         trp' \in TrpSet,
         trp'.state = 1 =>
           /\ Len(buf') = 1 /\ trp'.len \in 0..3
           /\ trp'.multiplier = Power[trp'.len + 1] /\ trp'.rem_len < trp'.multiplier,
         trp'.state = 2 =>
           /\ trp'.len >= 2 /\ trp'.len = Len(buf')
           /\ trp'.len + trp'.rem_len <= BufLen
  PROVE  IInv'
<1>1. TypeOK'
  BY DEF IInv, TypeOK, TrpSet
<1>2. FitsBuffer'
  BY DEF FitsBuffer
<1>3. LengthInv' /\ BodyInv'
  BY DEF LengthInv, BodyInv
<1> QED
  BY <1>1, <1>2, <1>3 DEF IInv

\* The reader stops, whatever it returns and whatever it leaves in its state.
LEMMA ExitInv ==
  ASSUME IInv, NEW left \in TrpSet, NEW result \in -1..15, Exit(left, result), sent' = sent,
         faults' \in 0..MaxFaults, got' \in Seq(Seq(Byte)),
         stream' \in Seq(Byte), buf' \in Seq(Byte), Len(buf') <= BufLen
  PROVE  IInv'
<1>2. trp' = [left EXCEPT !.state = 0] /\ rc' = result
  BY DEF Exit
<1>3. trp' \in TrpSet /\ trp'.state = 0
  <2>1. 0 \in 0..2
    BY SMT
  <2> QED
    BY <1>2, <2>1, TrpState, Zenon DEF TrpSet
<1>4. trp'.state # 1 /\ trp'.state # 2
  BY <1>3, SMT
<1> QED
  BY <1>2, <1>3, <1>4, InvFrom

LEMMA FailInv ==
  ASSUME IInv, NEW left \in TrpSet, Fail(left), sent' = sent, faults' \in 0..MaxFaults,
         stream' \in Seq(Byte), buf' \in Seq(Byte), Len(buf') <= BufLen
  PROVE  IInv'
<1>1. Exit(left, -1) /\ got' = got
  BY DEF Fail
<1>2. got' \in Seq(Seq(Byte)) /\ -1 \in -1..15
  BY <1>1, SMT DEF IInv, TypeOK
<1> QED
  BY <1>1, <1>2, ExitInv

\* What it returns with a packet is the packet's type.
LEMMA DoneInv ==
  ASSUME IInv, NEW left \in TrpSet, Done(left), sent' = sent, faults' \in 0..MaxFaults,
         stream' \in Seq(Byte), buf' \in Seq(Byte), Len(buf') \in 1..BufLen
  PROVE  IInv'
<1>1. buf'[1] \in Byte
  BY SMT
<1>2. buf'[1] \div 16 \in -1..15
  <2>1. buf'[1] \div 16 \in 0..15
    BY <1>1, BytesAre, Zenon
  <2> QED
    BY <2>1, SMT
<1>3. Len(buf') <= BufLen
  BY ReaderAssumption, SMT
<1>4. got' = Append(got, buf') /\ got \in Seq(Seq(Byte))
  BY DEF Done, IInv, TypeOK
<1>5. got' \in Seq(Seq(Byte))
  BY <1>4, SMT
<1>6. Exit(left, buf'[1] \div 16)
  BY DEF Done
<1> QED
  BY <1>2, <1>3, <1>5, <1>6, ExitInv

\* The first byte of a packet.
LEMMA HeaderStep ==
  ASSUME IInv, ReadHeader, sent' = sent, faults' = faults
  PROVE  IInv'
<1>1. stream \in Seq(Byte) /\ stream # <<>> /\ got \in Seq(Seq(Byte)) /\ faults \in 0..MaxFaults
  BY DEF IInv, TypeOK, ReadHeader
<1>2. Head(stream) \in Byte /\ Tail(stream) \in Seq(Byte)
  BY <1>1, SMT
<1>3. buf' = <<Head(stream)>> /\ stream' = Tail(stream) /\ rc' = 0 /\ got' = got
  BY DEF ReadHeader
<1>4. trp' = [state |-> 1, len |-> 0, rem_len |-> 0, multiplier |-> 1]
  BY DEF ReadHeader
<1>5. buf' \in Seq(Byte) /\ Len(buf') = 1 /\ Len(buf') <= BufLen
  BY <1>2, <1>3, ReaderAssumption, SMT
<1>6. 0 \in 0..BufLen /\ 0 \in 0..MaxRemaining /\ 1 \in {Power[i] : i \in 1..5}
  BY ReaderAssumption, MaxIs, Powers, SMT
<1>7. trp' \in TrpSet
  BY <1>4, <1>6, SMT DEF TrpSet
<1>8. /\ trp'.state = 1 /\ trp'.len \in 0..3
      /\ trp'.multiplier = Power[trp'.len + 1] /\ trp'.rem_len < trp'.multiplier
  BY <1>4, Powers, SMT
<1>9. rc' \in -1..15 /\ trp'.state # 2
  BY <1>3, <1>8, SMT
<1> QED
  BY <1>1, <1>2, <1>3, <1>5, <1>7, <1>8, <1>9, InvFrom

\* One more digit keeps the value below the place of the digit after it.
LEMMA OneMoreDigit ==
  ASSUME NEW l \in 0..3, NEW v \in Nat, v < Power[l + 1], NEW d \in Nat, d < 128
  PROVE  /\ v + d * Power[l + 1] \in 0..MaxRemaining
         /\ v + d * Power[l + 1] < Power[l + 2]
         /\ Power[l + 1] * 128 = Power[l + 2]
         /\ Power[l + 2] \in {Power[i] : i \in 1..5}
<1>1. MaxRemaining \in Nat /\ MaxRemaining >= 268435455
  BY SMT DEF MaxRemaining
<1>2. CASE l = 0
  <2>1. Power[l + 1] = 1 /\ Power[l + 2] = 128
    BY <1>2, Powers, SMT
  <2>2. v + d * 1 \in 0..MaxRemaining /\ v + d * 1 < 128 /\ 1 * 128 = 128
    BY <1>1, <2>1, SMT
  <2>3. Power[l + 2] \in {Power[i] : i \in 1..5}
    BY <1>2, SMT
  <2> QED
    BY <2>1, <2>2, <2>3, SMT
<1>3. CASE l = 1
  <2>1. Power[l + 1] = 128 /\ Power[l + 2] = 16384
    BY <1>3, Powers, SMT
  <2>2. v + d * 128 \in 0..MaxRemaining /\ v + d * 128 < 16384 /\ 128 * 128 = 16384
    BY <1>1, <2>1, SMT
  <2>3. Power[l + 2] \in {Power[i] : i \in 1..5}
    BY <1>3, SMT
  <2> QED
    BY <2>1, <2>2, <2>3, SMT
<1>4. CASE l = 2
  <2>1. Power[l + 1] = 16384 /\ Power[l + 2] = 2097152
    BY <1>4, Powers, SMT
  <2>2. v + d * 16384 \in 0..MaxRemaining /\ v + d * 16384 < 2097152 /\ 16384 * 128 = 2097152
    BY <1>1, <2>1, SMT
  <2>3. Power[l + 2] \in {Power[i] : i \in 1..5}
    BY <1>4, SMT
  <2> QED
    BY <2>1, <2>2, <2>3, SMT
<1>5. CASE l = 3
  <2>1. Power[l + 1] = 2097152 /\ Power[l + 2] = 268435456
    BY <1>5, Powers, SMT
  <2>2. v + d * 2097152 \in 0..MaxRemaining /\ v + d * 2097152 < 268435456 /\ 2097152 * 128 = 268435456
    BY <1>1, <2>1, SMT
  <2>3. Power[l + 2] \in {Power[i] : i \in 1..5}
    BY <1>5, SMT
  <2> QED
    BY <2>1, <2>2, <2>3, SMT
<1> QED
  BY <1>2, <1>3, <1>4, <1>5, SMT

\* The last byte of a length: this is where the size of the buffer is looked at.
LEMMA LengthReadStep ==
  ASSUME IInv, trp.state = 1, NEW n \in 0..MaxRemaining, LengthRead(n),
         sent' = sent, faults' = faults, stream' \in Seq(Byte)
  PROVE  IInv'
<1> DEFINE code == MQTTPacket_encode(n)
           written == <<buf[1]>> \o code
           left == [state |-> 2, len |-> Len(written), rem_len |-> n,
                    multiplier |-> trp.multiplier * 128]
<1>1. /\ buf \in Seq(Byte) /\ Len(buf) = 1 /\ faults \in 0..MaxFaults
      /\ got \in Seq(Seq(Byte)) /\ trp \in TrpSet
  BY DEF IInv, TypeOK, LengthInv, TrpSet
<1>2. buf[1] \in Byte
  <2>1. buf \in Seq(Byte) /\ 1 \in 1..Len(buf)
    BY <1>1
  <2> QED
    BY <2>1, SMT
<1>3. code \in Seq(Byte) /\ Len(code) \in 1..4
  BY EncodeType, SizeRange
<1> HIDE DEF code
<1>4. written \in Seq(Byte) /\ Len(written) = 1 + Len(code)
  BY <1>2, <1>3, SMT
<1>5. Len(written) \in 2..5 /\ Len(written) \in 1..BufLen /\ Len(written) <= BufLen
      /\ Len(written) \in 0..BufLen
  <2>1. \A l \in 1..4 : LET w == 1 + l IN
          w \in 2..5 /\ w \in 1..BufLen /\ w <= BufLen /\ w \in 0..BufLen
    BY ReaderAssumption, SMT
  <2> QED
    BY <1>3, <1>4, <2>1, Zenon
<1>6. /\ buf' = written
      /\ IF n + Len(written) > BufLen THEN Fail(left)
         ELSE IF n = 0 THEN Done(left) ELSE Again(left)
  BY Zenon DEF LengthRead, code
<1> HIDE DEF written
<1>7. left \in TrpSet /\ left.state = 2 /\ left.len = Len(written) /\ left.rem_len = n
  <2>1. 2 \in 0..2 /\ 0 \in Nat /\ 0 < 128
    BY SMT
  <2>2. trp.multiplier * 128 \in {Power[i] : i \in 1..5}
    <3>1. trp.len \in 0..3 /\ trp.multiplier = Power[trp.len + 1]
      BY DEF IInv, LengthInv
    <3>2. 0 < Power[trp.len + 1]
      BY <3>1, Powers, SMT
    <3> QED
      BY <2>1, <3>1, <3>2, OneMoreDigit, Zenon
  <2>3. left \in TrpSet
    BY <1>5, <2>1, <2>2, TrpRecord, Zenon DEF TrpSet
  <2> QED
    BY <2>3
<1> HIDE DEF left
<1>8. CASE n + Len(written) > BufLen
  BY <1>1, <1>4, <1>5, <1>6, <1>7, <1>8, FailInv, Zenon
<1>9. CASE ~(n + Len(written) > BufLen) /\ n = 0
  BY <1>1, <1>4, <1>5, <1>6, <1>7, <1>9, DoneInv, Zenon
<1>10. CASE ~(n + Len(written) > BufLen) /\ n # 0
  <2>1. trp' = left /\ rc' = 0 /\ got' = got
    BY <1>6, <1>10, Zenon DEF Again
  <2>2. trp'.state = 2 /\ trp'.len = Len(written) /\ trp'.rem_len = n
    BY <1>7, <2>1, Zenon
  <2>3. trp'.len >= 2 /\ trp'.len = Len(buf') /\ trp'.len + trp'.rem_len <= BufLen
    <3>1. buf' = written /\ n \in Nat
      BY <1>6, LengthIs
    <3>2. BufLen \in Nat /\ Len(written) \in 2..5
      BY <1>5, ReaderAssumption
    <3>3. trp'.len >= 2 /\ trp'.len = Len(buf')
      <4>1. \A l \in 2..5 : l >= 2
        BY SMT
      <4> QED
        BY <2>2, <3>1, <3>2, <4>1, Zenon
    <3>4. Len(written) + n <= BufLen
      <4>1. \A l \in 2..5 : ~(n + l > BufLen) => l + n <= BufLen
        BY <3>1, <3>2, SMT
      <4> QED
        BY <1>10, <3>2, <4>1, Zenon
    <3> QED
      BY <2>2, <3>3, <3>4, Zenon
  <2>4. rc' \in -1..15 /\ trp'.state # 1
    BY <2>1, <2>2, SMT
  <2> QED
    BY <1>1, <1>4, <1>5, <1>6, <1>7, <2>1, <2>2, <2>3, <2>4, InvFrom, Zenon
<1> QED
  BY <1>8, <1>9, <1>10, Zenon

\* A byte of the length, the last one or not.
LEMMA LengthStep ==
  ASSUME IInv, ReadLength, sent' = sent, faults' = faults
  PROVE  IInv'
<1> DEFINE c == Head(stream)
           n == trp.rem_len + (c % 128) * trp.multiplier
           left == [state |-> 1, len |-> trp.len + 1, rem_len |-> n,
                    multiplier |-> trp.multiplier * 128]
<1>1. /\ trp.state = 1 /\ stream # <<>> /\ stream \in Seq(Byte) /\ faults \in 0..MaxFaults
      /\ got \in Seq(Seq(Byte)) /\ buf \in Seq(Byte)
  BY DEF IInv, TypeOK, ReadLength
<1>2. /\ Len(buf) = 1 /\ trp.len \in 0..3
      /\ trp.multiplier = Power[trp.len + 1] /\ trp.rem_len < trp.multiplier
  BY <1>1 DEF IInv, LengthInv
<1>3. trp.rem_len \in Nat
  <2>1. trp \in TrpSet
    BY DEF IInv, TypeOK, TrpSet
  <2>2. trp.rem_len \in 0..MaxRemaining
    BY <2>1 DEF TrpSet
  <2> QED
    BY <2>2, SMT
<1>4. c \in Byte /\ Tail(stream) \in Seq(Byte)
  BY <1>1, SMT
<1>5. c % 128 \in Nat /\ c % 128 < 128
  BY <1>4, BytesAre
<1>6. /\ n \in 0..MaxRemaining /\ n < Power[trp.len + 2]
      /\ trp.multiplier * 128 = Power[trp.len + 2]
      /\ Power[trp.len + 2] \in {Power[i] : i \in 1..5}
  BY <1>2, <1>3, <1>5, OneMoreDigit, Zenon
<1>7. left.state = 1 /\ left.len = trp.len + 1 /\ left.rem_len = n
      /\ left.multiplier = trp.multiplier * 128
  OBVIOUS
<1>8. /\ stream' = Tail(stream)
      /\ IF ~Continues(c) THEN LengthRead(n)
         ELSE /\ buf' = buf
              /\ IF left.len >= MAX_NO_OF_REMAINING_LENGTH_BYTES THEN Fail(left) ELSE Again(left)
  BY Zenon DEF ReadLength
<1> HIDE DEF c, n
<1>9. trp.len + 1 \in 0..BufLen /\ (trp.len + 1) + 1 = trp.len + 2
  BY <1>2, ReaderAssumption, SMT
<1>10. left \in TrpSet
  <2>1. 1 \in 0..2
    BY SMT
  <2> QED
    BY <1>6, <1>9, <2>1, TrpRecord, Zenon DEF TrpSet
<1> HIDE DEF left
<1>11. CASE ~Continues(c)
  BY <1>1, <1>4, <1>6, <1>8, <1>11, LengthReadStep, Zenon
<1>12. CASE Continues(c) /\ left.len >= MAX_NO_OF_REMAINING_LENGTH_BYTES
  <2>1. Fail(left) /\ buf' = buf
    BY <1>8, <1>12, Zenon
  <2>2. Len(buf) <= BufLen
    BY DEF IInv, FitsBuffer
  <2> QED
    BY <1>1, <1>4, <1>8, <1>10, <2>1, <2>2, FailInv, Zenon
<1>13. CASE Continues(c) /\ ~(left.len >= MAX_NO_OF_REMAINING_LENGTH_BYTES)
  <2>1. trp' = left /\ rc' = 0 /\ got' = got /\ buf' = buf
    BY <1>8, <1>13, Zenon DEF Again
  <2>2. trp.len + 1 \in 0..3
    BY <1>2, <1>7, <1>13, SMT DEF MAX_NO_OF_REMAINING_LENGTH_BYTES
  <2>3. /\ Len(buf') = 1 /\ trp'.len \in 0..3
        /\ trp'.multiplier = Power[trp'.len + 1] /\ trp'.rem_len < trp'.multiplier
    BY <1>2, <1>6, <1>7, <1>9, <2>1, <2>2, Zenon
  <2>4. rc' \in -1..15 /\ trp'.state # 2 /\ Len(buf') <= BufLen
    <3>1. trp'.state = 1
      BY <1>7, <2>1, Zenon
    <3>2. Len(buf') = 1
      BY <1>2, <2>1, Zenon
    <3> QED
      BY <2>1, <3>1, <3>2, ReaderAssumption, SMT
  <2> QED
    BY <1>1, <1>4, <1>8, <1>10, <2>1, <2>3, <2>4, InvFrom, Zenon
<1> QED
  BY <1>11, <1>12, <1>13, Zenon

\* Some of the contents: what is in the buffer and what is still asked for
\* together stay the same.
LEMMA BodyStep ==
  ASSUME IInv, NEW k \in Portions, ReadBody(k), sent' = sent, faults' = faults
  PROVE  IInv'
<1> DEFINE left == [state |-> 2, len |-> trp.len + k, rem_len |-> trp.rem_len - k,
                    multiplier |-> trp.multiplier]
<1>1. /\ trp.state = 2 /\ stream \in Seq(Byte) /\ faults \in 0..MaxFaults
      /\ got \in Seq(Seq(Byte)) /\ buf \in Seq(Byte) /\ trp \in TrpSet
  BY DEF IInv, TypeOK, ReadBody, TrpSet
<1>2. /\ trp.len = Len(buf) /\ trp.len >= 2 /\ trp.len + trp.rem_len <= BufLen
  BY <1>1 DEF IInv, FitsBuffer, BodyInv
<1>3. trp.rem_len \in Nat /\ trp.rem_len <= MaxRemaining /\ trp.len \in Nat
  <2>1. trp.rem_len \in 0..MaxRemaining /\ trp.len \in 0..BufLen
    BY <1>1 DEF TrpSet
  <2> QED
    BY <2>1, MaxIs, ReaderAssumption, SMT
<1>4. k \in Nat /\ k <= trp.rem_len
  BY <1>3, ReaderAssumption, SMT DEF Portions
<1>5. k <= Len(stream)
  BY DEF ReadBody
<1>6. /\ SubSeq(stream, 1, k) \in Seq(Byte) /\ Len(SubSeq(stream, 1, k)) = k
      /\ SubSeq(stream, k + 1, Len(stream)) \in Seq(Byte)
  BY <1>1, <1>4, <1>5, SplitStream, Zenon
<1>7. /\ buf' = buf \o SubSeq(stream, 1, k)
      /\ stream' = SubSeq(stream, k + 1, Len(stream))
      /\ IF k = trp.rem_len THEN Done(left) ELSE Again(left)
  BY Zenon DEF ReadBody
<1>8. buf' \in Seq(Byte) /\ Len(buf') = trp.len + k
  BY <1>1, <1>2, <1>6, <1>7, SMT
<1>9. /\ trp.len + k \in 1..BufLen /\ trp.len + k \in 0..BufLen
      /\ trp.len + k <= BufLen /\ trp.len + k >= 2
      /\ trp.rem_len - k \in 0..MaxRemaining
      /\ (trp.len + k) + (trp.rem_len - k) <= BufLen
  BY <1>2, <1>3, <1>4, MaxIs, ReaderAssumption, SMT
<1>10. left \in TrpSet /\ left.state = 2 /\ left.len = trp.len + k
       /\ left.rem_len = trp.rem_len - k
  <2>1. 2 \in 0..2
    BY SMT
  <2>2. trp.multiplier \in {Power[i] : i \in 1..5}
    BY <1>1 DEF TrpSet
  <2>3. left \in TrpSet
    BY <1>9, <2>1, <2>2, TrpRecord, Zenon DEF TrpSet
  <2> QED
    BY <2>3
<1> HIDE DEF left
<1>11. CASE k = trp.rem_len
  BY <1>1, <1>6, <1>7, <1>8, <1>9, <1>10, <1>11, DoneInv, Zenon
<1>12. CASE k # trp.rem_len
  <2>1. trp' = left /\ rc' = 0 /\ got' = got
    BY <1>7, <1>12, Zenon DEF Again
  <2>2. rc' \in -1..15 /\ trp'.state # 1
    BY <1>10, <2>1, SMT
  <2> QED
    BY <1>1, <1>6, <1>7, <1>8, <1>9, <1>10, <2>1, <2>2, InvFrom, Zenon
<1> QED
  BY <1>11, <1>12

\* The far end only adds bytes.
LEMMA FarEndStep ==
  ASSUME IInv,
         SendBad \/ \E m \in Messages, size \in SendBufs, k \in Forms : Send(m, size, k)
  PROVE  IInv'
<1>1. stream \in Seq(Byte) /\ sent \in Seq(Messages) /\ faults \in 0..MaxFaults
  BY DEF IInv, TypeOK
<1>2. UNCHANGED <<trp, buf, got, rc>>
  BY DEF SendBad, Send
<1>3. Fault => faults' \in 0..MaxFaults
  BY <1>1, ReaderAssumption, SMT DEF Fault
<1>4. stream' \in Seq(Byte) /\ sent' \in Seq(Messages) /\ faults' \in 0..MaxFaults
  <2>1. CASE SendBad
    <3>1. Header("PUBLISH", 0, 0, 0) \in Byte
      <4>1. "PUBLISH" \in PacketTypes /\ 0 \in Bit /\ 0 \in 0..2
        BY SMT DEF PacketTypes, Bit
      <4> QED
        BY <4>1, HeaderIs
    <3>2. <<Header("PUBLISH", 0, 0, 0), 255, 255, 255, 255, 1>> \in Seq(Byte)
      <4>1. 255 \in Byte /\ 1 \in Byte
        BY ByteIs, SMT
      <4> QED
        BY <3>1, <4>1, SMT
    <3> QED
      BY <1>1, <1>3, <2>1, <3>2, SMT DEF SendBad
  <2>2. ASSUME NEW m \in Messages, NEW size \in SendBufs, NEW k \in Forms, Send(m, size, k)
        PROVE  stream' \in Seq(Byte) /\ sent' \in Seq(Messages) /\ faults' \in 0..MaxFaults
    <3> DEFINE packet == Serialize(m, size)
               wire == OnTheWire(packet, k)
    <3>1. wire \in Seq(Byte)
      <4>1. Serialize(m, size) # BufferTooShort
        BY <2>2 DEF Send
      <4>2. PICK h, n, body : FrameIs(m, h, n, body)
        BY MessageFrame
      <4>3. h \in Byte /\ body \in Seq(Byte)
        BY <4>2 DEF FrameIs
      <4>4. /\ n \in 0..MaxRemaining
            /\ \E w \in EncodedSize(n)..4 : OnTheWire(Serialize(m, size), k) = Wire(h, n, w, body)
        <5> HIDE DEF packet, wire
        <5> QED
          BY <4>1, <4>2, WireIs
      <4>5. PICK w \in EncodedSize(n)..4 : wire = Wire(h, n, w, body)
        BY <4>4
      <4> QED
        BY <4>3, <4>4, <4>5, WireType
    <3>2. stream' = stream \o wire /\ sent' = Append(sent, m)
      BY <2>2 DEF Send
    <3> HIDE DEF wire
    <3>3. stream' \in Seq(Byte) /\ sent' \in Seq(Messages)
      BY <1>1, <3>1, <3>2, SMT
    <3>4. faults' \in 0..MaxFaults
      BY <1>1, <1>3, <2>2, Zenon DEF Send
    <3> QED
      BY <3>3, <3>4
  <2> QED
    BY <2>1, <2>2, Zenon
<1>5. TypeOK'
  BY <1>2, <1>4, Zenon DEF IInv, TypeOK
<1>6. FitsBuffer' /\ LengthInv' /\ BodyInv'
  BY <1>2, Zenon DEF IInv, FitsBuffer, LengthInv, BodyInv
<1> QED
  BY <1>5, <1>6 DEF IInv

\* A connection is given up and the next one begins.
LEMMA ReconnectStep == IInv /\ Reconnect => IInv'
<1> SUFFICES ASSUME IInv, Reconnect PROVE IInv'
  OBVIOUS
<1>1. rc' = 0 /\ sent' = <<>> /\ stream' = <<>> /\ got' = <<>> /\ UNCHANGED <<trp, buf, faults>>
  BY DEF Reconnect
<1>2. /\ sent' \in Seq(Messages) /\ stream' \in Seq(Byte) /\ got' \in Seq(Seq(Byte))
      /\ rc' \in -1..15
  BY <1>1, SMT
<1>3. TypeOK'
  BY <1>1, <1>2, Zenon DEF IInv, TypeOK
<1>4. FitsBuffer' /\ LengthInv' /\ BodyInv'
  BY <1>1, Zenon DEF IInv, FitsBuffer, LengthInv, BodyInv
<1> QED
  BY <1>3, <1>4 DEF IInv

LEMMA ErrorStep == IInv /\ ReadError => IInv'
<1> SUFFICES ASSUME IInv, ReadError PROVE IInv'
  OBVIOUS
<1>1. Fault /\ Fail(trp) /\ UNCHANGED <<sent, stream, buf>> /\ trp \in TrpSet
  BY DEF ReadError, IInv, TypeOK, TrpSet
<1>2. stream \in Seq(Byte) /\ buf \in Seq(Byte) /\ Len(buf) <= BufLen /\ faults \in 0..MaxFaults
  BY DEF IInv, TypeOK, FitsBuffer
<1>3. faults' \in 0..MaxFaults
  BY <1>1, <1>2, ReaderAssumption, SMT DEF Fault
<1> QED
  BY <1>1, <1>2, <1>3, FailInv, Zenon

LEMMA NextInv == IInv /\ [Next]_vars => IInv'
<1> SUFFICES ASSUME IInv, [Next]_vars PROVE IInv'
  OBVIOUS
<1>1. CASE Read
  <2>1. sent' = sent /\ faults' = faults
    BY <1>1 DEF Read
  <2>2. CASE ReadHeader
    BY <2>1, <2>2, HeaderStep
  <2>3. CASE ReadLength
    BY <2>1, <2>3, LengthStep
  <2>4. CASE \E k \in Portions : ReadBody(k)
    BY <2>1, <2>4, BodyStep
  <2> QED
    BY <1>1, <2>2, <2>3, <2>4 DEF Read
<1>2. CASE SendBad \/ \E m \in Messages, size \in SendBufs, k \in Forms : Send(m, size, k)
  BY <1>2, FarEndStep
<1>3. CASE ReadError
  BY <1>3, ErrorStep
<1>4. CASE Reconnect
  BY <1>4, ReconnectStep
<1>5. CASE UNCHANGED vars
  <2>1. TypeOK'
    BY <1>5, Zenon DEF IInv, TypeOK, vars
  <2>2. FitsBuffer' /\ LengthInv' /\ BodyInv'
    BY <1>5, Zenon DEF IInv, FitsBuffer, LengthInv, BodyInv, vars
  <2> QED
    BY <2>1, <2>2 DEF IInv
<1> QED
  BY <1>1, <1>2, <1>3, <1>4, <1>5 DEF Next

\* The invariant of the reader.
THEOREM ReaderInvariant == Spec => []IInv
  BY InitInv, NextInv, PTL DEF Spec

\* Every variable keeps its type: the value of a length stays below 2^28 and the
\* multiplier is one of 128^0 to 128^4, whatever bytes a far end sends.
THEOREM ReaderTypeCorrect == Spec => []TypeOK
<1>1. IInv => TypeOK
  BY DEF IInv
<1> QED
  BY <1>1, ReaderInvariant, PTL

\* The reader never asks for more than fits its buffer, of any size and in the
\* middle of any packet, one with a length that does not end included.
THEOREM ReaderFitsBuffer == Spec => []FitsBuffer
<1>1. IInv => FitsBuffer
  BY DEF IInv
<1> QED
  BY <1>1, ReaderInvariant, PTL

-----------------------------------------------------------------------------
(* The bytes of a connection.                                              *)
(*                                                                         *)
(* All that was sent on a connection is a sequence of bytes, and pieces    *)
(* lie on it end to end: the messages sent, each with its header, its      *)
(* length in some number of bytes and its contents.  What the reader has   *)
(* is the pieces it has returned and a part of the next one.               *)

\* A message on the wire: its header, its length, the number of bytes the length
\* takes, and its contents.
Piece == [h: Byte, n: 0..MaxRemaining, k: 1..4, body: Seq(Byte)]

\* The digits of a length that have been read, added up.
Value(n, j) ==
    (IF j > 0 THEN Digit(n, 1) ELSE 0) + (IF j > 1 THEN Digit(n, 2) * 128 ELSE 0)
  + (IF j > 2 THEN Digit(n, 3) * 16384 ELSE 0) + (IF j > 3 THEN Digit(n, 4) * 2097152 ELSE 0)

\* A piece lies on the bytes of the connection after the first a of them.
LiesAt(bytes, a, p) ==
  /\ bytes[a + 1] = p.h
  /\ \A j \in 1..p.k : bytes[a + 1 + j] = Digit(p.n, j) + (IF j < p.k THEN 128 ELSE 0)
  /\ \A j \in 1..p.n : bytes[a + 1 + p.k + j] = p.body[j]

\* The pieces lie on the bytes end to end, from the places at.
Laid(bytes, pieces, at) ==
  /\ Len(at) = Len(pieces) + 1 /\ at[1] = 0
  /\ \A i \in 1..Len(at) : at[i] <= Len(bytes)
  /\ \A i \in 1..Len(pieces) :
       /\ Len(pieces[i].body) = pieces[i].n /\ EncodedSize(pieces[i].n) <= pieces[i].k
       /\ at[i + 1] = at[i] + 1 + pieces[i].k + pieces[i].n
       /\ LiesAt(bytes, at[i], pieces[i])

\* What has been read ends where the rest begins.
Shows(s, bytes) ==
  /\ Len(s) <= Len(bytes)
  /\ \A x \in 1..Len(s) : s[x] = bytes[Len(bytes) - Len(s) + x]

\* The pieces are the messages sent, up to the first length that does not end.
\* Until something goes wrong each of them fits the reader's buffer.
Match(pieces) ==
  /\ Len(pieces) <= Len(sent)
  /\ \A i \in 1..Len(pieces) :
       /\ FrameIs(sent[i], pieces[i].h, pieces[i].n, pieces[i].body)
       /\ faults = 0 => 1 + EncodedSize(pieces[i].n) + pieces[i].n <= BufLen

\* Behind the last piece there is nothing, or a length that does not end.
Ends(bytes, pieces, at) ==
  LET last == at[Len(pieces) + 1] IN
  \/ Len(pieces) = Len(sent) /\ last = Len(bytes)
  \/ /\ faults > 0 /\ last + 5 <= Len(bytes)
     /\ \A j \in 2..5 : bytes[last + j] = 255

\* The reader has read the pieces it has returned and a part p of the next, which
\* is in its buffer and in its counters.
Place(bytes, pieces, at) ==
  LET read == Len(bytes) - Len(stream)
      a    == at[Len(got) + 1]
      p    == pieces[Len(got) + 1] IN
  /\ Len(got) <= Len(pieces)
  /\ trp.state = 0 => read = a
  /\ trp.state = 1 =>
       /\ read = a + 1 + trp.len
       /\ Len(got) < Len(pieces) =>
            trp.len < p.k /\ trp.rem_len = Value(p.n, trp.len) /\ buf = <<p.h>>
  /\ trp.state = 2 =>
       /\ Len(got) < Len(pieces) /\ trp.rem_len \in 1..p.n
       /\ read = a + 1 + p.k + (p.n - trp.rem_len)
       /\ buf = Packet(p.h, p.n, SubSeq(p.body, 1, p.n - trp.rem_len))

Conn(bytes, pieces, at) ==
  /\ Laid(bytes, pieces, at) /\ Match(pieces) /\ Ends(bytes, pieces, at)
  /\ Shows(stream, bytes) /\ Place(bytes, pieces, at)

\* There are such bytes, unless the connection is about to be given up.
ConnInv ==
  rc # -1 => \E bytes \in Seq(Byte), pieces \in Seq(Piece), at \in Seq(Nat) :
               Conn(bytes, pieces, at)

\* What was returned is what was sent, with its length in the shortest form.
GotInv == Len(got) <= Len(sent) /\ \A i \in 1..Len(got) : got[i] = Canonical(sent[i])

SentInv == \A i \in 1..Len(sent) : Serialize(sent[i], MaxRemaining + 5) # BufferTooShort

StopInv == rc = -1 => faults > 0 /\ trp.state = 0

\* The invariant of the reader together with its connection.
StreamInv == IInv /\ ConnInv /\ GotInv /\ SentInv /\ StopInv

LEMMA PieceIs ==
  ASSUME NEW p \in Piece
  PROVE  /\ p.h \in Byte /\ p.n \in 0..MaxRemaining /\ p.n \in Nat /\ p.k \in 1..4
         /\ p.body \in Seq(Byte)
<1>1. p.h \in Byte /\ p.n \in 0..MaxRemaining /\ p.k \in 1..4 /\ p.body \in Seq(Byte)
  BY DEF Piece
<1>2. p.n \in Nat
  BY <1>1, LengthIs
<1> QED
  BY <1>1, <1>2

(* One more byte adds one more digit. *)
LEMMA ValueStep ==
  ASSUME NEW n \in 0..MaxRemaining, NEW j \in 0..3
  PROVE  /\ Value(n, 0) = 0
         /\ Value(n, j + 1) = Value(n, j) + Digit(n, j + 1) * Power[j + 1]
<1>1. /\ Digit(n, 1) \in Nat /\ Digit(n, 2) \in Nat /\ Digit(n, 3) \in Nat /\ Digit(n, 4) \in Nat
  BY DigitRange, SMT
<1>2. Value(n, 0) = 0
  BY SMT DEF Value
<1>3. CASE j = 0
  BY <1>1, <1>3, Powers, SMT DEF Value
<1>4. CASE j = 1
  BY <1>1, <1>4, Powers, SMT DEF Value
<1>5. CASE j = 2
  BY <1>1, <1>5, Powers, SMT DEF Value
<1>6. CASE j = 3
  BY <1>1, <1>6, Powers, SMT DEF Value
<1> QED
  BY <1>2, <1>3, <1>4, <1>5, <1>6, SMT

(* After all of its bytes the digits add up to the length. *)
LEMMA ValueEnd ==
  ASSUME NEW n \in 0..MaxRemaining, NEW k \in EncodedSize(n)..4
  PROVE  Value(n, k) = n
<1>1. k \in 1..4
  BY SizeRange, SMT
<1>2. n \in Nat /\ n < 268435456
  BY LengthIs
<1>3. /\ Digit(n, 1) \in Nat /\ Digit(n, 2) \in Nat /\ Digit(n, 3) \in Nat /\ Digit(n, 4) \in Nat
  BY DigitRange, SMT
<1>4. /\ k = 1 => n < 128
      /\ k = 2 => n < 16384
      /\ k = 3 => n < 2097152
  BY <1>2, SMT DEF EncodedSize
<1>5. CASE k = 1
  BY <1>3, <1>4, <1>5, DigitsAddUp, SMT DEF Value
<1>6. CASE k = 2
  BY <1>3, <1>4, <1>6, DigitsAddUp, SMT DEF Value
<1>7. CASE k = 3
  BY <1>3, <1>4, <1>7, DigitsAddUp, SMT DEF Value
<1>8. CASE k = 4
  BY <1>3, <1>8, DigitsAddUp, SMT DEF Value
<1> QED
  BY <1>1, <1>5, <1>6, <1>7, <1>8, SMT

(* Reading, and sending, on a stream that shows the end of the bytes. *)
LEMMA ShowTail ==
  ASSUME NEW s \in Seq(Byte), NEW bytes \in Seq(Byte), Shows(s, bytes), s # <<>>
  PROVE  /\ Shows(Tail(s), bytes) /\ Len(Tail(s)) = Len(s) - 1 /\ Len(s) >= 1
         /\ Head(s) = bytes[Len(bytes) - Len(s) + 1]
<1>1. Len(s) \in Nat /\ Len(s) >= 1 /\ Len(bytes) \in Nat /\ Len(s) <= Len(bytes)
  BY SMT DEF Shows
<1>2. Tail(s) \in Seq(Byte) /\ Len(Tail(s)) = Len(s) - 1 /\ Head(s) = s[1]
      /\ \A x \in 1..Len(Tail(s)) : Tail(s)[x] = s[x + 1]
  BY <1>1, SMT
<1>3. \A x \in 1..Len(s) : s[x] = bytes[Len(bytes) - Len(s) + x]
  BY DEF Shows
<1>4. Head(s) = bytes[Len(bytes) - Len(s) + 1]
  BY <1>1, <1>2, <1>3
<1>5. ASSUME NEW x \in 1..Len(Tail(s))
      PROVE  Tail(s)[x] = bytes[Len(bytes) - Len(Tail(s)) + x]
  <2>1. x + 1 \in 1..Len(s) /\ Len(bytes) - Len(s) + (x + 1) = Len(bytes) - Len(Tail(s)) + x
    BY <1>1, <1>2, SMT
  <2>2. Tail(s)[x] = s[x + 1]
    BY <1>2
  <2>3. s[x + 1] = bytes[Len(bytes) - Len(s) + (x + 1)]
    BY <1>3, <2>1
  <2> QED
    BY <2>1, <2>2, <2>3, Zenon
<1>6. Len(Tail(s)) <= Len(bytes)
  BY <1>1, <1>2, SMT
<1> QED
  BY <1>1, <1>2, <1>4, <1>5, <1>6, Zenon DEF Shows

LEMMA ShowRest ==
  ASSUME NEW s \in Seq(Byte), NEW bytes \in Seq(Byte), Shows(s, bytes),
         NEW k \in 1..Len(s)
  PROVE  LET rest == SubSeq(s, k + 1, Len(s)) IN
           /\ Shows(rest, bytes) /\ Len(rest) = Len(s) - k /\ rest \in Seq(Byte)
<1> DEFINE rest == SubSeq(s, k + 1, Len(s))
<1>1. Len(s) \in Nat /\ k \in Nat /\ k <= Len(s) /\ Len(bytes) \in Nat /\ Len(s) <= Len(bytes)
  BY SMT DEF Shows
<1>2. /\ rest \in Seq(Byte) /\ Len(rest) = Len(s) - k
      /\ \A x \in 1..Len(rest) : rest[x] = s[x + k]
  BY <1>1, SMT
<1> HIDE DEF rest
<1>3. \A x \in 1..Len(s) : s[x] = bytes[Len(bytes) - Len(s) + x]
  BY DEF Shows
<1>5. ASSUME NEW x \in 1..Len(rest)
      PROVE  rest[x] = bytes[Len(bytes) - Len(rest) + x]
  <2>1. x + k \in 1..Len(s) /\ Len(bytes) - Len(s) + (x + k) = Len(bytes) - Len(rest) + x
    BY <1>1, <1>2, SMT
  <2>2. rest[x] = s[x + k]
    BY <1>2
  <2>3. s[x + k] = bytes[Len(bytes) - Len(s) + (x + k)]
    BY <1>3, <2>1
  <2> QED
    BY <2>1, <2>2, <2>3, Zenon
<1>6. Len(rest) <= Len(bytes)
  BY <1>1, <1>2, SMT
<1>7. Shows(rest, bytes) /\ Len(rest) = Len(s) - k /\ rest \in Seq(Byte)
  BY <1>2, <1>5, <1>6, Zenon DEF Shows
<1> QED
  BY <1>7 DEF rest

LEMMA ShowMore ==
  ASSUME NEW s \in Seq(Byte), NEW bytes \in Seq(Byte), Shows(s, bytes),
         NEW w \in Seq(Byte)
  PROVE  /\ Shows(s \o w, bytes \o w)
         /\ Len(bytes \o w) - Len(s \o w) = Len(bytes) - Len(s)
         /\ Len(bytes \o w) = Len(bytes) + Len(w)
<1>1. /\ Len(s) \in Nat /\ Len(bytes) \in Nat /\ Len(s) <= Len(bytes) /\ Len(w) \in Nat
      /\ Len(s \o w) = Len(s) + Len(w) /\ Len(bytes \o w) = Len(bytes) + Len(w)
  BY SMT DEF Shows
<1>2. /\ \A x \in 1..Len(s) : (s \o w)[x] = s[x]
      /\ \A x \in 1..Len(w) : (s \o w)[Len(s) + x] = w[x]
      /\ \A x \in 1..Len(bytes) : (bytes \o w)[x] = bytes[x]
      /\ \A x \in 1..Len(w) : (bytes \o w)[Len(bytes) + x] = w[x]
  BY JoinElements
<1>3. ASSUME NEW x \in 1..Len(s \o w)
      PROVE  (s \o w)[x] = (bytes \o w)[Len(bytes \o w) - Len(s \o w) + x]
  <2>1. Len(bytes \o w) - Len(s \o w) + x = Len(bytes) - Len(s) + x
    BY <1>1, SMT
  <2>2. CASE x <= Len(s)
    <3>1. x \in 1..Len(s) /\ Len(bytes) - Len(s) + x \in 1..Len(bytes)
      BY <1>1, <2>2, SMT
    <3>2. (s \o w)[x] = s[x]
      BY <1>2, <3>1
    <3>3. s[x] = bytes[Len(bytes) - Len(s) + x]
      BY <3>1 DEF Shows
    <3>4. (bytes \o w)[Len(bytes) - Len(s) + x] = bytes[Len(bytes) - Len(s) + x]
      BY <1>2, <3>1
    <3> QED
      BY <2>1, <3>2, <3>3, <3>4, Zenon
  <2>3. CASE x > Len(s)
    <3>1. /\ x - Len(s) \in 1..Len(w) /\ Len(s) + (x - Len(s)) = x
          /\ Len(bytes) + (x - Len(s)) = Len(bytes) - Len(s) + x
      BY <1>1, <2>3, SMT
    <3>2. (s \o w)[Len(s) + (x - Len(s))] = w[x - Len(s)]
      BY <1>2, <3>1, Zenon
    <3>3. (bytes \o w)[Len(bytes) + (x - Len(s))] = w[x - Len(s)]
      BY <1>2, <3>1, Zenon
    <3> QED
      BY <2>1, <3>1, <3>2, <3>3, Zenon
  <2> QED
    BY <1>1, <2>2, <2>3, SMT
<1>4. Len(s \o w) <= Len(bytes \o w) /\ Len(bytes \o w) - Len(s \o w) = Len(bytes) - Len(s)
  BY <1>1, SMT
<1> QED
  BY <1>1, <1>3, <1>4, Zenon DEF Shows

(* Pieces stay where they lie when bytes are added behind them. *)
LEMMA LiesOn ==
  ASSUME NEW p \in Piece, NEW a \in Nat, NEW bytes \in Seq(Byte), NEW w \in Seq(Byte),
         a + 1 + p.k + p.n <= Len(bytes), LiesAt(bytes, a, p)
  PROVE  LiesAt(bytes \o w, a, p)
<1>1. p.n \in Nat /\ p.k \in 1..4
  BY PieceIs
<1>2. \A i \in 1..Len(bytes) : (bytes \o w)[i] = bytes[i]
  BY JoinElements
<1>3. Len(bytes) \in Nat
  BY LenIsNat
<1> DEFINE n == p.n
           k == p.k
           l == Len(bytes)
<1>4. n \in Nat /\ k \in 1..4 /\ l \in Nat /\ a + 1 + k + n <= l
  BY <1>1, <1>3
<1> HIDE DEF n, k, l
<1>5. /\ a + 1 \in 1..l
      /\ \A j \in 1..k : a + 1 + j \in 1..l
      /\ \A j \in 1..n : a + 1 + k + j \in 1..l
  BY <1>4, SMT
<1> QED
  BY <1>2, <1>5, Zenon DEF LiesAt, n, k, l

(* The i-th piece. *)
LEMMA LaidIs ==
  ASSUME NEW bytes \in Seq(Byte), NEW pieces \in Seq(Piece), NEW at \in Seq(Nat),
         Laid(bytes, pieces, at), NEW i \in 1..Len(pieces)
  PROVE  /\ i \in 1..Len(at) /\ i + 1 \in 1..Len(at) /\ at[i] \in Nat /\ at[i + 1] \in Nat
         /\ at[i + 1] <= Len(bytes) /\ pieces[i] \in Piece
         /\ at[i + 1] = at[i] + 1 + pieces[i].k + pieces[i].n
         /\ LiesAt(bytes, at[i], pieces[i])
         /\ Len(pieces[i].body) = pieces[i].n /\ EncodedSize(pieces[i].n) <= pieces[i].k
<1>1. Len(at) = Len(pieces) + 1 /\ Len(pieces) \in Nat
  BY LenIsNat DEF Laid
<1>2. i \in 1..Len(at) /\ i + 1 \in 1..Len(at)
  BY <1>1, SMT
<1>3. at[i] \in Nat /\ at[i + 1] \in Nat /\ pieces[i] \in Piece
  BY <1>2, ElementIs
<1>4. at[i + 1] <= Len(bytes)
  BY <1>2 DEF Laid
<1>5. /\ Len(pieces[i].body) = pieces[i].n /\ EncodedSize(pieces[i].n) <= pieces[i].k
      /\ at[i + 1] = at[i] + 1 + pieces[i].k + pieces[i].n
      /\ LiesAt(bytes, at[i], pieces[i])
  BY DEF Laid
<1> QED
  BY <1>2, <1>3, <1>4, <1>5

(* The pieces stay where they are when more bytes are sent, ... *)
LEMMA LaidOn ==
  ASSUME NEW bytes \in Seq(Byte), NEW pieces \in Seq(Piece), NEW at \in Seq(Nat),
         Laid(bytes, pieces, at), NEW w \in Seq(Byte)
  PROVE  Laid(bytes \o w, pieces, at)
<1>1. Len(at) = Len(pieces) + 1 /\ at[1] = 0
  BY DEF Laid
<1>2. Len(bytes \o w) = Len(bytes) + Len(w) /\ Len(bytes) \in Nat /\ Len(w) \in Nat
  BY JoinIs
<1>3. ASSUME NEW i \in 1..Len(at) PROVE at[i] <= Len(bytes \o w)
  <2>1. at[i] \in Nat /\ at[i] <= Len(bytes)
    BY ElementIs DEF Laid
  <2> QED
    BY <1>2, <2>1, SMT
<1>4. ASSUME NEW i \in 1..Len(pieces) PROVE LiesAt(bytes \o w, at[i], pieces[i])
  <2>1. /\ at[i] \in Nat /\ pieces[i] \in Piece /\ LiesAt(bytes, at[i], pieces[i])
        /\ at[i] + 1 + pieces[i].k + pieces[i].n <= Len(bytes)
    BY LaidIs
  <2> QED
    BY <2>1, LiesOn
<1> QED
  BY <1>1, <1>3, <1>4, Zenon DEF Laid

(* A message on the wire is a piece behind what was there. *)
LEMMA WireElements ==
  ASSUME NEW p \in Piece, Len(p.body) = p.n,
         NEW bytes \in Seq(Byte)
  PROVE  LET w == Wire(p.h, p.n, p.k, p.body) IN
           /\ w \in Seq(Byte) /\ Len(w) = 1 + p.k + p.n
           /\ LiesAt(bytes \o w, Len(bytes), p)
<1> DEFINE h == p.h
           n == p.n
           k == p.k
           body == p.body
           code == Stretched(n, k)
           hd == <<h>> \o code
           w == hd \o body
           l == Len(bytes)
           digit(j) == Digit(n, j) + (IF j < k THEN 128 ELSE 0)
<1>1. /\ h \in Byte /\ n \in 0..MaxRemaining /\ n \in Nat /\ k \in 1..4 /\ body \in Seq(Byte)
      /\ Len(body) = n
  BY PieceIs
<1> HIDE DEF h, n, k, body
<1>2. code \in Seq(Byte) /\ Len(code) = k /\ \A j \in 1..k : code[j] = digit(j)
  BY <1>1, StretchedIs
<1>3. <<h>> \in Seq(Byte) /\ Len(<<h>>) = 1 /\ <<h>>[1] = h
  BY <1>1, SMT
<1> HIDE DEF code, digit
<1>4. hd \in Seq(Byte) /\ Len(hd) = 1 + k
  BY <1>2, <1>3, JoinIs
<1>5. w \in Seq(Byte) /\ Len(w) = (1 + k) + n
  <2> HIDE DEF hd
  <2> QED
    BY <1>1, <1>4, JoinIs
<1>6. hd[1] = h /\ \A i \in 1..k : hd[1 + i] = code[i]
  <2>1. /\ \A i \in 1..Len(<<h>>) : hd[i] = <<h>>[i]
        /\ \A i \in 1..Len(code) : hd[Len(<<h>>) + i] = code[i]
    BY <1>2, <1>3, JoinElements
  <2>2. 1 \in 1..Len(<<h>>)
    BY <1>3
  <2> HIDE DEF hd
  <2> QED
    BY <1>2, <1>3, <2>1, <2>2, Zenon
<1> HIDE DEF hd
<1>7. /\ \A i \in 1..(1 + k) : w[i] = hd[i]
      /\ \A i \in 1..n : w[(1 + k) + i] = body[i]
  <2>1. /\ \A i \in 1..Len(hd) : w[i] = hd[i]
        /\ \A i \in 1..Len(body) : w[Len(hd) + i] = body[i]
    BY <1>1, <1>4, JoinElements
  <2> HIDE DEF w
  <2> QED
    BY <1>1, <1>4, <2>1, Zenon
<1> HIDE DEF w
<1>8. l \in Nat /\ \A i \in 1..Len(w) : (bytes \o w)[l + i] = w[i]
  BY <1>5, LenIsNat, JoinElements
<1> HIDE DEF l
<1>9. (bytes \o w)[l + 1] = h
  <2>1. 1 \in 1..Len(w) /\ 1 \in 1..(1 + k)
    BY <1>1, <1>5, SMT
  <2> QED
    BY <1>6, <1>7, <1>8, <2>1, Zenon
<1>10. ASSUME NEW j \in 1..k PROVE (bytes \o w)[l + 1 + j] = digit(j)
  <2>1. 1 + j \in 1..Len(w) /\ 1 + j \in 1..(1 + k) /\ l + (1 + j) = l + 1 + j
    BY <1>1, <1>5, <1>8, SMT
  <2>2. (bytes \o w)[l + (1 + j)] = w[1 + j]
    BY <1>8, <2>1
  <2>3. w[1 + j] = code[j]
    BY <1>6, <1>7, <2>1, Zenon
  <2> QED
    BY <1>2, <2>1, <2>2, <2>3, Zenon
<1>11. ASSUME NEW j \in 1..n PROVE (bytes \o w)[l + 1 + k + j] = body[j]
  <2>1. (1 + k) + j \in 1..Len(w) /\ l + ((1 + k) + j) = l + 1 + k + j
    BY <1>1, <1>5, <1>8, SMT
  <2> QED
    BY <1>7, <1>8, <2>1, Zenon
<1>12. LiesAt(bytes \o w, l, p)
  BY <1>9, <1>10, <1>11, Zenon DEF LiesAt, digit, h, n, k, body
<1>13. w = Wire(p.h, p.n, p.k, p.body)
  BY Zenon DEF w, hd, code, Wire, h, n, k, body
<1>14. w \in Seq(Byte) /\ Len(w) = 1 + p.k + p.n
  BY <1>5, Zenon DEF n, k
<1> QED
  BY <1>12, <1>13, <1>14, Zenon DEF l

(* ... and a message sent behind the last one is a piece more. *)
LEMMA LaidMore ==
  ASSUME NEW bytes \in Seq(Byte), NEW pieces \in Seq(Piece), NEW at \in Seq(Nat),
         Laid(bytes, pieces, at), at[Len(pieces) + 1] = Len(bytes),
         NEW p \in Piece, Len(p.body) = p.n, EncodedSize(p.n) <= p.k
  PROVE  Laid(bytes \o Wire(p.h, p.n, p.k, p.body), Append(pieces, p),
              Append(at, Len(bytes) + 1 + p.k + p.n))
<1> DEFINE w == Wire(p.h, p.n, p.k, p.body)
           end == Len(bytes) + 1 + p.k + p.n
           more == Append(pieces, p)
           ats == Append(at, end)
           all == bytes \o w
<1>1. w \in Seq(Byte) /\ Len(w) = 1 + p.k + p.n /\ LiesAt(all, Len(bytes), p)
  BY WireElements
<1>2. p.n \in Nat /\ p.k \in 1..4
  BY PieceIs
<1> HIDE DEF w
<1>3. Len(all) = Len(bytes) + Len(w) /\ Len(bytes) \in Nat
  BY <1>1, JoinIs
<1>4. end \in Nat /\ Len(all) = end
  <2> DEFINE n == p.n
             k == p.k
             l == Len(bytes)
  <2>1. n \in Nat /\ k \in 1..4 /\ l \in Nat /\ Len(all) = l + (1 + k + n)
    BY <1>1, <1>2, <1>3
  <2> HIDE DEF n, k, l, all
  <2>2. l + 1 + k + n \in Nat /\ Len(all) = l + 1 + k + n
    BY <2>1, SMT
  <2> QED
    BY <2>2, Zenon DEF n, k, l
<1>5. Laid(all, pieces, at)
  BY <1>1, LaidOn
<1> HIDE DEF all, end
<1>6. Len(pieces) \in Nat /\ Len(at) = Len(pieces) + 1 /\ at[1] = 0
  BY LenIsNat DEF Laid
<1>7. /\ Len(more) = Len(pieces) + 1 /\ more[Len(pieces) + 1] = p
      /\ \A i \in 1..Len(pieces) : more[i] = pieces[i]
  BY AppendIs
<1>8. /\ Len(ats) = Len(at) + 1 /\ ats[Len(at) + 1] = end
      /\ \A i \in 1..Len(at) : ats[i] = at[i]
  BY <1>4, AppendIs
<1> HIDE DEF more, ats
<1>9. Len(ats) = Len(more) + 1 /\ ats[1] = 0
  <2>1. 1 \in 1..Len(at)
    BY <1>6, SMT
  <2> QED
    BY <1>6, <1>7, <1>8, <2>1, Zenon
<1>10. ASSUME NEW i \in 1..Len(ats) PROVE ats[i] <= Len(all)
  <2>1. CASE i \in 1..Len(at)
    BY <1>5, <1>8, <2>1, Zenon DEF Laid
  <2>2. CASE i = Len(at) + 1
    <3>1. ats[i] = Len(all)
      BY <1>4, <1>8, <2>2, Zenon
    <3> QED
      BY <1>4, <3>1, SMT
  <2>3. i \in 1..Len(at) \/ i = Len(at) + 1
    BY <1>6, <1>8, SMT
  <2> QED
    BY <2>1, <2>2, <2>3
<1>11. ASSUME NEW i \in 1..Len(more)
       PROVE  /\ Len(more[i].body) = more[i].n /\ EncodedSize(more[i].n) <= more[i].k
              /\ ats[i + 1] = ats[i] + 1 + more[i].k + more[i].n
              /\ LiesAt(all, ats[i], more[i])
  <2>1. CASE i \in 1..Len(pieces)
    <3>1. i \in 1..Len(at) /\ i + 1 \in 1..Len(at)
      BY <1>6, <2>1, SMT
    <3>2. more[i] = pieces[i] /\ ats[i] = at[i] /\ ats[i + 1] = at[i + 1]
      BY <1>7, <1>8, <2>1, <3>1, Zenon
    <3>3. /\ Len(pieces[i].body) = pieces[i].n /\ EncodedSize(pieces[i].n) <= pieces[i].k
          /\ at[i + 1] = at[i] + 1 + pieces[i].k + pieces[i].n
          /\ LiesAt(all, at[i], pieces[i])
      BY <1>5, <2>1, Zenon DEF Laid
    <3> QED
      BY <3>2, <3>3, Zenon
  <2>2. CASE i = Len(pieces) + 1
    <3>1. i \in 1..Len(at) /\ i = Len(at) /\ i + 1 = Len(at) + 1
      BY <1>6, <2>2, SMT
    <3>2. more[i] = p /\ ats[i] = Len(bytes) /\ ats[i + 1] = end
      BY <1>6, <1>7, <1>8, <2>2, <3>1, Zenon
    <3> QED
      BY <1>1, <3>2, Zenon DEF end
  <2>3. i \in 1..Len(pieces) \/ i = Len(pieces) + 1
    BY <1>6, <1>7, SMT
  <2> QED
    BY <2>1, <2>2, <2>3
<1>12. Laid(all, more, ats)
  BY <1>9, <1>10, <1>11, Zenon DEF Laid
<1> QED
  BY <1>12, Zenon DEF all, more, ats, end, w

\* StreamInv without what is proved of the reader alone.
Rest == ConnInv /\ GotInv /\ SentInv /\ StopInv

(* Where the reader is on the connection. *)
LEMMA WhereIs ==
  ASSUME IInv, NEW bytes \in Seq(Byte), NEW pieces \in Seq(Piece), NEW at \in Seq(Nat),
         Laid(bytes, pieces, at), Match(pieces), Len(got) <= Len(pieces)
  PROVE  LET g == Len(got) IN
         /\ g \in Nat /\ Len(pieces) \in Nat /\ Len(bytes) \in Nat /\ Len(stream) \in Nat
         /\ at[g + 1] \in Nat /\ at[g + 1] <= Len(bytes)
         /\ g < Len(pieces) =>
              /\ g + 1 \in 1..Len(pieces) /\ g + 1 \in 1..Len(sent)
              /\ at[g + 2] = at[g + 1] + 1 + pieces[g + 1].k + pieces[g + 1].n
              /\ at[g + 2] <= Len(bytes)
              /\ LiesAt(bytes, at[g + 1], pieces[g + 1])
              /\ Len(pieces[g + 1].body) = pieces[g + 1].n
              /\ EncodedSize(pieces[g + 1].n) <= pieces[g + 1].k
              /\ pieces[g + 1] \in Piece
<1> DEFINE g == Len(got)
<1>1. /\ g \in Nat /\ Len(pieces) \in Nat /\ Len(bytes) \in Nat /\ Len(stream) \in Nat
      /\ Len(sent) \in Nat
  BY LenIsNat DEF IInv, TypeOK
<1>2. Len(at) = Len(pieces) + 1 /\ g <= Len(pieces) /\ Len(pieces) <= Len(sent)
  BY DEF Laid, Match
<1> HIDE DEF g
<1>3. g + 1 \in 1..Len(at)
  BY <1>1, <1>2, SMT
<1>4. at[g + 1] \in Nat /\ at[g + 1] <= Len(bytes)
  BY <1>3, ElementIs DEF Laid
<1>5. ASSUME g < Len(pieces)
      PROVE  /\ g + 1 \in 1..Len(pieces) /\ g + 1 \in 1..Len(sent)
             /\ at[g + 2] = at[g + 1] + 1 + pieces[g + 1].k + pieces[g + 1].n
             /\ at[g + 2] <= Len(bytes)
             /\ LiesAt(bytes, at[g + 1], pieces[g + 1])
             /\ Len(pieces[g + 1].body) = pieces[g + 1].n
             /\ EncodedSize(pieces[g + 1].n) <= pieces[g + 1].k
             /\ pieces[g + 1] \in Piece
  <2>1. g + 1 \in 1..Len(pieces) /\ g + 1 \in 1..Len(sent) /\ (g + 1) + 1 = g + 2
    BY <1>1, <1>2, <1>5, SMT
  <2> DEFINE i == g + 1
  <2>2. i \in 1..Len(pieces) /\ i + 1 = g + 2
    BY <2>1
  <2> HIDE DEF i
  <2>3. /\ at[i + 1] <= Len(bytes) /\ pieces[i] \in Piece
        /\ at[i + 1] = at[i] + 1 + pieces[i].k + pieces[i].n
        /\ LiesAt(bytes, at[i], pieces[i])
        /\ Len(pieces[i].body) = pieces[i].n /\ EncodedSize(pieces[i].n) <= pieces[i].k
    BY <2>2, LaidIs
  <2> QED
    BY <2>1, <2>2, <2>3, Zenon DEF i
<1> QED
  BY <1>1, <1>4, <1>5, Zenon DEF g

(* The reader goes on with the connection. *)
LEMMA GoesOn ==
  ASSUME SentInv, sent' = sent, faults' = faults, rc' # -1, GotInv',
         NEW bytes \in Seq(Byte), NEW pieces \in Seq(Piece), NEW at \in Seq(Nat),
         Laid(bytes, pieces, at), Match(pieces), Ends(bytes, pieces, at),
         Shows(stream', bytes), Place(bytes, pieces, at)'
  PROVE  Rest'
<1>1. Match(pieces)' /\ Ends(bytes, pieces, at)'
  BY Zenon DEF Match, Ends
<1>2. Conn(bytes, pieces, at)'
  BY <1>1, Zenon DEF Conn
<1>3. ConnInv'
  BY <1>2, Zenon DEF ConnInv
<1>4. SentInv' /\ StopInv'
  BY Zenon DEF SentInv, StopInv
<1> QED
  BY <1>3, <1>4, Zenon DEF Rest

(* The reader gives up, whatever it leaves in its state. *)
LEMMA GivesUp ==
  ASSUME IInv, GotInv, SentInv, sent' = sent,
         NEW left, "state" \in DOMAIN left, Fail(left), faults' > 0
  PROVE  Rest'
<1>1. rc' = -1 /\ trp' = [left EXCEPT !.state = 0] /\ got' = got
  BY DEF Fail, Exit
<1>2. trp'.state = 0
  BY <1>1
<1>3. ConnInv' /\ StopInv'
  BY <1>1, <1>2, Zenon DEF ConnInv, StopInv
<1>4. GotInv' /\ SentInv'
  BY <1>1, Zenon DEF GotInv, SentInv
<1> QED
  BY <1>3, <1>4, Zenon DEF Rest

(* The reader returns a packet: it is the next of those sent. *)
LEMMA Returns ==
  ASSUME IInv, GotInv, SentInv, sent' = sent, faults' = faults,
         NEW left, "state" \in DOMAIN left, Done(left),
         NEW bytes \in Seq(Byte), NEW pieces \in Seq(Piece), NEW at \in Seq(Nat),
         Laid(bytes, pieces, at), Match(pieces), Ends(bytes, pieces, at),
         Shows(stream', bytes), Len(got) < Len(pieces),
         Len(bytes) - Len(stream') = at[Len(got) + 2],
         NEW p, p = pieces[Len(got) + 1], buf' = Packet(p.h, p.n, p.body)
  PROVE  Rest'
<1> DEFINE g == Len(got)
<1>1. /\ g \in Nat /\ Len(pieces) \in Nat /\ g + 1 \in 1..Len(pieces) /\ g + 1 \in 1..Len(sent)
      /\ p \in Piece /\ Len(p.body) = p.n
  <2>1. Len(got) <= Len(pieces)
    <3>1. Len(got) \in Nat /\ Len(pieces) \in Nat
      BY LenIsNat DEF IInv, TypeOK
    <3> QED
      BY <3>1, SMT
  <2> QED
    BY <2>1, WhereIs
<1>2. p.h \in Byte /\ p.n \in 0..MaxRemaining /\ p.body \in Seq(Byte)
  BY <1>1, PieceIs
<1>3. buf'[1] = p.h /\ buf' \in Seq(Byte)
  BY <1>1, <1>2, PacketIs
<1>4. rc' = buf'[1] \div 16 /\ trp' = [left EXCEPT !.state = 0] /\ got' = Append(got, buf')
  BY DEF Done, Exit
<1>5. rc' # -1
  <2>1. p.h \div 16 \in 0..15
    BY <1>2, BytesAre
  <2>2. \A x \in 0..15 : x # -1
    BY SMT
  <2> QED
    BY <1>3, <1>4, <2>1, <2>2, Zenon
<1>6. trp'.state = 0
  BY <1>4
<1>7. /\ Len(got') = g + 1 /\ got'[g + 1] = buf'
      /\ \A i \in 1..g : got'[i] = got[i]
  <2>1. got \in Seq(Seq(Byte)) /\ buf' \in Seq(Byte)
    BY <1>3 DEF IInv, TypeOK
  <2> QED
    BY <1>4, <2>1, AppendIs
<1>8. buf' = Canonical(sent[g + 1])
  <2>1. FrameIs(sent[g + 1], p.h, p.n, p.body)
    BY <1>1, Zenon DEF Match
  <2> QED
    BY <1>2, <2>1, CanonicalIs
<1> HIDE DEF g
<1>9. GotInv'
  <2>1. ASSUME NEW i \in 1..Len(got') PROVE got'[i] = Canonical(sent[i])
    <3>1. i \in 1..g \/ i = g + 1
      BY <1>1, <1>7, SMT
    <3>2. CASE i \in 1..g
      <4>1. got[i] = Canonical(sent[i])
        BY <3>2 DEF GotInv, g
      <4> QED
        BY <1>7, <3>2, <4>1, Zenon
    <3>3. CASE i = g + 1
      BY <1>7, <1>8, <3>3, Zenon
    <3> QED
      BY <3>1, <3>2, <3>3
  <2>2. Len(got') <= Len(sent)
    BY <1>1, <1>7, SMT
  <2>3. Len(got') <= Len(sent') /\ \A i \in 1..Len(got') : got'[i] = Canonical(sent'[i])
    BY <2>1, <2>2, Zenon
  <2> QED
    BY <2>3 DEF GotInv, Canonical
<1>10. Place(bytes, pieces, at)'
  <2>1. Len(got') <= Len(pieces) /\ (g + 1) + 1 = g + 2
    BY <1>1, <1>7, SMT
  <2>2. Len(bytes) - Len(stream') = at[Len(got') + 1]
    BY <1>7, <2>1, Zenon DEF g
  <2>3. trp'.state # 1 /\ trp'.state # 2
    BY <1>6, SMT
  <2> QED
    BY <1>6, <2>1, <2>2, <2>3 DEF Place
<1> QED
  BY <1>5, <1>9, <1>10, GoesOn, Zenon

(* The header of the next packet. *)
LEMMA HeaderConn ==
  ASSUME IInv, Rest, rc # -1, ReadHeader, sent' = sent, faults' = faults
  PROVE  Rest'
<1>1. PICK bytes \in Seq(Byte), pieces \in Seq(Piece), at \in Seq(Nat) : Conn(bytes, pieces, at)
  BY Zenon DEF Rest, ConnInv
<1>2. /\ Laid(bytes, pieces, at) /\ Match(pieces) /\ Ends(bytes, pieces, at)
      /\ Shows(stream, bytes) /\ Place(bytes, pieces, at)
  BY <1>1, Zenon DEF Conn
<1>3. /\ trp.state = 0 /\ stream # <<>> /\ stream \in Seq(Byte)
      /\ buf' = <<Head(stream)>> /\ stream' = Tail(stream) /\ rc' = 0 /\ got' = got
      /\ trp' = [state |-> 1, len |-> 0, rem_len |-> 0, multiplier |-> 1]
  BY Zenon DEF ReadHeader, IInv, TypeOK
<1> DEFINE g == Len(got)
           a == at[g + 1]
           p == pieces[g + 1]
<1>4. g <= Len(pieces) /\ Len(bytes) - Len(stream) = a
  BY <1>2, <1>3, Zenon DEF Place
<1>5. /\ g \in Nat /\ Len(bytes) \in Nat /\ Len(stream) \in Nat /\ a \in Nat
      /\ g < Len(pieces) => LiesAt(bytes, a, p) /\ p \in Piece
  BY <1>2, <1>4, WhereIs
<1>6. /\ Shows(stream', bytes) /\ Len(stream') = Len(stream) - 1
      /\ Head(stream) = bytes[Len(bytes) - Len(stream) + 1]
  BY <1>2, <1>3, ShowTail
<1>7. trp'.state = 1 /\ trp'.len = 0 /\ trp'.rem_len = 0
  BY <1>3
<1>8. Len(bytes) - Len(stream') = a + 1 + trp'.len
  <2> DEFINE lb == Len(bytes)
             ls == Len(stream)
  <2>1. lb \in Nat /\ ls \in Nat /\ lb - ls = a
    BY <1>4, <1>5
  <2> HIDE DEF lb, ls, a
  <2>2. lb - (ls - 1) = a + 1 + 0
    BY <1>5, <2>1, SMT
  <2> QED
    BY <1>6, <1>7, <2>2, Zenon DEF lb, ls
<1>9. ASSUME g < Len(pieces)
      PROVE  trp'.len < p.k /\ trp'.rem_len = Value(p.n, trp'.len) /\ buf' = <<p.h>>
  <2>1. p.k \in 1..4 /\ p.n \in 0..MaxRemaining /\ LiesAt(bytes, a, p)
    BY <1>5, <1>9, PieceIs
  <2>2. bytes[a + 1] = p.h
    BY <2>1 DEF LiesAt
  <2>3. Value(p.n, 0) = 0
    <3>1. 0 \in 0..3
      BY SMT
    <3> QED
      BY <2>1, <3>1, ValueStep
  <2>4. \A k \in 1..4 : 0 < k
    BY SMT
  <2> QED
    BY <1>3, <1>4, <1>6, <1>7, <2>1, <2>2, <2>3, <2>4, Zenon
<1>10. Place(bytes, pieces, at)'
  <2>1. trp'.state # 0 /\ trp'.state # 2
    BY <1>7, SMT
  <2> QED
    BY <1>3, <1>4, <1>7, <1>8, <1>9, <2>1, Zenon DEF Place
<1>11. GotInv' /\ rc' # -1
  <2>1. rc' # -1
    BY <1>3, SMT
  <2> QED
    BY <1>3, <2>1, Zenon DEF Rest, GotInv, Canonical
<1> QED
  BY <1>2, <1>6, <1>10, <1>11, GoesOn, Zenon DEF Rest

(* A byte of a length in k bytes. *)
LEMMA LengthByte ==
  ASSUME NEW n \in 0..MaxRemaining, NEW k \in 1..4, NEW j \in 0..3, j < k,
         NEW c, c = Digit(n, j + 1) + (IF j + 1 < k THEN 128 ELSE 0)
  PROVE  /\ c % 128 = Digit(n, j + 1) /\ (Continues(c) <=> j + 1 < k)
<1>1. Digit(n, j + 1) \in Nat /\ Digit(n, j + 1) < 128
  <2>1. j + 1 \in 1..4
    BY SMT
  <2> QED
    BY <2>1, DigitRange
<1> DEFINE d == Digit(n, j + 1)
<1>2. d \in Nat /\ d < 128 /\ c = d + (IF j + 1 < k THEN 128 ELSE 0)
  BY <1>1
<1> HIDE DEF d
<1>3. c % 128 = d /\ (Continues(c) <=> j + 1 < k)
  BY <1>2, SMT DEF Continues
<1> QED
  BY <1>3 DEF d

(* The last byte of a length: the header and the length are in the buffer. *)
LEMMA LengthReadConn ==
  ASSUME IInv, GotInv, SentInv, sent' = sent, faults' = faults,
         NEW bytes \in Seq(Byte), NEW pieces \in Seq(Piece), NEW at \in Seq(Nat),
         Laid(bytes, pieces, at), Match(pieces), Ends(bytes, pieces, at),
         Shows(stream', bytes), Len(got) < Len(pieces),
         NEW p, p = pieces[Len(got) + 1],
         Len(bytes) - Len(stream') = at[Len(got) + 1] + 1 + p.k,
         buf = <<p.h>>, LengthRead(p.n)
  PROVE  Rest'
<1> DEFINE g == Len(got)
           a == at[g + 1]
           n == p.n
           k == p.k
           body == p.body
           code == MQTTPacket_encode(n)
           written == <<buf[1]>> \o code
           left == [state |-> 2, len |-> Len(written), rem_len |-> n,
                    multiplier |-> trp.multiplier * 128]
<1>1. Len(got) <= Len(pieces)
  <2>1. Len(got) \in Nat /\ Len(pieces) \in Nat
    BY LenIsNat DEF IInv, TypeOK
  <2> QED
    BY <2>1, SMT
<1>2. /\ g \in Nat /\ p \in Piece /\ Len(body) = n /\ a \in Nat
      /\ g + 1 \in 1..Len(pieces) /\ at[g + 2] = a + 1 + k + n
  BY <1>1, WhereIs
<1>3. p.h \in Byte /\ n \in 0..MaxRemaining /\ n \in Nat /\ k \in 1..4 /\ body \in Seq(Byte)
  BY <1>2, PieceIs
<1>4. buf[1] = p.h
  BY SMT
<1>5. code \in Seq(Byte) /\ Len(code) = EncodedSize(n) /\ EncodedSize(n) \in 1..4
  BY <1>3, EncodeType, SizeRange
<1>6. written = Packet(p.h, n, <<>>) /\ Len(written) = 1 + EncodedSize(n)
  <2> HIDE DEF n
  <2>1. written = <<p.h>> \o code
    BY <1>4, Zenon
  <2> HIDE DEF code
  <2>2. <<p.h>> \in Seq(Byte) /\ Len(<<p.h>>) = 1
    BY <1>3, SMT
  <2>3. <<p.h>> \o code \in Seq(Byte) /\ Len(<<p.h>> \o code) = 1 + EncodedSize(n)
    BY <1>5, <2>2, JoinIs
  <2>4. (<<p.h>> \o code) \o <<>> = <<p.h>> \o code
    BY <2>3, JoinNone
  <2> QED
    BY <2>1, <2>3, <2>4, Zenon DEF Packet, code
<1>7. /\ buf' = written
      /\ IF n + Len(written) > BufLen THEN Fail(left)
         ELSE IF n = 0 THEN Done(left) ELSE Again(left)
  BY Zenon DEF LengthRead
<1>11. "state" \in DOMAIN left /\ left.state = 2 /\ left.rem_len = n
  OBVIOUS
<1> HIDE DEF written, code, left
<1>8. CASE n + Len(written) > BufLen
  <2>1. FrameIs(sent[g + 1], p.h, n, body) /\ (faults = 0 => 1 + EncodedSize(n) + n <= BufLen)
    BY <1>2, Zenon DEF Match
  <2>2. ~(1 + EncodedSize(n) + n <= BufLen)
    <3> HIDE DEF n
    <3>1. EncodedSize(n) \in 1..4 /\ BufLen \in Nat /\ n + (1 + EncodedSize(n)) > BufLen
      BY <1>5, <1>6, <1>8, ReaderAssumption
    <3> QED
      BY <1>3, <3>1, SMT
  <2>3. faults' > 0
    <3>1. faults \in 0..MaxFaults /\ faults # 0
      BY <2>1, <2>2 DEF IInv, TypeOK
    <3> QED
      BY <3>1, ReaderAssumption, SMT
  <2>4. Fail(left)
    BY <1>7, <1>8, Zenon
  <2> QED
    BY <1>11, <2>3, <2>4, GivesUp
<1>9. CASE ~(n + Len(written) > BufLen) /\ n = 0
  <2>1. Done(left)
    BY <1>7, <1>9, Zenon
  <2>2. body = <<>>
    <3>1. Len(body) = 0 /\ body \in Seq(Byte)
      BY <1>2, <1>3, <1>9
    <3> QED
      BY <3>1, NoBytes
  <2>3. buf' = Packet(p.h, n, body)
    BY <1>6, <1>7, <2>2, Zenon
  <2>4. Len(bytes) - Len(stream') = at[g + 2]
    <3> HIDE DEF n, k, a
    <3>1. a + 1 + k + 0 = a + 1 + k
      BY <1>2, <1>3, SMT
    <3> QED
      BY <1>2, <1>9, <3>1, Zenon DEF k, a
  <2> QED
    BY <1>11, <2>1, <2>3, <2>4, Returns
<1>10. CASE ~(n + Len(written) > BufLen) /\ n # 0
  <2>1. trp' = left /\ rc' = 0 /\ got' = got
    BY <1>7, <1>10, Zenon DEF Again
  <2>2. trp'.state = 2 /\ trp'.rem_len = n
    BY <1>11, <2>1, Zenon
  <2>3. n \in 1..n /\ n - n = 0 /\ a + 1 + k + 0 = a + 1 + k
    <3>1. a \in Nat /\ k \in 1..4 /\ n \in Nat /\ n # 0
      BY <1>2, <1>3, <1>10
    <3> HIDE DEF n, k, a
    <3> QED
      BY <3>1, SMT
  <2>4. SubSeq(body, 1, 0) = <<>>
    BY <1>3, SMT
  <2>5. Place(bytes, pieces, at)'
    <3>1. trp'.state # 0 /\ trp'.state # 1
      BY <2>2, SMT
    <3>2. /\ g < Len(pieces) /\ trp'.rem_len \in 1..p.n
          /\ Len(bytes) - Len(stream') = a + 1 + p.k + (p.n - trp'.rem_len)
          /\ buf' = Packet(p.h, p.n, SubSeq(p.body, 1, p.n - trp'.rem_len))
      BY <1>6, <1>7, <2>2, <2>3, <2>4, Zenon
    <3> QED
      BY <1>1, <2>1, <2>2, <3>1, <3>2, Zenon DEF Place
  <2>6. GotInv' /\ rc' # -1
    <3>1. rc' # -1
      BY <2>1, SMT
    <3> QED
      BY <2>1, <3>1, Zenon DEF GotInv, Canonical
  <2> QED
    BY <2>5, <2>6, GoesOn, Zenon
<1> QED
  BY <1>8, <1>9, <1>10, Zenon

(* A byte of a length, the last one or not. *)
LEMMA LengthConn ==
  ASSUME IInv, Rest, rc # -1, ReadLength, sent' = sent, faults' = faults
  PROVE  Rest'
<1>1. PICK bytes \in Seq(Byte), pieces \in Seq(Piece), at \in Seq(Nat) : Conn(bytes, pieces, at)
  BY Zenon DEF Rest, ConnInv
<1>2. /\ Laid(bytes, pieces, at) /\ Match(pieces) /\ Ends(bytes, pieces, at)
      /\ Shows(stream, bytes) /\ Place(bytes, pieces, at)
  BY <1>1, Zenon DEF Conn
<1> DEFINE c == Head(stream)
           v == trp.rem_len + (c % 128) * trp.multiplier
           l == trp.len
           g == Len(got)
           a == at[g + 1]
           p == pieces[g + 1]
           left == [state |-> 1, len |-> l + 1, rem_len |-> v,
                    multiplier |-> trp.multiplier * 128]
<1>3. /\ trp.state = 1 /\ stream # <<>> /\ stream \in Seq(Byte) /\ stream' = Tail(stream)
      /\ IF ~Continues(c) THEN LengthRead(v)
         ELSE /\ buf' = buf
              /\ IF left.len >= MAX_NO_OF_REMAINING_LENGTH_BYTES THEN Fail(left) ELSE Again(left)
  BY Zenon DEF ReadLength, IInv, TypeOK
<1>12. "state" \in DOMAIN left /\ left.state = 1 /\ left.len = l + 1 /\ left.rem_len = v
  OBVIOUS
<1>4. l \in 0..3 /\ trp.multiplier = Power[l + 1]
  BY <1>3, Zenon DEF IInv, LengthInv
<1>5. /\ g <= Len(pieces) /\ Len(bytes) - Len(stream) = a + 1 + l
      /\ g < Len(pieces) => l < p.k /\ trp.rem_len = Value(p.n, l) /\ buf = <<p.h>>
  BY <1>2, <1>3, Zenon DEF Place
<1>6. /\ g \in Nat /\ Len(pieces) \in Nat /\ Len(bytes) \in Nat /\ Len(stream) \in Nat /\ a \in Nat
      /\ g < Len(pieces) =>
           /\ LiesAt(bytes, a, p) /\ p \in Piece /\ EncodedSize(p.n) <= p.k
  BY <1>2, <1>5, WhereIs
<1>7. /\ Shows(stream', bytes) /\ Len(stream') = Len(stream) - 1 /\ Len(stream) >= 1
      /\ c = bytes[Len(bytes) - Len(stream) + 1]
  BY <1>2, <1>3, ShowTail
<1>8. /\ Len(bytes) - Len(stream') = a + 1 + (l + 1) /\ c = bytes[a + 1 + (l + 1)]
      /\ a < Len(bytes)
  <2> DEFINE lb == Len(bytes)
             ls == Len(stream)
  <2>1. lb \in Nat /\ ls \in Nat /\ a \in Nat /\ lb - ls = a + 1 + l
    BY <1>5, <1>6
  <2>3. l \in 0..3
    BY <1>4
  <2> HIDE DEF lb, ls, a, l
  <2>2. /\ lb - (ls - 1) = a + 1 + (l + 1) /\ lb - ls + 1 = a + 1 + (l + 1)
        /\ a < lb
    BY <2>1, <2>3, SMT
  <2> QED
    BY <1>7, <2>2, Zenon DEF lb, ls
<1>9. GotInv /\ SentInv
  BY Zenon DEF Rest
<1> HIDE DEF c, v, l, g, a, p, left
<1>10. CASE g < Len(pieces)
  <2>1. /\ p.h \in Byte /\ p.n \in 0..MaxRemaining /\ p.n \in Nat /\ p.k \in 1..4
        /\ LiesAt(bytes, a, p) /\ EncodedSize(p.n) <= p.k
        /\ l < p.k /\ trp.rem_len = Value(p.n, l) /\ buf = <<p.h>>
    BY <1>5, <1>6, <1>10, PieceIs
  <2>2. c = Digit(p.n, l + 1) + (IF l + 1 < p.k THEN 128 ELSE 0)
    <3>1. l + 1 \in 1..p.k
      <4> DEFINE k == p.k
      <4>1. k \in 1..4 /\ l < k
        BY <2>1
      <4> HIDE DEF k
      <4>2. l + 1 \in 1..k
        BY <1>4, <4>1, SMT
      <4> QED
        BY <4>2 DEF k
    <3>2. \A j \in 1..p.k : bytes[a + 1 + j] = Digit(p.n, j) + (IF j < p.k THEN 128 ELSE 0)
      BY <2>1, Zenon DEF LiesAt
    <3>3. bytes[a + 1 + (l + 1)] = Digit(p.n, l + 1) + (IF l + 1 < p.k THEN 128 ELSE 0)
      BY <3>1, <3>2
    <3> QED
      BY <1>8, <3>3, Zenon
  <2>3. c % 128 = Digit(p.n, l + 1) /\ (Continues(c) <=> l + 1 < p.k)
    BY <1>4, <2>1, <2>2, LengthByte
  <2>4. v = Value(p.n, l + 1)
    <3>1. Value(p.n, l + 1) = Value(p.n, l) + Digit(p.n, l + 1) * Power[l + 1]
      BY <1>4, <2>1, ValueStep
    <3> QED
      BY <1>4, <2>1, <2>3, <3>1, Zenon DEF v
  <2>5. CASE l + 1 < p.k
    <3>1. ~(l + 1 >= MAX_NO_OF_REMAINING_LENGTH_BYTES)
      <4> DEFINE k == p.k
      <4>1. k \in 1..4 /\ l + 1 < k
        BY <2>1, <2>5
      <4> HIDE DEF k
      <4> QED
        BY <1>4, <4>1, SMT DEF MAX_NO_OF_REMAINING_LENGTH_BYTES
    <3>2. trp' = left /\ rc' = 0 /\ got' = got /\ buf' = buf
      BY <1>3, <1>12, <2>3, <2>5, <3>1, Zenon DEF Again
    <3>3. trp'.state = 1 /\ trp'.len = l + 1 /\ trp'.rem_len = v
      BY <1>12, <3>2, Zenon
    <3>4. Place(bytes, pieces, at)'
      <4>1. trp'.state # 0 /\ trp'.state # 2
        BY <3>3, SMT
      <4> QED
        BY <1>5, <1>8, <2>1, <2>4, <2>5, <3>2, <3>3, <4>1, Zenon DEF Place, g, a, p
    <3>5. GotInv' /\ rc' # -1
      <4>1. rc' # -1
        BY <3>2, SMT
      <4> QED
        BY <1>9, <3>2, <4>1, Zenon DEF GotInv, Canonical
    <3> QED
      BY <1>2, <1>7, <1>9, <3>4, <3>5, GoesOn, Zenon
  <2>6. CASE ~(l + 1 < p.k)
    <3>1. l + 1 = p.k /\ p.k \in EncodedSize(p.n)..4
      <4> DEFINE k == p.k
                 e == EncodedSize(p.n)
      <4>1. k \in 1..4 /\ ~(l + 1 < k) /\ l < k /\ e <= k /\ e \in 1..4
        BY <2>1, <2>6, SizeRange
      <4> HIDE DEF k, e
      <4>2. l + 1 = k /\ k \in e..4
        BY <1>4, <4>1, SMT
      <4> QED
        BY <4>2, Zenon DEF k, e
    <3>2. v = p.n
      <4>1. Value(p.n, p.k) = p.n
        BY <2>1, <3>1, ValueEnd
      <4> QED
        BY <2>4, <3>1, <4>1, Zenon
    <3>3. LengthRead(p.n)
      BY <1>3, <2>3, <2>6, <3>2, Zenon
    <3>4. Len(bytes) - Len(stream') = at[Len(got) + 1] + 1 + p.k
      BY <1>8, <3>1, Zenon DEF a, g
    <3> QED
      BY <1>2, <1>7, <1>9, <1>10, <2>1, <3>3, <3>4, LengthReadConn, Zenon DEF g, p
  <2> QED
    BY <2>5, <2>6
<1>11. CASE ~(g < Len(pieces))
  <2>1. g = Len(pieces)
    BY <1>5, <1>6, <1>11, SMT DEF g
  <2>2. /\ faults > 0 /\ a + 5 <= Len(bytes)
        /\ \A j \in 2..5 : bytes[a + j] = 255
    <3>1. a # Len(bytes)
      BY <1>6, <1>8, SMT
    <3> QED
      BY <1>2, <2>1, <3>1, Zenon DEF Ends, a
  <2>3. Continues(c)
    <3>1. l + 2 \in 2..5 /\ a + 1 + (l + 1) = a + (l + 2)
      BY <1>4, <1>6, SMT
    <3>2. bytes[a + (l + 2)] = 255
      BY <2>2, <3>1
    <3>3. c = 255
      BY <1>8, <3>1, <3>2, Zenon
    <3> QED
      BY <3>3, SMT DEF Continues
  <2>4. CASE l + 1 >= MAX_NO_OF_REMAINING_LENGTH_BYTES
    BY <1>3, <1>9, <1>12, <2>2, <2>3, <2>4, GivesUp, Zenon
  <2>5. CASE ~(l + 1 >= MAX_NO_OF_REMAINING_LENGTH_BYTES)
    <3>1. trp' = left /\ rc' = 0 /\ got' = got
      BY <1>3, <1>12, <2>3, <2>5, Zenon DEF Again
    <3>2. trp'.state = 1 /\ trp'.len = l + 1
      BY <1>12, <3>1, Zenon
    <3>3. Place(bytes, pieces, at)'
      <4>1. trp'.state # 0 /\ trp'.state # 2
        BY <3>2, SMT
      <4> QED
        BY <1>5, <1>8, <1>11, <3>1, <3>2, <4>1, Zenon DEF Place, g, a
    <3>4. GotInv' /\ rc' # -1
      <4>1. rc' # -1
        BY <3>1, SMT
      <4> QED
        BY <1>9, <3>1, <4>1, Zenon DEF GotInv, Canonical
    <3> QED
      BY <1>2, <1>7, <1>9, <3>3, <3>4, GoesOn, Zenon
  <2> QED
    BY <2>4, <2>5
<1> QED
  BY <1>10, <1>11

(* A part of the contents goes on where the one before ended. *)
PartOf(s, body, d) == \A j \in 1..Len(s) : s[j] = body[d + j]

Upto(s, d) == SubSeq(s, 1, d)

LEMMA TakeMore ==
  ASSUME NEW body \in Seq(Byte), NEW d \in Nat, NEW s \in Seq(Byte), NEW e,
         e = d + Len(s), e <= Len(body), PartOf(s, body, d)
  PROVE  /\ Upto(body, d) \o s = Upto(body, e)
         /\ Upto(body, d) \in Seq(Byte)
         /\ e = Len(body) => Upto(body, e) = body
<1> DEFINE a == SubSeq(body, 1, d)
           b == SubSeq(body, 1, e)
           k == Len(s)
<1>1. /\ a \in Seq(Byte) /\ Len(a) = d /\ \A j \in 1..d : a[j] = body[j]
  BY SMT
<1>2. /\ b \in Seq(Byte) /\ Len(b) = e /\ \A j \in 1..e : b[j] = body[j]
  BY SMT
<1>3. e = Len(body) => b = body
  BY <1>2, SameSeq
<1> HIDE DEF a, b
<1>4. a \o s \in Seq(Byte) /\ Len(a \o s) = e /\ k \in Nat /\ e = d + k
  BY <1>1, JoinIs
<1> HIDE DEF k
<1>5. ASSUME NEW i \in 1..Len(a \o s) PROVE (a \o s)[i] = b[i]
  <2>1. i \in 1..(d + k) /\ i \in 1..e
    BY <1>4
  <2>2. CASE i <= d
    <3>1. i \in 1..Len(a) /\ i \in 1..d
      BY <1>1, <2>1, <2>2, SMT
    <3>2. (a \o s)[i] = a[i]
      BY <1>1, <3>1, JoinFirst
    <3> QED
      BY <1>1, <1>2, <2>1, <3>1, <3>2, Zenon
  <2>3. CASE i > d
    <3>1. i - d \in 1..k /\ d + (i - d) = i
      BY <1>4, <2>1, <2>3, SMT
    <3>2. \A j \in 1..Len(s) : (a \o s)[Len(a) + j] = s[j]
      BY <1>1, JoinElements
    <3>3. (a \o s)[d + (i - d)] = s[i - d] /\ s[i - d] = body[d + (i - d)]
      BY <1>1, <3>1, <3>2, Zenon DEF PartOf, k
    <3> QED
      BY <1>2, <2>1, <3>1, <3>3, Zenon
  <2> QED
    BY <2>1, <2>2, <2>3, SMT
<1>6. a \o s = b
  BY <1>2, <1>4, <1>5, SameSeq
<1> QED
  BY <1>1, <1>3, <1>6, Zenon DEF a, b, Upto

(* A part of the contents. *)
LEMMA BodyConn ==
  ASSUME IInv, Rest, rc # -1, NEW k \in Portions, ReadBody(k), sent' = sent, faults' = faults
  PROVE  Rest'
<1>1. PICK bytes \in Seq(Byte), pieces \in Seq(Piece), at \in Seq(Nat) : Conn(bytes, pieces, at)
  BY Zenon DEF Rest, ConnInv
<1>2. /\ Laid(bytes, pieces, at) /\ Match(pieces) /\ Ends(bytes, pieces, at)
      /\ Shows(stream, bytes) /\ Place(bytes, pieces, at)
  BY <1>1, Zenon DEF Conn
<1> DEFINE g == Len(got)
           a == at[g + 1]
           p == pieces[g + 1]
           n == p.n
           w == p.k
           body == p.body
           rem == trp.rem_len
           d == n - rem
           part == SubSeq(stream, 1, k)
           head == <<p.h>> \o MQTTPacket_encode(n)
           lb == Len(bytes)
           ls == Len(stream)
           left == [state |-> 2, len |-> trp.len + k, rem_len |-> trp.rem_len - k,
                    multiplier |-> trp.multiplier]
<1>3. /\ trp.state = 2 /\ k <= Len(stream) /\ stream \in Seq(Byte)
      /\ buf' = buf \o part
      /\ stream' = SubSeq(stream, k + 1, Len(stream))
      /\ IF k = rem THEN Done(left) ELSE Again(left)
  BY Zenon DEF ReadBody, IInv, TypeOK
<1>21. "state" \in DOMAIN left /\ left.state = 2 /\ left.rem_len = rem - k
  OBVIOUS
<1> HIDE DEF left
<1>4. /\ g <= Len(pieces) /\ g < Len(pieces) /\ rem \in 1..n
      /\ lb - ls = a + 1 + w + d
      /\ buf = Packet(p.h, n, Upto(body, d))
  BY <1>2, <1>3, Zenon DEF Place, Upto
<1>5. /\ g \in Nat /\ lb \in Nat /\ ls \in Nat /\ a \in Nat
      /\ at[g + 2] = a + 1 + w + n
      /\ LiesAt(bytes, a, p) /\ p \in Piece /\ Len(body) = n
  BY <1>2, <1>4, WhereIs
<1>6. p.h \in Byte /\ n \in 0..MaxRemaining /\ n \in Nat /\ w \in 1..4 /\ body \in Seq(Byte)
  BY <1>5, PieceIs
<1>7. \A j \in 1..n : bytes[a + 1 + w + j] = body[j]
  BY <1>5 DEF LiesAt
<1>8. GotInv /\ SentInv
  BY Zenon DEF Rest
<1>9. k \in 1..rem /\ k \in 1..ls /\ k \in Nat /\ rem \in Nat /\ rem <= n
  <2>1. k \in 1..(rem - 1) \/ k = rem
    BY DEF Portions
  <2>2. rem \in 1..n /\ k <= ls /\ ls \in Nat /\ n \in Nat
    BY <1>3, <1>4, <1>5, <1>6
  <2> HIDE DEF rem, n, ls
  <2> QED
    BY <2>1, <2>2, SMT
<1>10. /\ Shows(stream', bytes) /\ Len(stream') = ls - k
  BY <1>2, <1>3, <1>9, ShowRest
<1>11. /\ part \in Seq(Byte) /\ Len(part) = k /\ \A j \in 1..k : part[j] = stream[j]
  <2>1. stream \in Seq(Byte) /\ k \in Nat /\ k <= Len(stream)
    BY <1>3, <1>9
  <2>2. /\ SubSeq(stream, 1, k) \in Seq(Byte) /\ Len(SubSeq(stream, 1, k)) = k
        /\ \A j \in 1..k : SubSeq(stream, 1, k)[j] = stream[j]
    BY <2>1, SplitStream, PrefixIs
  <2> QED
    BY <2>2, Zenon DEF part
<1>12. head \in Seq(Byte)
  <2>1. MQTTPacket_encode(n) \in Seq(Byte)
    BY <1>6, EncodeType
  <2>2. <<p.h>> \in Seq(Byte)
    BY <1>6, SMT
  <2> QED
    BY <2>1, <2>2, JoinIs
<1>13. \A x : Packet(p.h, n, x) = head \o x
  BY Zenon DEF Packet
<1> HIDE DEF g, a, p, n, w, body, rem, part, head, lb, ls
<1>14. d \in Nat /\ d + k <= n /\ n - (rem - k) = d + k /\ (k = rem => d + k = n)
       /\ lb - (ls - k) = a + 1 + w + (d + k)
       /\ \A j \in 1..k : d + j \in 1..n /\ j \in 1..ls /\ lb - ls + j = a + 1 + w + (d + j)
  BY <1>4, <1>5, <1>6, <1>9, SMT
<1> HIDE DEF d
<1>15. ASSUME NEW j \in 1..k PROVE part[j] = body[d + j]
  <2>1. stream[j] = bytes[lb - ls + j]
    <3>1. j \in 1..ls
      BY <1>14
    <3> QED
      BY <1>2, <3>1, Zenon DEF Shows, lb, ls
  <2>2. bytes[a + 1 + w + (d + j)] = body[d + j]
    <3>1. d + j \in 1..n
      BY <1>14
    <3> QED
      BY <1>7, <3>1, Zenon
  <2>3. lb - ls + j = a + 1 + w + (d + j)
    BY <1>14
  <2> QED
    BY <1>11, <2>1, <2>2, <2>3, Zenon
<1>16. /\ Upto(body, d) \o part = Upto(body, d + k)
       /\ Upto(body, d) \in Seq(Byte)
       /\ d + k = n => Upto(body, d + k) = body
  <2>1. /\ d + k = d + Len(part) /\ d + k <= Len(body) /\ d \in Nat /\ part \in Seq(Byte)
        /\ body \in Seq(Byte) /\ (d + k = n => d + k = Len(body))
    BY <1>5, <1>6, <1>11, <1>14, Zenon
  <2>2. PartOf(part, body, d)
    BY <1>11, <1>15, Zenon DEF PartOf
  <2> QED
    BY <2>1, <2>2, TakeMore, Zenon
<1>17. buf' = Packet(p.h, n, Upto(body, d + k))
  <2>1. buf' = head \o Upto(body, d) \o part
    BY <1>3, <1>4, <1>13, Zenon
  <2>2. head \o Upto(body, d) \o part = head \o (Upto(body, d) \o part)
    BY <1>11, <1>12, <1>16, JoinAssoc
  <2> QED
    BY <1>13, <1>16, <2>1, <2>2, Zenon
<1>18. lb - Len(stream') = a + 1 + w + (d + k)
  BY <1>10, <1>14, Zenon
<1>19. CASE k = rem
  <2>1. Done(left)
    BY <1>3, <1>19, Zenon
  <2>2. d + k = n
    BY <1>14, <1>19
  <2>3. buf' = Packet(p.h, p.n, p.body)
    BY <1>16, <1>17, <2>2, Zenon DEF n, body
  <2>4. Len(bytes) - Len(stream') = at[Len(got) + 2]
    BY <1>5, <1>18, <2>2, Zenon DEF lb, g
  <2> QED
    BY <1>2, <1>4, <1>8, <1>10, <1>21, <2>1, <2>3, <2>4, Returns, Zenon DEF g, p
<1>20. CASE k # rem
  <2>1. trp' = left /\ rc' = 0 /\ got' = got
    BY <1>3, <1>20, Zenon DEF Again
  <2>2. trp'.state = 2 /\ trp'.rem_len = rem - k
    BY <1>21, <2>1, Zenon
  <2>3. rem - k \in 1..n
    BY <1>6, <1>9, <1>20, SMT
  <2>4. Place(bytes, pieces, at)'
    <3>1. trp'.state # 0 /\ trp'.state # 1
      BY <2>2, SMT
    <3>2. /\ trp'.rem_len \in 1..n
          /\ lb - Len(stream') = a + 1 + w + (n - trp'.rem_len)
          /\ buf' = Packet(p.h, n, Upto(body, n - trp'.rem_len))
      BY <1>14, <1>17, <1>18, <2>2, <2>3, Zenon
    <3> QED
      BY <1>4, <2>1, <2>2, <3>1, <3>2, Zenon DEF Place, Upto, g, a, p, n, w, body, lb
  <2>5. GotInv' /\ rc' # -1
    <3>1. rc' # -1
      BY <2>1, SMT
    <3> QED
      BY <1>8, <2>1, <3>1, Zenon DEF GotInv, Canonical
  <2> QED
    BY <1>2, <1>8, <1>10, <2>4, <2>5, GoesOn, Zenon
<1> QED
  BY <1>19, <1>20

(* The reader is where it was when only the far end takes a step. *)
LEMMA PlaceOn ==
  ASSUME NEW bytes, NEW pieces, NEW at, Place(bytes, pieces, at), UNCHANGED <<trp, buf, got>>,
         NEW bytes2, NEW pieces2, NEW at2,
         Len(bytes2) - Len(stream') = Len(bytes) - Len(stream),
         at2[Len(got) + 1] = at[Len(got) + 1], Len(got) <= Len(pieces2),
         Len(got) < Len(pieces) =>
           Len(got) < Len(pieces2) /\ pieces2[Len(got) + 1] = pieces[Len(got) + 1],
         trp.state = 1 /\ Len(got) < Len(pieces2) => Len(got) < Len(pieces)
  PROVE  Place(bytes2, pieces2, at2)'
<1>1. trp' = trp /\ buf' = buf /\ got' = got
  OBVIOUS
<1> QED
  BY <1>1, Zenon DEF Place

(* A length that does not end stays where it is. *)
Endless(bytes, last) == last + 5 <= Len(bytes) /\ \A j \in 2..5 : bytes[last + j] = 255

LEMMA EndlessOn ==
  ASSUME NEW bytes \in Seq(Byte), NEW last \in Nat, Endless(bytes, last), NEW w \in Seq(Byte)
  PROVE  Endless(bytes \o w, last)
<1>1. Len(bytes \o w) = Len(bytes) + Len(w) /\ Len(bytes) \in Nat /\ Len(w) \in Nat
  BY JoinIs
<1>2. last + 5 <= Len(bytes) /\ \A j \in 2..5 : bytes[last + j] = 255
  BY DEF Endless
<1>3. last + 5 <= Len(bytes \o w) /\ \A j \in 2..5 : last + j \in 1..Len(bytes)
  BY <1>1, <1>2, SMT
<1>4. ASSUME NEW j \in 2..5 PROVE (bytes \o w)[last + j] = 255
  <2>1. last + j \in 1..Len(bytes)
    BY <1>3
  <2>2. (bytes \o w)[last + j] = bytes[last + j]
    BY <2>1, JoinFirst
  <2> QED
    BY <1>2, <2>2, Zenon
<1> QED
  BY <1>3, <1>4, Zenon DEF Endless

LEMMA EndsIs ==
  ASSUME NEW bytes, NEW pieces, NEW at
  PROVE  Ends(bytes, pieces, at) <=>
           \/ Len(pieces) = Len(sent) /\ at[Len(pieces) + 1] = Len(bytes)
           \/ faults > 0 /\ Endless(bytes, at[Len(pieces) + 1])
BY Zenon DEF Ends, Endless

(* A length that does not end is sent. *)
LEMMA SendBadConn ==
  ASSUME IInv, Rest, SendBad
  PROVE  Rest'
<1> DEFINE bad == <<Header("PUBLISH", 0, 0, 0), 255, 255, 255, 255, 1>>
<1>1. /\ rc # -1 /\ Fault /\ stream' = stream \o bad
      /\ sent' = sent /\ trp' = trp /\ buf' = buf /\ got' = got /\ rc' = rc
  BY DEF SendBad
<1>2. PICK bytes \in Seq(Byte), pieces \in Seq(Piece), at \in Seq(Nat) : Conn(bytes, pieces, at)
  BY <1>1, Zenon DEF Rest, ConnInv
<1>3. /\ Laid(bytes, pieces, at) /\ Match(pieces) /\ Ends(bytes, pieces, at)
      /\ Shows(stream, bytes) /\ Place(bytes, pieces, at)
  BY <1>2, Zenon DEF Conn
<1>4. stream \in Seq(Byte) /\ bad \in Seq(Byte) /\ Len(bad) = 6
      /\ bad[2] = 255 /\ bad[3] = 255 /\ bad[4] = 255 /\ bad[5] = 255
  <2>1. Header("PUBLISH", 0, 0, 0) \in Byte
    <3>1. "PUBLISH" \in PacketTypes /\ 0 \in Bit /\ 0 \in 0..2
      BY SMT DEF PacketTypes, Bit
    <3> QED
      BY <3>1, HeaderIs
  <2>2. 255 \in Byte /\ 1 \in Byte
    BY ByteIs, SMT
  <2> QED
    BY <2>1, <2>2, SMT DEF IInv, TypeOK
<1> HIDE DEF bad
<1>5. faults' > 0 /\ faults' # 0
  <2>1. faults \in 0..MaxFaults /\ faults' = faults + 1
    BY <1>1, Zenon DEF Fault, IInv, TypeOK
  <2>2. faults \in Nat
    BY <2>1, ReaderAssumption, SMT
  <2>3. \A x \in Nat : x + 1 > 0 /\ x + 1 # 0
    BY SMT
  <2> QED
    BY <2>1, <2>2, <2>3, Zenon
<1> DEFINE bytes2 == bytes \o bad
           last == at[Len(pieces) + 1]
<1>6. /\ bytes2 \in Seq(Byte) /\ Len(bytes2) = Len(bytes) + 6 /\ Len(bytes) \in Nat
      /\ Len(pieces) \in Nat /\ Len(got) \in Nat
  <2>1. Len(got) \in Nat /\ Len(pieces) \in Nat
    BY LenIsNat DEF IInv, TypeOK
  <2>2. bad \in Seq(Byte)
    BY <1>4
  <2>3. bytes2 \in Seq(Byte) /\ Len(bytes2) = Len(bytes) + Len(bad) /\ Len(bytes) \in Nat
    BY <2>2, JoinIs
  <2> QED
    BY <1>4, <2>1, <2>3, Zenon
<1>7. Laid(bytes2, pieces, at)
  BY <1>3, <1>4, LaidOn
<1>8. Match(pieces)'
  BY <1>1, <1>3, <1>5, Zenon DEF Match
<1>9. last \in Nat
  <2>1. Len(pieces) + 1 \in 1..Len(at)
    <3>1. Len(at) = Len(pieces) + 1
      BY <1>3 DEF Laid
    <3> QED
      BY <1>6, <3>1, SMT
  <2> QED
    BY <2>1, ElementIs
<1>10. Endless(bytes2, last)
  <2>1. CASE last = Len(bytes)
    <3>1. \A i \in 1..Len(bad) : bytes2[Len(bytes) + i] = bad[i]
      <4>1. bad \in Seq(Byte)
        BY <1>4
      <4> QED
        BY <4>1, JoinElements
    <3>2. ASSUME NEW j \in 2..5 PROVE bytes2[last + j] = 255
      <4>1. j \in 1..6 /\ j \in {2, 3, 4, 5}
        BY SMT
      <4>2. j \in 1..Len(bad)
        BY <1>4, <4>1, Zenon
      <4>4. bytes2[last + j] = bad[j]
        BY <2>1, <3>1, <4>2, Zenon
      <4>3. bad[j] = 255
        BY <1>4, <4>1, Zenon
      <4> QED
        BY <4>3, <4>4, Zenon
    <3>3. last + 5 <= Len(bytes2)
      <4> HIDE DEF bytes2, last
      <4> QED
        BY <1>6, <2>1, SMT
    <3> QED
      BY <3>2, <3>3, Zenon DEF Endless
  <2>2. CASE Endless(bytes, last)
    BY <1>4, <1>9, <2>2, EndlessOn
  <2> QED
    BY <1>3, <2>1, <2>2, EndsIs, Zenon
<1>11. Ends(bytes2, pieces, at)'
  BY <1>5, <1>10, Zenon DEF Ends, Endless
<1>12. /\ Shows(stream', bytes2) /\ Len(bytes2) - Len(stream') = Len(bytes) - Len(stream)
  BY <1>1, <1>3, <1>4, ShowMore
<1> HIDE DEF bytes2, last
<1>13. Place(bytes2, pieces, at)'
  <2>1. Len(got) <= Len(pieces)
    BY <1>3, Zenon DEF Place
  <2>2. UNCHANGED <<trp, buf, got>>
    BY <1>1
  <2> QED
    BY <1>3, <1>12, <2>1, <2>2, PlaceOn, Zenon
<1>14. ConnInv'
  <2>1. Conn(bytes2, pieces, at)'
    BY <1>7, <1>8, <1>11, <1>12, <1>13, Zenon DEF Conn
  <2> QED
    BY <1>6, <2>1, Zenon DEF ConnInv
<1>15. GotInv' /\ SentInv' /\ StopInv'
  BY <1>1, Zenon DEF Rest, GotInv, SentInv, StopInv, Canonical
<1> QED
  BY <1>14, <1>15 DEF Rest

(* A message is sent behind all that was: it is the next piece, unless a length *)
(* that does not end lies before it.                                            *)
LEMMA SendConn ==
  ASSUME IInv, Rest, NEW m \in Messages, NEW size \in SendBufs, NEW form \in Forms,
         Send(m, size, form)
  PROVE  Rest'
<1> DEFINE wire == OnTheWire(Serialize(m, size), form)
<1>1. /\ rc # -1 /\ Serialize(m, size) # BufferTooShort
      /\ IF size > BufLen THEN Fault ELSE faults' = faults
      /\ sent' = Append(sent, m) /\ stream' = stream \o wire
      /\ trp' = trp /\ buf' = buf /\ got' = got /\ rc' = rc
  BY Zenon DEF Send
<1>2. PICK bytes \in Seq(Byte), pieces \in Seq(Piece), at \in Seq(Nat) : Conn(bytes, pieces, at)
  BY <1>1, Zenon DEF Rest, ConnInv
<1>3. /\ Laid(bytes, pieces, at) /\ Match(pieces) /\ Ends(bytes, pieces, at)
      /\ Shows(stream, bytes) /\ Place(bytes, pieces, at)
  BY <1>2, Zenon DEF Conn
<1>4. PICK h, n, body : FrameIs(m, h, n, body)
  BY MessageFrame
<1>5. h \in Byte /\ body \in Seq(Byte) /\ Len(body) = n
  BY <1>4 DEF FrameIs
<1>6. /\ n \in 0..MaxRemaining
      /\ \E w \in EncodedSize(n)..4 : wire = Wire(h, n, w, body)
      /\ size <= BufLen => 1 + EncodedSize(n) + n <= BufLen
  <2> HIDE DEF wire
  <2>1. /\ n \in 0..MaxRemaining
        /\ \E w \in EncodedSize(n)..4 : OnTheWire(Serialize(m, size), form) = Wire(h, n, w, body)
        /\ size <= BufLen => 1 + EncodedSize(n) + n <= BufLen
    BY <1>1, <1>4, WireIs
  <2> QED
    BY <2>1, Zenon DEF wire
<1>7. PICK k \in EncodedSize(n)..4 : wire = Wire(h, n, k, body)
  BY <1>6
<1>8. wire \in Seq(Byte) /\ k \in 1..4
  BY <1>5, <1>6, <1>7, WireType
<1>9. EncodedSize(n) <= k
  <2>1. EncodedSize(n) \in 1..4
    BY <1>6, SizeRange
  <2> QED
    BY <2>1, SMT
<1> HIDE DEF wire
<1> DEFINE p == [h |-> h, n |-> n, k |-> k, body |-> body]
           bytes2 == bytes \o wire
           last == at[Len(pieces) + 1]
           g == Len(got)
<1>10. p \in Piece /\ p.h = h /\ p.n = n /\ p.k = k /\ p.body = body
  <2>1. p \in Piece
    BY <1>5, <1>6, <1>8 DEF Piece
  <2> QED
    BY <2>1
<1> HIDE DEF p
<1>11. /\ sent \in Seq(Messages) /\ stream \in Seq(Byte) /\ faults \in Nat /\ faults' \in Nat
       /\ (faults' = 0 => faults = 0 /\ size <= BufLen)
       /\ (faults > 0 => faults' > 0)
  <2>1. faults \in 0..MaxFaults /\ size \in 0..(MaxRemaining + 5) /\ BufLen \in Nat
    BY ReaderAssumption DEF IInv, TypeOK
  <2>2. faults \in Nat /\ size \in Nat
    <3>1. MaxRemaining + 5 \in Nat
      BY MaxIs, SMT
    <3>2. \A x \in Nat : \A y \in 0..x : y \in Nat
      BY SMT
    <3> QED
      BY <2>1, <3>1, <3>2, ReaderAssumption
  <2>3. faults' = faults \/ faults' = faults + 1
    BY <1>1, Zenon DEF Fault
  <2>4. ~(size <= BufLen) => faults' = faults + 1
    <3>1. ~(size <= BufLen) => size > BufLen
      BY <2>1, <2>2, SMT
    <3> QED
      BY <1>1, <3>1, Zenon DEF Fault
  <2>5. faults' \in Nat /\ (faults' = 0 => faults = 0 /\ faults' # faults + 1)
        /\ (faults > 0 => faults' > 0)
    BY <2>2, <2>3, SMT
  <2> QED
    BY <2>2, <2>4, <2>5, Zenon DEF IInv, TypeOK
<1>12. /\ Len(sent') = Len(sent) + 1 /\ sent'[Len(sent) + 1] = m
       /\ \A i \in 1..Len(sent) : sent'[i] = sent[i]
       /\ Len(sent) \in Nat /\ Len(pieces) \in Nat /\ Len(bytes) \in Nat /\ Len(pieces) <= Len(sent)
  <2>1. Len(pieces) <= Len(sent) /\ Len(sent) \in Nat /\ Len(pieces) \in Nat /\ Len(bytes) \in Nat
    BY <1>3, <1>11, LenIsNat DEF Match
  <2>2. /\ Len(Append(sent, m)) = Len(sent) + 1 /\ Append(sent, m)[Len(sent) + 1] = m
        /\ \A i \in 1..Len(sent) : Append(sent, m)[i] = sent[i]
    BY <1>11, AppendIs
  <2> QED
    BY <1>1, <2>1, <2>2, Zenon
<1>13. /\ Shows(stream', bytes2) /\ Len(bytes2) - Len(stream') = Len(bytes) - Len(stream)
       /\ Len(bytes2) = Len(bytes) + Len(wire) /\ bytes2 \in Seq(Byte)
  <2>1. bytes2 \in Seq(Byte)
    BY <1>8, JoinIs
  <2>2. /\ Shows(stream \o wire, bytes2)
        /\ Len(bytes2) - Len(stream \o wire) = Len(bytes) - Len(stream)
        /\ Len(bytes2) = Len(bytes) + Len(wire)
    BY <1>3, <1>8, <1>11, ShowMore
  <2> QED
    BY <1>1, <2>1, <2>2, Zenon
<1>14. g <= Len(pieces) /\ UNCHANGED <<trp, buf, got>>
  BY <1>1, <1>3, Zenon DEF Place
<1>15. GotInv' /\ SentInv' /\ StopInv'
  <2>1. GotInv'
    <3>1. Len(got) <= Len(sent) /\ Len(got) \in Nat
      BY LenIsNat DEF Rest, GotInv, IInv, TypeOK
    <3>2. Len(got) <= Len(sent) + 1 /\ \A i \in 1..Len(got) : i \in 1..Len(sent)
      BY <1>12, <3>1, SMT
    <3>3. \A i \in 1..Len(got) : got[i] = Canonical(sent[i])
      BY DEF Rest, GotInv
    <3>4. Len(got') <= Len(sent') /\ \A i \in 1..Len(got') : got'[i] = Canonical(sent'[i])
      BY <1>1, <1>12, <3>2, <3>3, Zenon
    <3> QED
      BY <3>4 DEF GotInv, Canonical
  <2>2. SentInv'
    <3>1. Serialize(m, MaxRemaining + 5) # BufferTooShort
      BY <1>4, <1>6, CanonicalIs, Zenon DEF BufferTooShort
    <3>2. ASSUME NEW i \in 1..Len(sent')
          PROVE  Serialize(sent'[i], MaxRemaining + 5) # BufferTooShort
      <4>1. i \in 1..Len(sent) \/ i = Len(sent) + 1
        BY <1>12, SMT
      <4> QED
        BY <1>12, <3>1, <4>1, Zenon DEF Rest, SentInv
    <3> QED
      BY <3>2 DEF SentInv
  <2> QED
    BY <1>1, <2>1, <2>2, Zenon DEF StopInv
<1>16. CASE Len(pieces) = Len(sent) /\ last = Len(bytes)
  <2> DEFINE end == Len(bytes) + 1 + p.k + p.n
             more == Append(pieces, p)
             ats == Append(at, end)
  <2>1. Laid(bytes2, more, ats)
    <3>1. Laid(bytes \o Wire(p.h, p.n, p.k, p.body), more, ats)
      BY <1>3, <1>5, <1>9, <1>10, <1>16, LaidMore
    <3> QED
      BY <1>7, <1>10, <3>1, Zenon
  <2>2. end \in Nat
    <3>1. Len(bytes) \in Nat /\ n \in Nat /\ p.n = n /\ p.k = k
      BY <1>6, <1>10, <1>12, LengthIs
    <3>2. Len(bytes) + 1 + k + n \in Nat
      BY <1>8, <3>1, SMT
    <3> QED
      BY <3>1, <3>2, Zenon
  <2> HIDE DEF end
  <2>3. /\ more \in Seq(Piece) /\ Len(more) = Len(pieces) + 1 /\ more[Len(pieces) + 1] = p
        /\ \A i \in 1..Len(pieces) : more[i] = pieces[i]
    BY <1>10, AppendIs
  <2>4. /\ ats \in Seq(Nat) /\ Len(ats) = Len(at) + 1
        /\ \A i \in 1..Len(at) : ats[i] = at[i]
    BY <2>2, AppendIs
  <2>5. Len(at) = Len(pieces) + 1 /\ g \in Nat
    BY <1>3, LenIsNat DEF Laid, IInv, TypeOK
  <2>6. Len(bytes2) = ats[Len(more) + 1]
    <3>1. ats[Len(at) + 1] = end
      BY <2>2, AppendIs
    <3>2. Len(bytes2) = end
      <4>1. Len(Wire(h, n, k, body)) = 1 + k + n
        BY <1>5, <1>6, <1>7, WireType
      <4>2. Len(bytes2) = Len(bytes) + (1 + k + n)
        BY <1>7, <1>13, <4>1, Zenon
      <4>3. n \in Nat
        BY <1>6, LengthIs
      <4>4. Len(bytes) + (1 + k + n) = Len(bytes) + 1 + k + n
        BY <1>8, <1>12, <4>3, SMT
      <4> QED
        BY <1>10, <4>2, <4>4, Zenon DEF end
    <3> QED
      BY <2>3, <2>5, <3>1, <3>2, Zenon
  <2> HIDE DEF more, ats, bytes2
  <2>7. Match(more)'
    <3>1. ASSUME NEW i \in 1..Len(more)
          PROVE  /\ FrameIs(sent'[i], more[i].h, more[i].n, more[i].body)
                 /\ faults' = 0 => 1 + EncodedSize(more[i].n) + more[i].n <= BufLen
      <4>1. CASE i \in 1..Len(pieces)
        <5>1. /\ FrameIs(sent[i], pieces[i].h, pieces[i].n, pieces[i].body)
              /\ faults = 0 => 1 + EncodedSize(pieces[i].n) + pieces[i].n <= BufLen
          BY <1>3, <4>1, Zenon DEF Match
        <5> QED
          BY <1>11, <1>12, <1>16, <2>3, <4>1, <5>1, Zenon
      <4>2. CASE i = Len(pieces) + 1
        <5>1. more[i] = p /\ sent'[i] = m
          BY <1>12, <1>16, <2>3, <4>2, Zenon
        <5> QED
          BY <1>4, <1>6, <1>10, <1>11, <5>1, Zenon
      <4>3. i \in 1..Len(pieces) \/ i = Len(pieces) + 1
        BY <1>12, <2>3, SMT
      <4> QED
        BY <4>1, <4>2, <4>3, Zenon
    <3>2. Len(more) <= Len(sent')
      BY <1>12, <1>16, <2>3, SMT
    <3> QED
      BY <3>1, <3>2, Zenon DEF Match, FrameIs
  <2>8. Ends(bytes2, more, ats)'
    <3>1. Len(more) = Len(sent')
      BY <1>12, <1>16, <2>3, Zenon
    <3> QED
      BY <2>6, <3>1, Zenon DEF Ends
  <2>9. Place(bytes2, more, ats)'
    <3>1. /\ g + 1 \in 1..Len(at) /\ g <= Len(more) /\ g < Len(more)
          /\ g < Len(pieces) => g + 1 \in 1..Len(pieces)
      <4> HIDE DEF g
      <4> QED
        BY <1>12, <1>14, <2>3, <2>5, SMT
    <3>2. ats[g + 1] = at[g + 1]
      BY <2>4, <3>1, Zenon
    <3>3. g < Len(pieces) => g < Len(more) /\ more[g + 1] = pieces[g + 1]
      BY <2>3, <3>1, Zenon
    <3>4. trp.state = 1 => g < Len(pieces)
      <4>1. CASE trp.state = 1 /\ ~(g < Len(pieces))
        <5>1. g = Len(pieces)
          <6> HIDE DEF g
          <6> QED
            BY <1>12, <1>14, <2>5, <4>1, SMT
        <5>2. Len(bytes) - Len(stream) = Len(bytes) + 1 + trp.len
          BY <1>3, <1>16, <4>1, <5>1, Zenon DEF Place
        <5>3. trp.len \in 0..3 /\ Len(stream) \in Nat
          BY <1>11, <4>1, LenIsNat DEF IInv, LengthInv
        <5>4. FALSE
          <6> DEFINE l == trp.len
                     lb == Len(bytes)
                     ls == Len(stream)
          <6>1. lb \in Nat /\ ls \in Nat /\ l \in 0..3 /\ lb - ls = lb + 1 + l
            BY <1>12, <5>2, <5>3
          <6> HIDE DEF l, lb, ls
          <6> QED
            BY <6>1, SMT
        <5> QED
          BY <5>4
      <4> QED
        BY <4>1
    <3> QED
      BY <1>3, <1>13, <1>14, <3>1, <3>2, <3>3, <3>4, PlaceOn, Zenon DEF g
  <2>10. Conn(bytes2, more, ats)'
    BY <1>13, <2>1, <2>7, <2>8, <2>9, Zenon DEF Conn
  <2>11. ConnInv'
    BY <1>13, <2>3, <2>4, <2>10, Zenon DEF ConnInv
  <2> QED
    BY <1>15, <2>11 DEF Rest
<1>17. CASE faults > 0 /\ Endless(bytes, last)
  <2>1. Laid(bytes2, pieces, at)
    BY <1>3, <1>8, LaidOn
  <2>2. last \in Nat
    <3>1. Len(pieces) + 1 \in 1..Len(at)
      <4>1. Len(at) = Len(pieces) + 1
        BY <1>3 DEF Laid
      <4> QED
        BY <1>12, <4>1, SMT
    <3> QED
      BY <3>1, ElementIs
  <2>3. Endless(bytes2, last)
    BY <1>8, <1>17, <2>2, EndlessOn
  <2> HIDE DEF bytes2
  <2>4. faults' # 0 /\ faults' > 0
    BY <1>11, <1>17, SMT
  <2>5. Match(pieces)'
    <3>1. ASSUME NEW i \in 1..Len(pieces)
          PROVE  FrameIs(sent'[i], pieces[i].h, pieces[i].n, pieces[i].body)
      <4>1. i \in 1..Len(sent)
        BY <1>12, SMT
      <4>2. sent'[i] = sent[i]
        BY <1>12, <4>1
      <4> QED
        BY <1>3, <4>2, Zenon DEF Match
    <3>2. Len(pieces) <= Len(sent')
      BY <1>12, SMT
    <3> QED
      BY <2>4, <3>1, <3>2, Zenon DEF Match, FrameIs
  <2>6. Ends(bytes2, pieces, at)'
    BY <2>3, <2>4, Zenon DEF Ends, Endless
  <2>7. Place(bytes2, pieces, at)'
    BY <1>3, <1>13, <1>14, PlaceOn, Zenon DEF g
  <2>8. Conn(bytes2, pieces, at)'
    BY <1>13, <2>1, <2>5, <2>6, <2>7, Zenon DEF Conn
  <2>9. ConnInv'
    BY <1>13, <2>8, Zenon DEF ConnInv
  <2> QED
    BY <1>15, <2>9 DEF Rest
<1> QED
  BY <1>3, <1>16, <1>17, EndsIs, Zenon

(* A connection on which nothing has happened. *)
LEMMA Fresh ==
  sent = <<>> /\ stream = <<>> /\ got = <<>> /\ trp.state = 0 => ConnInv /\ GotInv /\ SentInv
<1> SUFFICES ASSUME sent = <<>>, stream = <<>>, got = <<>>, trp.state = 0
             PROVE  ConnInv /\ GotInv /\ SentInv
  OBVIOUS
<1> DEFINE none == <<>>
<1>1. Len(none) = 0 /\ none \in Seq(Byte) /\ none \in Seq(Piece) /\ 1..0 = {}
      /\ \A i \in 1..Len(none) : FALSE
  BY SMT
<1>2. <<0>> \in Seq(Nat) /\ Len(<<0>>) = 0 + 1 /\ <<0>>[0 + 1] = 0 /\ <<0>>[1] = 0 /\ 0 <= 0
      /\ \A i \in 1..1 : <<0>>[i] <= 0
  BY SMT
<1>3. Len(sent) = 0 /\ Len(got) = 0 /\ Len(stream) = 0
  BY SMT
<1>4. Laid(none, none, <<0>>)
  BY <1>1, <1>2, SMT DEF Laid
<1>5. Match(none) /\ Ends(none, none, <<0>>)
  BY <1>1, <1>2, <1>3, SMT DEF Match, Ends
<1>6. Shows(stream, none)
  BY <1>1, <1>3, SMT DEF Shows
<1>7. Place(none, none, <<0>>)
  <2>1. trp.state # 1 /\ trp.state # 2 /\ 0 - 0 = 0
    BY SMT
  <2>2. Len(none) - Len(stream) = <<0>>[Len(got) + 1] /\ Len(got) <= Len(none)
    BY <1>1, <1>2, <1>3, <2>1, Zenon
  <2> HIDE DEF none
  <2> QED
    BY <2>1, <2>2, Zenon DEF Place
<1>8. ConnInv
  <2> HIDE DEF none
  <2>1. Conn(none, none, <<0>>)
    BY <1>4, <1>5, <1>6, <1>7, Zenon DEF Conn
  <2> QED
    BY <1>1, <1>2, <2>1, Zenon DEF ConnInv
<1>9. GotInv /\ SentInv
  BY <1>3, SMT DEF GotInv, SentInv
<1> QED
  BY <1>8, <1>9

LEMMA StreamInit == Init => StreamInv
<1> SUFFICES ASSUME Init PROVE StreamInv
  OBVIOUS
<1>1. /\ sent = <<>> /\ stream = <<>> /\ got = <<>> /\ rc = 0
      /\ trp = [state |-> 0, len |-> 0, rem_len |-> 0, multiplier |-> 1]
  BY DEF Init
<1>2. trp.state = 0 /\ rc # -1
  BY <1>1, SMT
<1>3. StopInv
  BY <1>2, Zenon DEF StopInv
<1> QED
  BY <1>1, <1>2, <1>3, Fresh, InitInv, Zenon DEF StreamInv

LEMMA StreamNext == StreamInv /\ [Next]_vars => StreamInv'
<1> SUFFICES ASSUME StreamInv, [Next]_vars PROVE StreamInv'
  OBVIOUS
<1>1. IInv /\ Rest
  BY Zenon DEF StreamInv, Rest
<1>2. IInv'
  BY <1>1, NextInv
<1>3. Rest'
  <2>1. CASE Read
    <3>1. rc # -1 /\ sent' = sent /\ faults' = faults
      BY <2>1 DEF Read
    <3>2. CASE ReadHeader
      BY <1>1, <3>1, <3>2, HeaderConn
    <3>3. CASE ReadLength
      BY <1>1, <3>1, <3>3, LengthConn
    <3>4. CASE \E k \in Portions : ReadBody(k)
      BY <1>1, <3>1, <3>4, BodyConn
    <3> QED
      BY <2>1, <3>2, <3>3, <3>4 DEF Read
  <2>2. CASE \E m \in Messages, size \in SendBufs, k \in Forms : Send(m, size, k)
    BY <1>1, <2>2, SendConn
  <2>3. CASE SendBad
    BY <1>1, <2>3, SendBadConn
  <2>4. CASE ReadError
    <3>1. Fault /\ Fail(trp) /\ sent' = sent
      BY <2>4 DEF ReadError
    <3>3. "state" \in DOMAIN trp
      BY <1>1 DEF IInv, TypeOK
    <3>2. faults' > 0
      <4>1. faults \in 0..MaxFaults /\ faults' = faults + 1
        BY <1>1, <3>1, Zenon DEF Fault, IInv, TypeOK
      <4>2. faults \in Nat
        BY <4>1, ReaderAssumption, SMT
      <4>3. \A x \in Nat : x + 1 > 0
        BY SMT
      <4> QED
        BY <4>1, <4>2, <4>3, Zenon
    <3> QED
      BY <1>1, <3>1, <3>2, <3>3, GivesUp, Zenon DEF Rest
  <2>5. CASE Reconnect
    <3>1. /\ rc = -1 /\ rc' = 0
          /\ sent' = <<>> /\ stream' = <<>> /\ got' = <<>> /\ trp' = trp
      BY <2>5 DEF Reconnect
    <3>2. trp'.state = 0
      BY <1>1, <3>1, Zenon DEF Rest, StopInv
    <3>3. (sent = <<>> /\ stream = <<>> /\ got = <<>> /\ trp.state = 0)'
      BY <3>1, <3>2
    <3>4. ConnInv' /\ GotInv' /\ SentInv'
      BY <3>3, Fresh, PTL
    <3>5. rc' # -1
      BY <3>1, SMT
    <3> QED
      BY <3>4, <3>5, Zenon DEF Rest, StopInv
  <2>6. CASE UNCHANGED vars
    <3>1. /\ sent' = sent /\ stream' = stream /\ trp' = trp /\ buf' = buf /\ got' = got
          /\ rc' = rc /\ faults' = faults
      BY <2>6 DEF vars
    <3>2. ConnInv'
      <4>1. ASSUME rc # -1 PROVE \E bytes \in Seq(Byte), pieces \in Seq(Piece), at \in Seq(Nat) :
                                    Conn(bytes, pieces, at)'
        <5>1. PICK bytes \in Seq(Byte), pieces \in Seq(Piece), at \in Seq(Nat) :
                Conn(bytes, pieces, at)
          BY <1>1, <4>1, Zenon DEF Rest, ConnInv
        <5>2. /\ Laid(bytes, pieces, at) /\ Match(pieces) /\ Ends(bytes, pieces, at)
              /\ Shows(stream, bytes) /\ Place(bytes, pieces, at)
          BY <5>1, Zenon DEF Conn
        <5>3. Match(pieces)' /\ Ends(bytes, pieces, at)' /\ Shows(stream', bytes)
          BY <3>1, <5>2, Zenon DEF Match, Ends
        <5>4. Place(bytes, pieces, at)'
          BY <3>1, <5>2, Zenon DEF Place
        <5>5. Conn(bytes, pieces, at)'
          BY <5>2, <5>3, <5>4, Zenon DEF Conn
        <5> QED
          BY <5>5, Zenon
      <4> QED
        BY <3>1, <4>1, Zenon DEF ConnInv
    <3>3. GotInv' /\ SentInv' /\ StopInv'
      BY <1>1, <3>1, Zenon DEF Rest, GotInv, SentInv, StopInv, Canonical
    <3> QED
      BY <3>2, <3>3 DEF Rest
  <2> QED
    BY <2>1, <2>2, <2>3, <2>4, <2>5, <2>6 DEF Next
<1> QED
  BY <1>2, <1>3, Zenon DEF StreamInv, Rest

(* The invariant of the reader and the connection. *)
THEOREM StreamInvariant == Spec => []StreamInv
  BY StreamInit, StreamNext, PTL DEF Spec

-----------------------------------------------------------------------------
(* The properties of the reader.                                           *)

\* The reader reports an error only after something went wrong: a packet that was
\* serialized to a buffer of no more than the reader's size is never refused.
THEOREM ReaderOnlyFaultsFail == Spec => []OnlyFaultsFail
<1>1. StreamInv => OnlyFaultsFail
  BY Zenon DEF StreamInv, StopInv, OnlyFaultsFail
<1> QED
  BY <1>1, StreamInvariant, PTL

(* What is returned is what the serializer writes to a buffer that is long enough. *)
LEMMA GotIs ==
  ASSUME StreamInv, NEW i \in 1..Len(got)
  PROVE  /\ i \in 1..Len(sent) /\ sent[i] \in Messages
         /\ got[i] = Serialize(sent[i], MaxRemaining + 5)
         /\ Serialize(sent[i], MaxRemaining + 5) # BufferTooShort
         /\ MaxRemaining + 5 \in Nat /\ MaxRemaining + 5 <= MaxRemaining + 5
<1>1. /\ Len(got) <= Len(sent) /\ got[i] = Canonical(sent[i])
      /\ sent \in Seq(Messages) /\ got \in Seq(Seq(Byte))
  BY Zenon DEF StreamInv, GotInv, IInv, TypeOK
<1>2. i \in 1..Len(sent)
  <2>1. Len(got) \in Nat /\ Len(sent) \in Nat
    BY <1>1, LenIsNat
  <2> QED
    BY <1>1, <2>1, SMT
<1>3. sent[i] \in Messages
  BY <1>1, <1>2, ElementIs
<1>4. Serialize(sent[i], MaxRemaining + 5) # BufferTooShort
  BY <1>2, Zenon DEF StreamInv, SentInv
<1>5. MaxRemaining + 5 \in Nat /\ MaxRemaining + 5 <= MaxRemaining + 5
  BY MaxIs, SMT
<1>6. PICK h, n, body : FrameIs(sent[i], h, n, body)
  BY <1>3, MessageFrame
<1>7. n \in 0..MaxRemaining
  BY <1>4, <1>5, <1>6, FrameFits
<1>8. Canonical(sent[i]) = Serialize(sent[i], MaxRemaining + 5)
  BY <1>6, <1>7, CanonicalIs, Zenon
<1> QED
  BY <1>1, <1>2, <1>3, <1>4, <1>5, <1>8, Zenon

(* The messages that the library deserializes. *)
LEMMA ReadableIs ==
  ASSUME NEW m \in Messages, m.type \in Readable
  PROVE  /\ m \in Publishes \cup AckMsgs \cup Connacks \cup Subacks
         /\ m \in Subacks => Len(m.granted) <= MaxCount
<1>1. /\ m \in Message
      /\ CASE m.type = "CONNECT" ->
                /\ writeStrings(ConnectStrings(m)) \in Seq(Byte)
                /\ Len(writeStrings(ConnectStrings(m))) = StringsLength(ConnectStrings(m))
           [] m.type = "SUBSCRIBE" ->
                /\ writeFilters(m.filters) \in Seq(Byte)
                /\ 2 + Len(writeFilters(m.filters)) = MQTTSerialize_subscribeLength(m)
           [] m.type = "UNSUBSCRIBE" ->
                /\ writeStrings(m.topics) \in Seq(Byte)
                /\ Len(writeStrings(m.topics)) = StringsLength(m.topics)
           [] m.type = "SUBACK" -> Len(m.granted) <= MaxCount
           [] OTHER -> TRUE
  BY MessageAssumption, Zenon
<1>2. /\ m.type # "CONNECT" /\ m.type # "SUBSCRIBE" /\ m.type # "UNSUBSCRIBE"
      /\ m.type \notin {"PINGREQ", "PINGRESP", "DISCONNECT"}
  BY SMT DEF Readable, Acks
<1>3. m \notin Connects /\ m \notin Subscribes /\ m \notin Unsubs /\ m \notin Plain
  BY <1>2, SMT DEF Connects, Subscribes, Unsubs, Plain
<1>4. m \in Publishes \cup AckMsgs \cup Connacks \cup Subacks
  BY <1>1, <1>3, Zenon DEF Message
<1>5. ASSUME m \in Subacks PROVE Len(m.granted) <= MaxCount
  <2>1. m.type = "SUBACK"
    BY <1>5, SMT DEF Subacks
  <2> QED
    BY <1>1, <2>1, SMT
<1> QED
  BY <1>4, <1>5

\* A packet of a type that the library deserializes is read and deserialized as
\* the message that was sent.
THEOREM ReaderUnderstood == Spec => []Understood
<1>1. StreamInv => Understood
  <2> SUFFICES ASSUME StreamInv, NEW i \in 1..Len(got), sent[i].type \in Readable
               PROVE  ReadsBack(sent[i], got[i], MaxCount)
    BY Zenon DEF Understood, ReadsBack
  <2>1. /\ sent[i] \in Messages /\ got[i] = Serialize(sent[i], MaxRemaining + 5)
        /\ Serialize(sent[i], MaxRemaining + 5) # BufferTooShort
        /\ MaxRemaining + 5 \in Nat /\ MaxRemaining + 5 <= MaxRemaining + 5
    BY GotIs
  <2>2. /\ sent[i] \in Publishes \cup AckMsgs \cup Connacks \cup Subacks
        /\ sent[i] \in Subacks => Len(sent[i].granted) <= MaxCount
    BY <2>1, ReadableIs
  <2>3. MaxCount \in Nat
    BY ReaderAssumption
  <2>4. ReadsBack(sent[i], Serialize(sent[i], MaxRemaining + 5), MaxCount)
    BY <2>1, <2>2, <2>3, DeserializesWhatIsSerialized
  <2> QED
    BY <2>1, <2>4, Zenon
<1> QED
  BY <1>1, StreamInvariant, PTL

(* The reader that waits, on bytes that begin with a piece. *)
LEMMA WaitingReads ==
  ASSUME NEW s \in Seq(Byte), NEW p \in Piece, LiesAt(s, 0, p), 1 + p.k + p.n <= Len(s),
         Len(p.body) = p.n, EncodedSize(p.n) <= p.k, 1 + EncodedSize(p.n) + p.n <= BufLen
  PROVE  MQTTPacket_read(s) = [rc |-> p.h \div 16, buf |-> Packet(p.h, p.n, p.body)]
<1> DEFINE h == p.h
           n == p.n
           k == p.k
           body == p.body
           enc == EncodedSize(n)
           d == MQTTPacket_decodeBuf(Tail(s))
           code == MQTTPacket_encode(n)
           part == SubSeq(s, 2 + k, 1 + k + n)
<1>1. h \in Byte /\ n \in 0..MaxRemaining /\ n \in Nat /\ k \in 1..4 /\ body \in Seq(Byte)
      /\ Len(body) = n /\ enc <= k /\ 1 + enc + n <= BufLen /\ 1 + k + n <= Len(s)
  BY PieceIs
<1>2. enc \in 1..4 /\ code \in Seq(Byte) /\ Len(code) = enc
  BY <1>1, SizeRange, EncodeType
<1>3. /\ s[0 + 1] = h
      /\ \A j \in 1..k : s[0 + 1 + j] = Digit(n, j) + (IF j < k THEN 128 ELSE 0)
      /\ \A j \in 1..n : s[0 + 1 + k + j] = body[j]
  BY Zenon DEF LiesAt
<1> HIDE DEF h, n, k, body, enc, code
<1>4. k \in enc..4
  BY <1>1, <1>2, SMT
<1>5. s[1] = h /\ Len(s) \in Nat /\ s # <<>>
  <2>1. 0 + 1 = 1
    BY SMT
  <2>2. Len(s) \in Nat /\ Len(s) # 0
    BY <1>1, SMT
  <2>3. s # <<>>
    BY <2>2, SMT
  <2> QED
    BY <1>3, <2>1, <2>2, <2>3, Zenon
<1>6. \A j \in 1..k : Tail(s)[j] = Digit(n, j) + (IF j < k THEN 128 ELSE 0)
  <2>1. Len(Tail(s)) = Len(s) - 1 /\ \A j \in 1..Len(Tail(s)) : Tail(s)[j] = s[j + 1]
    BY <1>5, SMT
  <2>2. \A j \in 1..k : j \in 1..(Len(s) - 1) /\ j + 1 = 0 + 1 + j
    BY <1>1, <1>5, SMT
  <2> QED
    BY <1>3, <2>1, <2>2, Zenon
<1>7. d.value = n /\ d.len = k
  <2>1. d = [value |-> n, len |-> k]
    <3> HIDE DEF d
    <3>1. MQTTPacket_decodeBuf(Tail(s)) = [value |-> n, len |-> k]
      BY <1>1, <1>4, <1>6, DigitsReadBack, Zenon DEF enc
    <3> QED
      BY <3>1, Zenon DEF d
  <2> HIDE DEF d
  <2> QED
    BY <2>1
<1>8. part = body
  <2>1. part \in Seq(Byte) /\ Len(part) = n
    BY <1>1, <1>5, SMT
  <2>2. \A j \in 1..n : part[j] = s[1 + k + j]
    BY <1>1, <1>5, SMT
  <2>3. \A j \in 1..n : 0 + 1 + k + j = 1 + k + j
    BY <1>1, SMT
  <2> HIDE DEF part
  <2>4. \A j \in 1..Len(part) : part[j] = body[j]
    BY <1>3, <2>1, <2>2, <2>3, Zenon
  <2> QED
    BY <1>1, <2>1, <2>4, SameSeq
<1> DEFINE head == <<h>> \o code
<1>9. Len(head) = 1 + enc
  <2>1. <<h>> \in Seq(Byte) /\ Len(<<h>>) = 1
    BY <1>1, SMT
  <2> QED
    BY <1>2, <2>1, JoinIs
<1>10. MQTTPacket_read(s) =
         IF n + Len(head) > BufLen THEN [rc |-> -1, buf |-> head]
         ELSE [rc |-> s[1] \div 16, buf |-> head \o part]
  <2> HIDE DEF d
  <2>1. MQTTPacket_read(s) =
          LET hd == <<s[1]>> \o MQTTPacket_encode(d.value) IN
          IF d.value + Len(hd) > BufLen THEN [rc |-> -1, buf |-> hd]
          ELSE [rc  |-> s[1] \div 16,
                buf |-> hd \o SubSeq(s, 2 + d.len, 1 + d.len + d.value)]
    BY Zenon DEF MQTTPacket_read, d
  <2> QED
    BY <1>5, <1>7, <2>1, Zenon DEF code
<1> HIDE DEF head, part
<1>11. ~(n + Len(head) > BufLen)
  <2>1. BufLen \in Nat
    BY ReaderAssumption
  <2> QED
    BY <1>1, <1>2, <1>9, <2>1, SMT
<1>12. head \o body = Packet(p.h, p.n, p.body)
  BY Zenon DEF head, code, h, n, body, Packet
<1> QED
  BY <1>5, <1>8, <1>10, <1>11, <1>12, Zenon DEF h

\* Both readers make the same of the bytes of the packet that comes next.
THEOREM BothReadersAgree == Spec => []ReadersAgree
<1>1. StreamInv => ReadersAgree
  <2> SUFFICES ASSUME StreamInv, trp.state = 0, faults = 0, Len(got) < Len(sent)
               PROVE  MQTTPacket_read(stream) =
                        [rc  |-> Canonical(sent[Len(got) + 1])[1] \div 16,
                         buf |-> Canonical(sent[Len(got) + 1])]
    BY Zenon DEF ReadersAgree
  <2>1. ~(faults > 0)
    BY SMT
  <2>2. rc # -1
    BY <2>1, Zenon DEF StreamInv, StopInv
  <2>3. PICK bytes \in Seq(Byte), pieces \in Seq(Piece), at \in Seq(Nat) : Conn(bytes, pieces, at)
    BY <2>2, Zenon DEF StreamInv, ConnInv
  <2>4. /\ Laid(bytes, pieces, at) /\ Match(pieces) /\ Ends(bytes, pieces, at)
        /\ Shows(stream, bytes) /\ Place(bytes, pieces, at) /\ IInv
    BY <2>3, Zenon DEF Conn, StreamInv
  <2> DEFINE g == Len(got)
             a == at[g + 1]
             p == pieces[g + 1]
             lb == Len(bytes)
             ls == Len(stream)
  <2>5. Len(pieces) = Len(sent) /\ g < Len(pieces) /\ g <= Len(pieces) /\ lb - ls = a
    BY <2>1, <2>4, Zenon DEF Ends, Place
  <2>6. /\ g \in Nat /\ lb \in Nat /\ ls \in Nat /\ a \in Nat
        /\ g + 1 \in 1..Len(pieces)
        /\ at[g + 2] = a + 1 + p.k + p.n /\ at[g + 2] <= lb
        /\ LiesAt(bytes, a, p) /\ p \in Piece
        /\ Len(p.body) = p.n /\ EncodedSize(p.n) <= p.k
    BY <2>4, <2>5, WhereIs
  <2> HIDE DEF p
  <2>7. p.n \in Nat /\ p.n \in 0..MaxRemaining /\ p.k \in 1..4 /\ p.h \in Byte /\ p.body \in Seq(Byte)
    BY <2>6, PieceIs
  <2>8. FrameIs(sent[g + 1], p.h, p.n, p.body) /\ 1 + EncodedSize(p.n) + p.n <= BufLen
    BY <2>4, <2>6, Zenon DEF Match, p
  <2>9. 1 + p.k + p.n <= ls /\ LiesAt(stream, 0, p)
    <3> DEFINE n == p.n
               k == p.k
    <3>1. n \in Nat /\ k \in 1..4 /\ a + 1 + k + n <= lb
      BY <2>6, <2>7
    <3>2. \A x \in 1..ls : stream[x] = bytes[lb - ls + x]
      BY <2>4, Zenon DEF Shows
    <3>3. /\ bytes[a + 1] = p.h
          /\ \A j \in 1..k : bytes[a + 1 + j] = Digit(n, j) + (IF j < k THEN 128 ELSE 0)
          /\ \A j \in 1..n : bytes[a + 1 + k + j] = p.body[j]
      BY <2>6, Zenon DEF LiesAt
    <3> HIDE DEF n, k, lb, ls, a
    <3>4. /\ 1 + k + n <= ls
          /\ 0 + 1 \in 1..ls /\ a + (0 + 1) = a + 1
          /\ \A j \in 1..k : 0 + 1 + j \in 1..ls /\ a + (0 + 1 + j) = a + 1 + j
          /\ \A j \in 1..n : 0 + 1 + k + j \in 1..ls /\ a + (0 + 1 + k + j) = a + 1 + k + j
      BY <2>5, <2>6, <3>1, SMT
    <3>5. stream[0 + 1] = p.h
      BY <2>5, <3>2, <3>3, <3>4, Zenon
    <3>6. ASSUME NEW j \in 1..k
          PROVE  stream[0 + 1 + j] = Digit(n, j) + (IF j < k THEN 128 ELSE 0)
      <4>1. 0 + 1 + j \in 1..ls /\ a + (0 + 1 + j) = a + 1 + j
        BY <3>4
      <4>2. stream[0 + 1 + j] = bytes[a + 1 + j]
        BY <2>5, <3>2, <4>1, Zenon
      <4> QED
        BY <3>3, <4>2, Zenon
    <3>7. ASSUME NEW j \in 1..n PROVE stream[0 + 1 + k + j] = p.body[j]
      <4>1. 0 + 1 + k + j \in 1..ls /\ a + (0 + 1 + k + j) = a + 1 + k + j
        BY <3>4
      <4>2. stream[0 + 1 + k + j] = bytes[a + 1 + k + j]
        BY <2>5, <3>2, <4>1, Zenon
      <4> QED
        BY <3>3, <4>2, Zenon
    <3> QED
      BY <3>4, <3>5, <3>6, <3>7, Zenon DEF LiesAt, n, k
  <2>10. MQTTPacket_read(stream) = [rc |-> p.h \div 16, buf |-> Packet(p.h, p.n, p.body)]
    <3>1. stream \in Seq(Byte)
      BY <2>4, Zenon DEF IInv, TypeOK
    <3> QED
      BY <2>6, <2>8, <2>9, <3>1, WaitingReads, Zenon DEF ls
  <2>11. Canonical(sent[g + 1]) = Packet(p.h, p.n, p.body)
    BY <2>7, <2>8, CanonicalIs
  <2>12. Packet(p.h, p.n, p.body)[1] = p.h
    BY <2>6, <2>7, PacketIs
  <2> QED
    BY <2>10, <2>11, <2>12, Zenon DEF g
<1> QED
  BY <1>1, StreamInvariant, PTL

-----------------------------------------------------------------------------
(* The reader implements the stream of packets.                            *)

(* The packets of the messages s, after the first g. *)
PacketSet == {Canonical(m) : m \in Messages}
After(s, g) == [i \in 1..(Len(s) - g) |-> Canonical(s[g + i])]

LEMMA AfterIs ==
  ASSUME NEW s \in Seq(Messages), NEW g \in Nat, g <= Len(s)
  PROVE  /\ After(s, g) \in Seq(PacketSet) /\ Len(After(s, g)) = Len(s) - g
         /\ \A i \in 1..(Len(s) - g) : After(s, g)[i] = Canonical(s[g + i])
<1> DEFINE n == Len(s) - g
           f == [i \in 1..n |-> Canonical(s[g + i])]
<1>1. n \in Nat /\ \A i \in 1..n : g + i \in 1..Len(s)
  BY SMT
<1> HIDE DEF n
<1>2. ASSUME NEW i \in 1..n PROVE Canonical(s[g + i]) \in PacketSet
  <2>1. s[g + i] \in Messages
    BY <1>1, ElementIs
  <2> QED
    BY <2>1, Zenon DEF PacketSet
<1>3. f \in [1..n -> PacketSet] /\ \A i \in 1..n : f[i] = Canonical(s[g + i])
  BY <1>2, Zenon
<1> HIDE DEF f
<1>4. f \in Seq(PacketSet) /\ Len(f) = n
  BY <1>1, <1>3, SMT
<1>5. f = After(s, g)
  BY Zenon DEF f, n, After
<1> QED
  BY <1>3, <1>4, <1>5, Zenon DEF n

(* One element more at the end, and one less at the front. *)
LEMMA FrontIs ==
  ASSUME NEW q \in Seq(PacketSet), NEW r \in Seq(PacketSet), Len(r) = Len(q) + 1,
         \A i \in 1..Len(q) : r[i] = q[i]
  PROVE  r # <<>> /\ q = Front(r)
<1> DEFINE n == Len(q)
           u == SubSeq(r, 1, n)
<1>1. n \in Nat
  BY LenIsNat
<1>2. u \in Seq(PacketSet) /\ Len(u) = n /\ \A i \in 1..n : u[i] = r[i]
  BY <1>1, SMT
<1>3. r # <<>> /\ Front(r) = u
  <2>1. Len(r) - 1 = n /\ Len(r) # 0
    BY <1>1, SMT
  <2>2. r # <<>>
    BY <2>1, SMT
  <2> QED
    BY <2>1, <2>2, Zenon DEF Front
<1> HIDE DEF u
<1>4. \A i \in 1..Len(q) : q[i] = u[i]
  BY <1>2, Zenon
<1>5. q = u
  BY <1>2, <1>4, SameSeq
<1> QED
  BY <1>3, <1>5, Zenon

LEMMA RestIs ==
  ASSUME NEW q \in Seq(PacketSet), NEW r \in Seq(PacketSet), Len(q) = Len(r) + 1,
         \A i \in 1..Len(r) : r[i] = q[i + 1]
  PROVE  q # <<>> /\ Head(q) = q[1] /\ r = Tail(q)
<1>1. Len(r) \in Nat
  BY LenIsNat
<1>2. q # <<>> /\ Head(q) = q[1]
  BY <1>1, SMT
<1>3. Tail(q) \in Seq(PacketSet) /\ Len(Tail(q)) = Len(r)
      /\ \A i \in 1..Len(r) : Tail(q)[i] = q[i + 1]
  BY <1>1, SMT
<1>4. \A i \in 1..Len(r) : r[i] = Tail(q)[i]
  BY <1>3, Zenon
<1>5. r = Tail(q)
  BY <1>3, <1>4, SameSeq
<1> QED
  BY <1>2, <1>5

(* A message is sent. *)
LEMMA SendQueue ==
  ASSUME NEW s \in Seq(Messages), NEW g \in Nat, g <= Len(s), NEW m \in Messages
  PROVE  /\ After(Append(s, m), g) # <<>>
         /\ After(s, g) = Front(After(Append(s, m), g))
<1> DEFINE t == Append(s, m)
           q == After(s, g)
           r == After(t, g)
           n == Len(s) - g
<1>1. t \in Seq(Messages) /\ Len(t) = Len(s) + 1 /\ \A i \in 1..Len(s) : t[i] = s[i]
  BY AppendIs
<1> HIDE DEF t
<1>2. /\ n \in Nat /\ n + 1 = Len(t) - g /\ g <= Len(t)
      /\ \A i \in 1..n : i \in 1..(n + 1) /\ g + i \in 1..Len(s)
  <2>1. Len(s) \in Nat
    BY LenIsNat
  <2> QED
    BY <1>1, <2>1, SMT
<1>3. q \in Seq(PacketSet) /\ Len(q) = n /\ \A i \in 1..n : q[i] = Canonical(s[g + i])
  BY AfterIs, Zenon
<1>4. r \in Seq(PacketSet) /\ Len(r) = n + 1
      /\ \A i \in 1..(n + 1) : r[i] = Canonical(t[g + i])
  <2>1. r \in Seq(PacketSet) /\ Len(r) = Len(t) - g
        /\ \A i \in 1..(Len(t) - g) : r[i] = Canonical(t[g + i])
    BY <1>1, <1>2, AfterIs, Zenon
  <2> QED
    BY <1>2, <2>1, Zenon
<1> HIDE DEF q, r, n
<1>5. \A i \in 1..Len(q) : r[i] = q[i]
  BY <1>1, <1>2, <1>3, <1>4, Zenon
<1>6. r # <<>> /\ q = Front(r)
  BY <1>3, <1>4, <1>5, FrontIs
<1> QED
  BY <1>6 DEF q, r, t

(* A packet is returned. *)
LEMMA ReceiveQueue ==
  ASSUME NEW s \in Seq(Messages), NEW g \in Nat, g < Len(s)
  PROVE  /\ After(s, g) # <<>> /\ Head(After(s, g)) = Canonical(s[g + 1])
         /\ After(s, g + 1) = Tail(After(s, g))
<1> DEFINE q == After(s, g)
           r == After(s, g + 1)
           n == Len(s) - (g + 1)
<1>1. /\ n \in Nat /\ n + 1 = Len(s) - g /\ g <= Len(s) /\ g + 1 <= Len(s) /\ g + 1 \in Nat
      /\ 1 \in 1..(n + 1)
      /\ \A i \in 1..n : i + 1 \in 1..(n + 1) /\ (g + 1) + i = g + (i + 1)
  <2>1. Len(s) \in Nat
    BY LenIsNat
  <2> QED
    BY <2>1, SMT
<1>2. q \in Seq(PacketSet) /\ Len(q) = n + 1
      /\ \A i \in 1..(n + 1) : q[i] = Canonical(s[g + i])
  <2>1. g <= Len(s)
    BY <1>1
  <2>2. q \in Seq(PacketSet) /\ Len(q) = Len(s) - g
        /\ \A i \in 1..(Len(s) - g) : q[i] = Canonical(s[g + i])
    BY <2>1, AfterIs, Zenon
  <2> QED
    BY <1>1, <2>2, Zenon
<1>3. r \in Seq(PacketSet) /\ Len(r) = n /\ \A i \in 1..n : r[i] = Canonical(s[(g + 1) + i])
  <2>1. g + 1 \in Nat /\ g + 1 <= Len(s)
    BY <1>1
  <2> QED
    BY <2>1, AfterIs, Zenon
<1> HIDE DEF q, r, n
<1>4. ASSUME NEW i \in 1..Len(r) PROVE r[i] = q[i + 1]
  <2>1. i \in 1..n /\ i + 1 \in 1..(n + 1) /\ (g + 1) + i = g + (i + 1)
    BY <1>1, <1>3
  <2>2. r[i] = Canonical(s[(g + 1) + i]) /\ q[i + 1] = Canonical(s[g + (i + 1)])
    BY <1>2, <1>3, <2>1, Zenon
  <2> QED
    BY <2>1, <2>2, Zenon
<1>5. q # <<>> /\ Head(q) = q[1] /\ r = Tail(q)
  BY <1>2, <1>3, <1>4, RestIs
<1> QED
  BY <1>1, <1>2, <1>5, Zenon DEF q, r

LEMMA NoQueue == After(<<>>, 0) = <<>>
<1>1. Len(<<>>) - 0 = 0
  BY SMT
<1> QED
  BY <1>1, SMT DEF After

(* Sending is Send, returning a packet is Receive, and giving the connection up
   is GiveUp.  Every other step of the reader is none of the stream. *)
LEMMA StreamStep ==
  StreamInv /\ StreamInv' /\ [Next]_vars => [Stream!Next]_(Stream!vars)
<1> SUFFICES ASSUME StreamInv, StreamInv', [Next]_vars PROVE [Stream!Next]_(Stream!vars)
  OBVIOUS
<1> DEFINE queue == After(sent, Len(got))
           g == Len(got)
<1>1. /\ sent \in Seq(Messages) /\ got \in Seq(Seq(Byte)) /\ buf' \in Seq(Byte) /\ g <= Len(sent)
      /\ Len(got') <= Len(sent') /\ \A i \in 1..Len(got') : got'[i] = Canonical(sent'[i])
  BY Zenon DEF StreamInv, GotInv, IInv, TypeOK, Canonical
<1>2. g \in Nat /\ Len(sent) \in Nat
  BY <1>1, LenIsNat
<1>3. CASE sent' = sent /\ got' = got
  BY <1>3 DEF Stream!vars
<1>4. CASE sent' = sent /\ got' = Append(got, buf')
  <2>1. Len(got') = g + 1 /\ got'[g + 1] = buf'
    BY <1>1, <1>4, AppendIs
  <2>2. g < Len(sent) /\ g + 1 \in 1..Len(got')
    BY <1>1, <1>2, <1>4, <2>1, SMT
  <2>3. buf' = Canonical(sent[g + 1])
    BY <1>1, <1>4, <2>1, <2>2, Zenon
  <2>4. queue # <<>> /\ Head(queue) = buf' /\ After(sent', Len(got')) = Tail(queue)
    BY <1>1, <1>2, <1>4, <2>1, <2>2, <2>3, ReceiveQueue
  <2>5. Stream!Receive
    BY <1>4, <2>4 DEF Stream!Receive, After
  <2> QED
    BY <2>5 DEF Stream!Next
<1>5. CASE \E m \in Messages : sent' = Append(sent, m) /\ got' = got
  <2>1. PICK m \in Messages : sent' = Append(sent, m) /\ got' = got
    BY <1>5
  <2>2. After(sent', Len(got')) # <<>> /\ queue = Front(After(sent', Len(got')))
    BY <1>1, <1>2, <2>1, SendQueue
  <2>3. Stream!Send
    BY <2>1, <2>2, Zenon DEF Stream!Send, Stream!Front, Front, After
  <2> QED
    BY <2>3 DEF Stream!Next
<1>6. CASE Reconnect
  <2>1. sent' = <<>> /\ got' = <<>>
    BY <1>6 DEF Reconnect
  <2>2. Len(got') = 0
    BY <2>1, SMT
  <2>3. After(sent', Len(got')) = <<>>
    BY <2>1, <2>2, NoQueue, Zenon
  <2>4. Stream!GiveUp
    BY <2>1, <2>3 DEF Stream!GiveUp, After
  <2> QED
    BY <2>4 DEF Stream!Next
<1>7. \A left : (Fail(left) => got' = got) /\ (Again(left) => got' = got)
  BY DEF Fail, Again
<1>8. \A left : Done(left) => got' = Append(got, buf')
  BY DEF Done
<1>9. CASE Read
  <2>1. sent' = sent
    BY <1>9 DEF Read
  <2>2. got' = got \/ got' = Append(got, buf')
    <3>1. CASE ReadHeader
      BY <3>1 DEF ReadHeader
    <3>2. CASE ReadLength
      <4>1. (\E n : LengthRead(n)) \/ (\E left : Fail(left) \/ Again(left))
        BY <3>2, Zenon DEF ReadLength
      <4>2. ASSUME NEW n, LengthRead(n)
            PROVE  \E left : Fail(left) \/ Done(left) \/ Again(left)
        BY <4>2, Zenon DEF LengthRead
      <4> QED
        BY <1>7, <1>8, <4>1, <4>2, Zenon
    <3>3. ASSUME NEW k \in Portions, ReadBody(k) PROVE got' = got \/ got' = Append(got, buf')
      BY <1>7, <1>8, <3>3, Zenon DEF ReadBody
    <3> QED
      BY <1>9, <3>1, <3>2, <3>3, Zenon DEF Read
  <2> QED
    BY <1>3, <1>4, <2>1, <2>2
<1>10. CASE \E m \in Messages, size \in SendBufs, k \in Forms : Send(m, size, k)
  BY <1>5, <1>10 DEF Send
<1>11. CASE SendBad \/ ReadError \/ UNCHANGED vars
  BY <1>3, <1>7, <1>11 DEF SendBad, ReadError, vars
<1> QED
  BY <1>6, <1>9, <1>10, <1>11 DEF Next

LEMMA StreamStart == Init => Stream!Init
<1> SUFFICES ASSUME Init PROVE Stream!Init
  OBVIOUS
<1>1. sent = <<>> /\ got = <<>> /\ Len(got) = 0
  BY SMT DEF Init
<1>2. After(sent, Len(got)) = <<>>
  BY <1>1, NoQueue, Zenon
<1> QED
  BY <1>1, <1>2 DEF Stream!Init, After

\* Packets come out of the stream of bytes whole, once and in the order in which
\* they were sent, whatever the transport makes of the bytes.
THEOREM ReaderIsAStream == Spec => Implements
BY StreamStart, StreamStep, StreamInvariant, PTL DEF Spec, Implements, Stream!Spec
=============================================================================
