------------------------- MODULE PacketCodec_proofs -------------------------
(***************************************************************************)
(* What is proved of the packets' code.  Of the remaining length, for      *)
(* every length that MQTT allows: it can be read back, whatever follows    *)
(* it, and the size that MQTTPacket_len computes with thresholds of its    *)
(* own is enough.  Of the serializers: what they write is a header, the    *)
(* length of the contents and the contents, and the deserializers make     *)
(* the message of it again.                                                *)
(***************************************************************************)
EXTENDS PacketCodec, TLAPS

LEMMA Powers ==
  /\ Power[1] = 1 /\ Power[2] = 128 /\ Power[3] = 16384
  /\ Power[4] = 2097152 /\ Power[5] = 268435456
BY SMT DEF Power

LEMMA ByteIs ==
  ASSUME NEW c \in Nat
  PROVE  c \in Byte <=> c < 256
BY SMT DEF Byte

(* The lengths that MQTT allows. *)
LEMMA MaxIs == MaxRemaining \in Nat /\ MaxRemaining < 268435456
BY SMT DEF MaxRemaining

LEMMA LengthIs ==
  ASSUME NEW n \in 0..MaxRemaining
  PROVE  n \in Nat /\ n < 268435456
BY MaxIs, SMT

LEMMA SizeRange ==
  ASSUME NEW n \in 0..MaxRemaining
  PROVE  EncodedSize(n) \in 1..4
BY SMT DEF EncodedSize

LEMMA DigitIs ==
  ASSUME NEW n \in Nat
  PROVE  /\ Digit(n, 1) = n % 128
         /\ Digit(n, 2) = (n \div 128) % 128
         /\ Digit(n, 3) = (n \div 16384) % 128
         /\ Digit(n, 4) = (n \div 2097152) % 128
BY Powers, SMT DEF Digit

LEMMA DigitRange ==
  ASSUME NEW n \in 0..MaxRemaining, NEW i \in 1..4
  PROVE  Digit(n, i) \in Nat /\ Digit(n, i) < 128
<1>1. n \in Nat
  BY LengthIs
<1>2. /\ Digit(n, 1) = n % 128
      /\ Digit(n, 2) = (n \div 128) % 128
      /\ Digit(n, 3) = (n \div 16384) % 128
      /\ Digit(n, 4) = (n \div 2097152) % 128
  BY <1>1, DigitIs
<1>3. /\ n % 128 \in Nat /\ n % 128 < 128
      /\ (n \div 128) % 128 \in Nat /\ (n \div 128) % 128 < 128
      /\ (n \div 16384) % 128 \in Nat /\ (n \div 16384) % 128 < 128
      /\ (n \div 2097152) % 128 \in Nat /\ (n \div 2097152) % 128 < 128
  BY <1>1, SMT
<1>4. i = 1 \/ i = 2 \/ i = 3 \/ i = 4
  BY SMT
<1> QED
  BY <1>2, <1>3, <1>4, SMT

(* The loop of MQTTPacket_encode writes one to four bytes. *)
LEMMA EncodeType ==
  ASSUME NEW n \in 0..MaxRemaining
  PROVE  /\ MQTTPacket_encode(n) \in Seq(Byte)
         /\ Len(MQTTPacket_encode(n)) = EncodedSize(n)
<1> DEFINE size == EncodedSize(n)
           f == [i \in 1..size |-> Digit(n, i) + (IF i < size THEN 128 ELSE 0)]
<1>1. size \in 1..4
  BY SizeRange
<1>2. ASSUME NEW i \in 1..size
      PROVE  Digit(n, i) + (IF i < size THEN 128 ELSE 0) \in Byte
  <2>1. i \in 1..4
    BY <1>1, SMT
  <2>2. Digit(n, i) \in Nat /\ Digit(n, i) < 128
    BY <2>1, DigitRange
  <2> HIDE DEF size
  <2>3. /\ Digit(n, i) + (IF i < size THEN 128 ELSE 0) \in Nat
        /\ Digit(n, i) + (IF i < size THEN 128 ELSE 0) < 256
    BY <2>2, SMT
  <2> QED
    BY <2>3, ByteIs
<1> HIDE DEF size
<1>3. f \in [1..size -> Byte]
  BY <1>2, SMT
<1>4. f \in Seq(Byte) /\ Len(f) = size
  BY <1>1, <1>3, SMT
<1> QED
  BY <1>4, Zenon DEF MQTTPacket_encode, size

(* The digits that are written add up to the number. *)
LEMMA DigitsAddUp ==
  ASSUME NEW n \in 0..MaxRemaining
  PROVE  /\ n < 128 => Digit(n, 1) = n
         /\ n < 16384 => Digit(n, 1) + Digit(n, 2) * 128 = n
         /\ n < 2097152 => Digit(n, 1) + Digit(n, 2) * 128 + Digit(n, 3) * 16384 = n
         /\ Digit(n, 1) + Digit(n, 2) * 128 + Digit(n, 3) * 16384 + Digit(n, 4) * 2097152 = n
<1>1. n \in Nat /\ n < 268435456
  BY LengthIs
<1>2. n < 128 => n % 128 = n
  BY <1>1, SMT
<1>3. n < 16384 => (n % 128) + ((n \div 128) % 128) * 128 = n
  BY <1>1, SMT
<1>4. n < 2097152 => (n % 128) + ((n \div 128) % 128) * 128 + ((n \div 16384) % 128) * 16384 = n
  BY <1>1, SMT
<1>5. (n % 128) + ((n \div 128) % 128) * 128 + ((n \div 16384) % 128) * 16384
        + ((n \div 2097152) % 128) * 2097152 = n
  BY <1>1, SMT
<1>6. /\ Digit(n, 1) = n % 128
      /\ Digit(n, 2) = (n \div 128) % 128
      /\ Digit(n, 3) = (n \div 16384) % 128
      /\ Digit(n, 4) = (n \div 2097152) % 128
  BY <1>1, DigitIs
<1> QED
  BY <1>2, <1>3, <1>4, <1>5, <1>6, SMT

(***************************************************************************)
(* A length in k bytes, its own digits and zeros above them, is read as    *)
(* the same length and k, whatever is behind it.                           *)
(***************************************************************************)
LEMMA DigitsReadBack ==
  ASSUME NEW n \in 0..MaxRemaining, NEW k \in EncodedSize(n)..4, NEW s,
         \A i \in 1..k : s[i] = Digit(n, i) + (IF i < k THEN 128 ELSE 0)
  PROVE  MQTTPacket_decodeBuf(s) = [value |-> n, len |-> k]
<1> DEFINE last == CHOOSE i \in 1..MAX_NO_OF_REMAINING_LENGTH_BYTES : StopsAt(s, i)
           part(i) == IF i <= last THEN Part(s[i], i) ELSE 0
           digit(i) == Digit(n, i)
<1>1. k \in 1..4
  BY SizeRange, SMT
<1>2. \A i \in 1..4 : digit(i) \in Nat /\ digit(i) < 128
  BY DigitRange, Zenon
<1>3. \A i \in 1..k : s[i] = digit(i) + (IF i < k THEN 128 ELSE 0)
  BY Zenon
<1> HIDE DEF digit
<1>5. ASSUME NEW i \in 1..k
      PROVE  /\ Continues(s[i]) <=> i < k
             /\ Part(s[i], i) = digit(i) * Power[i]
  <2>1. digit(i) \in Nat /\ digit(i) < 128
    BY <1>1, <1>2, SMT
  <2>2. (digit(i) + 128) % 128 = digit(i) /\ digit(i) % 128 = digit(i)
    BY <2>1, SMT
  <2>3. s[i] = IF i < k THEN digit(i) + 128 ELSE digit(i)
    BY <1>3, <2>1, SMT
  <2>4. s[i] % 128 = digit(i)
    BY <2>2, <2>3, SMT
  <2>5. Continues(s[i]) <=> i < k
    BY <1>1, <2>1, <2>3, SMT DEF Continues
  <2> QED
    BY <2>4, <2>5, Zenon DEF Part
<1>6. last = k
  <2>1. \A i \in 1..4 : StopsAt(s, i) <=> i = k
    BY <1>1, <1>5, SMT DEF StopsAt, MAX_NO_OF_REMAINING_LENGTH_BYTES
  <2> QED
    BY <1>1, <2>1, SMT DEF MAX_NO_OF_REMAINING_LENGTH_BYTES
<1> HIDE DEF last
<1>7. ~Continues(s[last])
  BY <1>1, <1>5, <1>6, SMT
<1>8. /\ part(1) = digit(1)
      /\ part(2) = IF k >= 2 THEN digit(2) * 128 ELSE 0
      /\ part(3) = IF k >= 3 THEN digit(3) * 16384 ELSE 0
      /\ part(4) = IF k >= 4 THEN digit(4) * 2097152 ELSE 0
  BY <1>1, <1>2, <1>5, <1>6, Powers, SMT
<1> HIDE DEF part
<1>9. part(1) + part(2) + part(3) + part(4) = n
  <2>1. n \in Nat /\ n < 268435456
    BY LengthIs
  <2>2. /\ n < 128 => digit(1) = n
        /\ n < 16384 => digit(1) + digit(2) * 128 = n
        /\ n < 2097152 => digit(1) + digit(2) * 128 + digit(3) * 16384 = n
        /\ digit(1) + digit(2) * 128 + digit(3) * 16384 + digit(4) * 2097152 = n
    BY DigitsAddUp, SMT DEF digit
  <2>3. /\ k = 1 => n < 128
        /\ k = 2 => n < 16384
        /\ k = 3 => n < 2097152
    BY <2>1, SMT DEF EncodedSize
  <2>4. /\ digit(1) \in Nat /\ digit(2) \in Nat
        /\ digit(3) \in Nat /\ digit(4) \in Nat
    BY <1>2, SMT
  <2>5. CASE k = 1
    BY <1>8, <2>2, <2>3, <2>4, <2>5, SMT
  <2>6. CASE k = 2
    BY <1>8, <2>1, <2>2, <2>3, <2>4, <2>6, SMT
  <2>7. CASE k = 3
    BY <1>8, <2>1, <2>2, <2>3, <2>4, <2>7, SMT
  <2>8. CASE k = 4
    BY <1>8, <2>1, <2>2, <2>3, <2>4, <2>8, SMT
  <2>9. k = 1 \/ k = 2 \/ k = 3 \/ k = 4
    BY <1>1, SMT
  <2> QED
    BY <2>5, <2>6, <2>7, <2>8, <2>9
<1>10. MQTTPacket_decodeBuf(s) =
         [value |-> part(1) + part(2) + part(3) + part(4),
          len   |-> IF Continues(s[last]) THEN last + 1 ELSE last]
  BY Zenon DEF MQTTPacket_decodeBuf, part, last
<1> QED
  BY <1>6, <1>7, <1>9, <1>10, Zenon

(***************************************************************************)
(* MQTTPacket_encode and MQTTPacket_decodeBuf, which every deserializer    *)
(* starts with, are inverse to each other: a length is read back with the  *)
(* number of its bytes, whatever follows it in the buffer.                 *)
(***************************************************************************)
THEOREM DecodesWhatIsEncoded ==
  ASSUME NEW n \in 0..MaxRemaining, NEW rest \in Seq(Byte)
  PROVE  MQTTPacket_decodeBuf(MQTTPacket_encode(n) \o rest) =
           [value |-> n, len |-> EncodedSize(n)]
<1> DEFINE size == EncodedSize(n)
           code == MQTTPacket_encode(n)
           s == code \o rest
<1>1. size \in 1..4
  BY SizeRange
<1>2. code \in Seq(Byte) /\ Len(code) = size
  BY EncodeType
<1>3. \A i \in 1..size : s[i] = Digit(n, i) + (IF i < size THEN 128 ELSE 0)
  <2>1. \A i \in 1..size : s[i] = code[i]
    BY <1>1, <1>2, SMT
  <2>2. \A i \in 1..size : code[i] = Digit(n, i) + (IF i < size THEN 128 ELSE 0)
    BY Zenon DEF MQTTPacket_encode
  <2> QED
    BY <2>1, <2>2, Zenon
<1>4. size \in size..4
  BY <1>1, SMT
<1> HIDE DEF s
<1>5. MQTTPacket_decodeBuf(s) = [value |-> n, len |-> size]
  BY <1>3, <1>4, DigitsReadBack, Zenon
<1> QED
  BY <1>5, Zenon DEF s

(***************************************************************************)
(* MQTTPacket_len, which every serializer compares with its buffer, is     *)
(* never less than what the serializer writes, and never more than one     *)
(* byte above it.  (It compares the length with the header's byte added,   *)
(* so it is one byte above at a boundary: a packet of 127 bytes needs a    *)
(* buffer of 130, where 129 would do.)                                     *)
(***************************************************************************)
THEOREM LenIsEnough ==
  ASSUME NEW n \in 0..MaxRemaining
  PROVE  LET written == 1 + Len(MQTTPacket_encode(n)) + n IN
           MQTTPacket_len(n) \in written..(written + 1)
<1>1. Len(MQTTPacket_encode(n)) = EncodedSize(n)
  BY EncodeType
<1>2. n \in Nat
  BY LengthIs
<1>3. MQTTPacket_len(n) \in (1 + EncodedSize(n) + n)..(1 + EncodedSize(n) + n + 1)
  BY <1>2, SMT DEF MQTTPacket_len, EncodedSize
<1> QED
  BY <1>1, <1>3, Zenon

(***************************************************************************)
(* writeInt and readInt lose nothing of an unsigned short: ids and the     *)
(* lengths of strings.                                                     *)
(***************************************************************************)
THEOREM IntsReadBack ==
  ASSUME NEW k \in Nat, k < 65536
  PROVE  readInt(writeInt(k)) = k /\ writeInt(k) \in Byte \X Byte
<1>1. /\ (k \div 256) % 256 \in Nat /\ (k \div 256) % 256 < 256
      /\ k % 256 \in Nat /\ k % 256 < 256
  BY SMT
<1>2. 256 * ((k \div 256) % 256) + (k % 256) = k
  BY SMT
<1>3. (k \div 256) % 256 \in Byte /\ k % 256 \in Byte
  BY <1>1, ByteIs
<1> QED
  BY <1>2, <1>3, SMT DEF readInt, writeInt

-----------------------------------------------------------------------------
(* Sequences.                                                              *)

LEMMA LenIsNat ==
  ASSUME NEW S, NEW s \in Seq(S)
  PROVE  Len(s) \in Nat
BY SMT

LEMMA ElementIs ==
  ASSUME NEW S, NEW s \in Seq(S), NEW i \in 1..Len(s)
  PROVE  s[i] \in S
BY SMT

LEMMA AppendIs ==
  ASSUME NEW S, NEW s \in Seq(S), NEW e \in S
  PROVE  /\ Append(s, e) \in Seq(S)
         /\ Len(Append(s, e)) = Len(s) + 1 /\ Append(s, e)[Len(s) + 1] = e
         /\ \A i \in 1..Len(s) : Append(s, e)[i] = s[i]
<1>1. Append(s, e) \in Seq(S) /\ Len(Append(s, e)) = Len(s) + 1 /\ Append(s, e)[Len(s) + 1] = e
  BY SMT
<1>2. \A i \in 1..Len(s) : Append(s, e)[i] = s[i]
  BY SMT
<1> QED
  BY <1>1, <1>2

LEMMA NoBytes == <<>> \in Seq(Byte) /\ Len(<<>>) = 0
BY SMT

(* Two sequences with the same elements. *)
LEMMA SameSeq ==
  ASSUME NEW S, NEW a \in Seq(S), NEW b \in Seq(S), Len(a) = Len(b),
         \A i \in 1..Len(a) : a[i] = b[i]
  PROVE  a = b
BY SMT

(* Two pieces end to end, and three. *)
LEMMA JoinIs ==
  ASSUME NEW S, NEW a \in Seq(S), NEW b \in Seq(S)
  PROVE  /\ a \o b \in Seq(S) /\ Len(a \o b) = Len(a) + Len(b)
         /\ Len(a) \in Nat /\ Len(b) \in Nat
BY SMT

LEMMA JoinFirst ==
  ASSUME NEW S, NEW a \in Seq(S), NEW b \in Seq(S), NEW i \in 1..Len(a)
  PROVE  (a \o b)[i] = a[i]
BY SMT

LEMMA JoinElements ==
  ASSUME NEW S, NEW a \in Seq(S), NEW b \in Seq(S)
  PROVE  /\ \A i \in 1..Len(a) : (a \o b)[i] = a[i]
         /\ \A i \in 1..Len(b) : (a \o b)[Len(a) + i] = b[i]
<1>1. \A i \in 1..Len(a) : (a \o b)[i] = a[i]
  BY SMT
<1>2. \A i \in 1..Len(b) : (a \o b)[Len(a) + i] = b[i]
  BY SMT
<1> QED
  BY <1>1, <1>2

LEMMA JoinAssoc ==
  ASSUME NEW a \in Seq(Byte), NEW b \in Seq(Byte), NEW c \in Seq(Byte)
  PROVE  a \o b \o c = a \o (b \o c)
<1>1. a \o b \o c \in Seq(Byte) /\ a \o (b \o c) \in Seq(Byte)
  BY SMT
<1>2. Len(a \o b \o c) = Len(a \o (b \o c))
  BY SMT
<1>3. \A i \in 1..Len(a \o b \o c) : (a \o b \o c)[i] = (a \o (b \o c))[i]
  BY SMT
<1> QED
  BY <1>1, <1>2, <1>3, SameSeq

LEMMA TailIs ==
  ASSUME NEW h \in Byte, NEW s \in Seq(Byte)
  PROVE  Tail(<<h>> \o s) = s
<1>1. Tail(<<h>> \o s) \in Seq(Byte) /\ Len(Tail(<<h>> \o s)) = Len(s)
  BY SMT
<1>2. \A i \in 1..Len(s) : Tail(<<h>> \o s)[i] = s[i]
  BY SMT
<1> QED
  BY <1>1, <1>2, SameSeq

LEMMA JoinNone ==
  ASSUME NEW S, NEW a \in Seq(S)
  PROVE  a \o <<>> = a
BY SMT

LEMMA JoinThree ==
  ASSUME NEW a \in Seq(Byte), NEW b \in Seq(Byte), NEW c \in Seq(Byte)
  PROVE  /\ a \o b \o c \in Seq(Byte) /\ Len(a \o b \o c) = Len(a) + Len(b) + Len(c)
         /\ Len(a) \in Nat /\ Len(b) \in Nat /\ Len(c) \in Nat
BY SMT

(* The middle one of three pieces. *)
LEMMA MiddleIs ==
  ASSUME NEW S, NEW a \in Seq(S), NEW b \in Seq(S), NEW c \in Seq(S)
  PROVE  SubSeq(a \o b \o c, Len(a) + 1, Len(a) + Len(b)) = b
<1> DEFINE m == SubSeq(a \o b \o c, Len(a) + 1, Len(a) + Len(b))
<1>1. a \o b \o c \in Seq(S) /\ Len(a \o b \o c) = Len(a) + Len(b) + Len(c)
  BY SMT
<1>2. Len(a) \in Nat /\ Len(b) \in Nat /\ Len(c) \in Nat
  BY SMT
<1>3. m \in Seq(S) /\ Len(m) = Len(b)
  BY <1>1, <1>2, SMT
<1>4. \A i \in 1..Len(b) : m[i] = b[i]
  BY <1>1, <1>2, SMT
<1> HIDE DEF m
<1>5. m = b
  BY <1>3, <1>4, SMT
<1> QED
  BY <1>5 DEF m

-----------------------------------------------------------------------------
(* Headers, and a packet of a header, a length and contents.               *)

PacketTypes == {"CONNECT", "CONNACK", "PUBLISH", "PUBACK", "PUBREC", "PUBREL",
              "PUBCOMP", "SUBSCRIBE", "SUBACK", "UNSUBSCRIBE", "UNSUBACK",
              "PINGREQ", "PINGRESP", "DISCONNECT"}

LEMMA TypeCodes ==
  ASSUME NEW type \in PacketTypes
  PROVE  TypeCode(type) \in 1..14 /\ msgTypes[TypeCode(type)] = type /\ Len(msgTypes) = 14
<1>1. Len(msgTypes) = 14
  BY SMT DEF msgTypes
<1>2. \E i \in 1..14 : msgTypes[i] = type
  BY SMT DEF msgTypes, PacketTypes
<1> QED
  BY <1>1, <1>2, Zenon DEF TypeCode

LEMMA HeaderIs ==
  ASSUME NEW type \in PacketTypes, NEW dup \in Bit, NEW qos \in 0..2, NEW retain \in Bit
  PROVE  LET h == Header(type, dup, qos, retain) IN
           /\ h \in Byte
           /\ HeaderType(h) = type /\ HeaderDup(h) = dup
           /\ HeaderQos(h) = qos /\ HeaderRetain(h) = retain
<1> DEFINE code == TypeCode(type)
           h == 16 * code + 8 * dup + 2 * qos + retain
<1>1. code \in 1..14 /\ msgTypes[code] = type /\ Len(msgTypes) = 14
  BY TypeCodes
<1>2. dup \in 0..1 /\ retain \in 0..1
  BY DEF Bit
<1> HIDE DEF code
<1>3. h \in Nat /\ h < 256
  BY <1>1, <1>2, SMT
<1>4. h \div 16 = code
  BY <1>1, <1>2, SMT
<1>5. (h \div 8) % 2 = dup
  BY <1>1, <1>2, SMT
<1>6. (h \div 2) % 4 = qos
  BY <1>1, <1>2, SMT
<1>7. h % 2 = retain
  BY <1>1, <1>2, SMT
<1>8. h = Header(type, dup, qos, retain)
  BY Zenon DEF Header, code
<1> HIDE DEF h
<1>9. HeaderType(h) = type
  BY <1>1, <1>4, Zenon DEF HeaderType
<1>10. h \in Byte
  BY <1>3, ByteIs, Zenon
<1> QED
  BY <1>5, <1>6, <1>7, <1>8, <1>9, <1>10, Zenon DEF HeaderDup, HeaderQos, HeaderRetain

LEMMA ShortIs == MaxShort \in Nat /\ MaxShort < 65536
BY SMT DEF MaxShort

(* An id or the length of a string on the wire. *)
LEMMA IntOnWire ==
  ASSUME NEW k \in Short
  PROVE  /\ writeInt(k) \in Seq(Byte) /\ Len(writeInt(k)) = 2
         /\ \A s : s[1] = writeInt(k)[1] /\ s[2] = writeInt(k)[2] => readInt(s) = k
<1>1. k \in Nat /\ k < 65536
  BY ShortIs, SMT DEF Short
<1>2. readInt(writeInt(k)) = k /\ writeInt(k) \in Byte \X Byte
  BY <1>1, IntsReadBack
<1>3. writeInt(k) \in Seq(Byte) /\ Len(writeInt(k)) = 2
  <2>1. (k \div 256) % 256 \in Byte /\ k % 256 \in Byte
    BY <1>2, SMT DEF writeInt
  <2> QED
    BY <2>1, SMT DEF writeInt
<1> QED
  BY <1>2, <1>3, Zenon DEF readInt

Packet(h, n, body) == <<h>> \o MQTTPacket_encode(n) \o body

LEMMA PacketIs ==
  ASSUME NEW h \in Byte, NEW n \in 0..MaxRemaining, NEW body \in Seq(Byte), Len(body) = n
  PROVE  /\ Packet(h, n, body) \in Seq(Byte) /\ Packet(h, n, body)[1] = h
         /\ Len(Packet(h, n, body)) = 1 + EncodedSize(n) + n
         /\ Packet(h, n, body) # <<>>
         /\ Contents(Packet(h, n, body)) =
              [rc |-> EncodedSize(n), first |-> 2 + EncodedSize(n), last |-> 1 + EncodedSize(n) + n]
         /\ ContentsOf(Packet(h, n, body)) = body
<1> DEFINE code == MQTTPacket_encode(n)
           size == EncodedSize(n)
           packet == <<h>> \o code \o body
<1>1. code \in Seq(Byte) /\ Len(code) = size /\ size \in 1..4 /\ n \in Nat
  BY EncodeType, SizeRange, LengthIs
<1>2. MQTTPacket_decodeBuf(code \o body) = [value |-> n, len |-> size]
  BY DecodesWhatIsEncoded
<1>3. packet = Packet(h, n, body)
  BY Zenon DEF Packet
<1> HIDE DEF code, size
<1>4. <<h>> \in Seq(Byte) /\ Len(<<h>>) = 1
  BY SMT
<1>5. /\ packet \in Seq(Byte) /\ packet[1] = h /\ Len(packet) = 1 + size + n
      /\ packet # <<>>
  BY <1>1, <1>4, SMT
<1>6. Tail(packet) = code \o body
  <2>1. packet = <<h>> \o (code \o body)
    BY <1>1, <1>4, JoinAssoc
  <2>2. code \o body \in Seq(Byte)
    BY <1>1, JoinIs
  <2> QED
    BY <2>1, <2>2, TailIs
<1>7. SubSeq(packet, 2 + size, 1 + size + n) = body
  <2>1. <<h>> \o code \in Seq(Byte) /\ Len(<<h>> \o code) = 1 + size
    BY <1>1, <1>4, SMT
  <2>2. <<>> \in Seq(Byte)
    BY SMT
  <2>3. SubSeq((<<h>> \o code) \o body \o <<>>, Len(<<h>> \o code) + 1,
               Len(<<h>> \o code) + Len(body)) = body
    BY <2>1, <2>2, MiddleIs
  <2>4. packet \o <<>> = packet
    BY <1>5, SMT
  <2>5. (1 + size) + 1 = 2 + size /\ (1 + size) + n = 1 + size + n
    BY <1>1, SMT
  <2> QED
    BY <2>1, <2>3, <2>4, <2>5, Zenon
<1> HIDE DEF packet
<1>8. Contents(packet) = [rc |-> size, first |-> 2 + size, last |-> 1 + size + n]
  <2> DEFINE d == MQTTPacket_decodeBuf(Tail(packet))
  <2>1. d = [value |-> n, len |-> size]
    BY <1>2, <1>6, Zenon
  <2>2. Contents(packet) = [rc |-> d.len, first |-> 2 + d.len, last |-> 1 + d.len + d.value]
    BY Zenon DEF Contents
  <2> HIDE DEF d
  <2>3. d.len = size /\ d.value = n
    BY <2>1, Zenon
  <2> QED
    BY <2>2, <2>3, Zenon
<1>9. ContentsOf(packet) = body
  <2>1. Contents(packet).first = 2 + size /\ Contents(packet).last = 1 + size + n
    BY <1>8
  <2> QED
    BY <1>7, <2>1, Zenon DEF ContentsOf
<1> QED
  BY <1>3, <1>5, <1>8, <1>9, Zenon DEF size

-----------------------------------------------------------------------------
(* Serializers.                                                            *)

(* What a serializer writes of m: the header h, the length n and the contents. *)
FrameIs(m, h, n, body) ==
  /\ h \in Byte /\ n \in Nat /\ body \in Seq(Byte) /\ Len(body) = n
  /\ \A buflen \in Nat : Serialize(m, buflen) = Serialized(h, n, body, buflen)

LEMMA StringIs ==
  ASSUME NEW s \in MQTTString
  PROVE  /\ s \in Seq(Byte) /\ Len(s) \in Short /\ Len(s) \in Nat
         /\ writeMQTTString(s) = writeInt(Len(s)) \o s
         /\ writeMQTTString(s) \in Seq(Byte) /\ Len(writeMQTTString(s)) = 2 + Len(s)
<1>1. s \in Seq(Byte) /\ Len(s) <= MaxShort
  BY DEF MQTTString
<1>2. Len(s) \in Nat /\ Len(s) \in Short
  <2>1. Len(s) \in Nat
    BY <1>1, LenIsNat
  <2>2. \A n \in Nat : n <= MaxShort => n \in 0..MaxShort
    BY ShortIs, SMT
  <2> QED
    BY <1>1, <2>1, <2>2, Zenon DEF Short
<1>3. writeInt(Len(s)) \in Seq(Byte) /\ Len(writeInt(Len(s))) = 2
  BY <1>2, IntOnWire
<1>4. writeMQTTString(s) = writeInt(Len(s)) \o s
  BY Zenon DEF writeMQTTString, MQTTstrlen
<1> QED
  BY <1>1, <1>2, <1>3, <1>4, JoinIs, Zenon

PublishBody(m) ==
  writeMQTTString(m.topic) \o (IF m.qos > 0 THEN writeInt(m.id) ELSE <<>>) \o m.payload

LEMMA PublishFrame ==
  ASSUME NEW m \in Publishes
  PROVE  FrameIs(m, Header("PUBLISH", m.dup, m.qos, m.retain), MQTTSerialize_publishLength(m),
                 PublishBody(m))
<1> DEFINE ident == IF m.qos > 0 THEN writeInt(m.id) ELSE <<>>
<1>1. /\ m.type = "PUBLISH" /\ m.dup \in Bit /\ m.qos \in 0..2 /\ m.retain \in Bit
      /\ m.id \in Short /\ m.topic \in MQTTString /\ m.payload \in Seq(Byte)
  BY SMT DEF Publishes
<1>2. Header("PUBLISH", m.dup, m.qos, m.retain) \in Byte
  BY <1>1, HeaderIs, Zenon DEF PacketTypes
<1>3. /\ writeMQTTString(m.topic) \in Seq(Byte)
      /\ Len(writeMQTTString(m.topic)) = 2 + Len(m.topic) /\ Len(m.topic) \in Nat
  BY <1>1, StringIs
<1>4. ident \in Seq(Byte) /\ Len(ident) = IF m.qos > 0 THEN 2 ELSE 0
  <2>1. CASE m.qos > 0
    BY <1>1, <2>1, IntOnWire, Zenon
  <2>2. CASE ~(m.qos > 0)
    <3>1. ident = <<>> /\ (IF m.qos > 0 THEN 2 ELSE 0) = 0
      BY <2>2
    <3> QED
      BY <3>1, NoBytes
  <2> QED
    BY <2>1, <2>2
<1> HIDE DEF ident
<1>5. PublishBody(m) = writeMQTTString(m.topic) \o ident \o m.payload
  BY Zenon DEF PublishBody, ident
<1>6. /\ PublishBody(m) \in Seq(Byte)
      /\ Len(PublishBody(m)) = 2 + Len(m.topic) + Len(m.payload) + Len(ident)
      /\ Len(PublishBody(m)) \in Nat
  <2>1. /\ PublishBody(m) \in Seq(Byte)
        /\ Len(PublishBody(m)) = Len(writeMQTTString(m.topic)) + Len(ident) + Len(m.payload)
        /\ Len(ident) \in Nat /\ Len(m.payload) \in Nat
    <3> DEFINE topic == writeMQTTString(m.topic)
               payload == m.payload
    <3>1. topic \in Seq(Byte) /\ payload \in Seq(Byte)
      BY <1>1, <1>3
    <3> HIDE DEF topic, payload
    <3>2. /\ topic \o ident \o payload \in Seq(Byte)
          /\ Len(topic \o ident \o payload) = Len(topic) + Len(ident) + Len(payload)
          /\ Len(ident) \in Nat /\ Len(payload) \in Nat
      BY <1>4, <3>1, JoinThree
    <3> QED
      BY <1>5, <3>2, Zenon DEF topic, payload
  <2> DEFINE a == Len(m.topic)
             b == Len(ident)
             c == Len(m.payload)
  <2>2. a \in Nat /\ b \in Nat /\ c \in Nat /\ Len(PublishBody(m)) = (2 + a) + b + c
    BY <1>3, <2>1
  <2> HIDE DEF a, b, c
  <2>3. Len(PublishBody(m)) = 2 + a + c + b /\ 2 + a + c + b \in Nat
    BY <2>2, SMT
  <2> QED
    BY <2>1, <2>3, Zenon DEF a, b, c
<1>7. Len(PublishBody(m)) = MQTTSerialize_publishLength(m)
  BY <1>4, <1>6, Zenon DEF MQTTSerialize_publishLength, MQTTstrlen
<1>8. ASSUME NEW buflen \in Nat
      PROVE  Serialize(m, buflen) =
               Serialized(Header("PUBLISH", m.dup, m.qos, m.retain),
                          MQTTSerialize_publishLength(m), PublishBody(m), buflen)
  <2>1. Serialize(m, buflen) = MQTTSerialize_publish(m, buflen)
    BY <1>1, SMT DEF Serialize, Acks
  <2> QED
    BY <2>1, Zenon DEF MQTTSerialize_publish, PublishBody
<1> QED
  BY <1>2, <1>6, <1>7, <1>8, Zenon DEF FrameIs

LEMMA AckFrame ==
  ASSUME NEW m \in AckMsgs
  PROVE  FrameIs(m, Header(m.type, m.dup, IF m.type = "PUBREL" THEN 1 ELSE 0, 0), 2,
                 writeInt(m.id))
<1> DEFINE h == Header(m.type, m.dup, IF m.type = "PUBREL" THEN 1 ELSE 0, 0)
<1>1. m.type \in Acks /\ m.dup \in Bit /\ m.id \in Short
  BY SMT DEF AckMsgs
<1>2. h \in Byte
  <2>1. m.type \in PacketTypes
    BY <1>1, SMT DEF Acks, PacketTypes
  <2>2. (IF m.type = "PUBREL" THEN 1 ELSE 0) \in 0..2 /\ 0 \in Bit
    BY SMT DEF Bit
  <2> QED
    BY <1>1, <2>1, <2>2, HeaderIs, Zenon
<1>3. writeInt(m.id) \in Seq(Byte) /\ Len(writeInt(m.id)) = 2
  BY <1>1, IntOnWire
<1>4. ASSUME NEW buflen \in Nat
      PROVE  Serialize(m, buflen) = Serialized(h, 2, writeInt(m.id), buflen)
  <2>1. Serialize(m, buflen) = MQTTSerialize_ack(m, buflen)
    BY <1>1, SMT DEF Serialize, Acks
  <2>2. MQTTPacket_len(2) > buflen <=> buflen < 4
    BY SMT DEF MQTTPacket_len
  <2> QED
    BY <2>1, <2>2, Zenon DEF MQTTSerialize_ack, Serialized
<1>5. 2 \in Nat
  BY SMT
<1> QED
  BY <1>2, <1>3, <1>4, <1>5, Zenon DEF FrameIs

LEMMA ConnackFrame ==
  ASSUME NEW m \in Connacks
  PROVE  FrameIs(m, Header("CONNACK", 0, 0, 0), 2, <<m.sessionPresent, m.code>>)
<1> DEFINE h == Header("CONNACK", 0, 0, 0)
           body == <<m.sessionPresent, m.code>>
<1>1. m.type = "CONNACK" /\ m.sessionPresent \in Bit /\ m.code \in Byte
  BY SMT DEF Connacks
<1>2. h \in Byte
  <2>1. 0 \in Bit /\ 0 \in 0..2
    BY SMT DEF Bit
  <2> QED
    BY <2>1, HeaderIs, Zenon DEF PacketTypes
<1>3. body \in Seq(Byte) /\ Len(body) = 2
  BY <1>1, SMT DEF Bit, Byte
<1>4. ASSUME NEW buflen \in Nat
      PROVE  Serialize(m, buflen) = Serialized(h, 2, body, buflen)
  <2>1. Serialize(m, buflen) = SerializeBroker(m, buflen)
    BY <1>1, SMT DEF Serialize, Acks
  <2>2. SerializeBroker(m, buflen) = Serialized(h, Len(body), body, buflen)
    BY <1>1, SMT DEF SerializeBroker
  <2> QED
    BY <1>3, <2>1, <2>2, Zenon
<1>5. 2 \in Nat
  BY SMT
<1> QED
  BY <1>2, <1>3, <1>4, <1>5, Zenon DEF FrameIs

LEMMA SubackFrame ==
  ASSUME NEW m \in Subacks
  PROVE  FrameIs(m, Header("SUBACK", 0, 0, 0), 2 + Len(m.granted), writeInt(m.id) \o m.granted)
<1> DEFINE h == Header("SUBACK", 0, 0, 0)
           body == writeInt(m.id) \o m.granted
<1>1. m.type = "SUBACK" /\ m.id \in Short /\ m.granted \in Seq(Byte)
  BY SMT DEF Subacks
<1>2. h \in Byte
  <2>1. 0 \in Bit /\ 0 \in 0..2
    BY SMT DEF Bit
  <2> QED
    BY <2>1, HeaderIs, Zenon DEF PacketTypes
<1>3. writeInt(m.id) \in Seq(Byte) /\ Len(writeInt(m.id)) = 2
  BY <1>1, IntOnWire
<1>4. body \in Seq(Byte) /\ Len(body) = 2 + Len(m.granted) /\ 2 + Len(m.granted) \in Nat
  <2>1. body \in Seq(Byte) /\ Len(body) = 2 + Len(m.granted) /\ Len(m.granted) \in Nat
    BY <1>1, <1>3, JoinIs, Zenon
  <2> QED
    BY <2>1, SMT
<1>5. ASSUME NEW buflen \in Nat
      PROVE  Serialize(m, buflen) = Serialized(h, 2 + Len(m.granted), body, buflen)
  <2>1. Serialize(m, buflen) = SerializeBroker(m, buflen)
    BY <1>1, SMT DEF Serialize, Acks
  <2>2. SerializeBroker(m, buflen) = Serialized(h, Len(body), body, buflen)
    BY <1>1, SMT DEF SerializeBroker
  <2> QED
    BY <1>4, <2>1, <2>2, Zenon
<1> QED
  BY <1>2, <1>4, <1>5, Zenon DEF FrameIs

LEMMA PlainFrame ==
  ASSUME NEW m \in Plain
  PROVE  FrameIs(m, Header(m.type, 0, 0, 0), 0, <<>>)
<1> DEFINE h == Header(m.type, 0, 0, 0)
<1>1. m.type \in {"PINGREQ", "PINGRESP", "DISCONNECT"}
  BY SMT DEF Plain
<1>2. h \in Byte
  <2>1. 0 \in Bit /\ 0 \in 0..2
    BY SMT DEF Bit
  <2>2. m.type \in PacketTypes
    BY <1>1 DEF PacketTypes
  <2> QED
    BY <2>1, <2>2, HeaderIs, Zenon
<1>3. 0 \in Nat /\ 0 \in 0..MaxRemaining
  BY MaxIs, SMT
<1>4. ASSUME NEW buflen \in Nat
      PROVE  Serialize(m, buflen) = Serialized(h, 0, <<>>, buflen)
  <2>1. CASE m.type = "PINGRESP"
    <3>1. Serialize(m, buflen) = SerializeBroker(m, buflen)
      BY <2>1, SMT DEF Serialize, Acks
    <3>2. SerializeBroker(m, buflen) = Serialized(h, Len(<<>>), <<>>, buflen)
      BY <2>1, SMT DEF SerializeBroker
    <3> QED
      BY <3>1, <3>2, NoBytes, Zenon
  <2>2. CASE m.type \in {"PINGREQ", "DISCONNECT"}
    <3>1. Serialize(m, buflen) = MQTTSerialize_zero(m, buflen)
      BY <2>2, SMT DEF Serialize, Acks
    <3>2. MQTTPacket_len(0) > buflen <=> buflen < 2
      BY SMT DEF MQTTPacket_len
    <3>3. <<h>> \o MQTTPacket_encode(0) \o <<>> = <<h>> \o MQTTPacket_encode(0)
      <4> DEFINE code == MQTTPacket_encode(0)
      <4>1. code \in Seq(Byte) /\ <<h>> \in Seq(Byte)
        BY <1>2, <1>3, EncodeType, SMT
      <4> HIDE DEF code
      <4>2. <<h>> \o code \in Seq(Byte)
        BY <4>1, JoinIs
      <4>3. \A s \in Seq(Byte) : s \o <<>> = s
        BY SMT
      <4> QED
        BY <4>2, <4>3, Zenon DEF code
    <3> QED
      BY <3>1, <3>2, <3>3, Zenon DEF MQTTSerialize_zero, Serialized
  <2> QED
    BY <1>1, <2>1, <2>2, Zenon
<1> QED
  BY <1>2, <1>3, <1>4, NoBytes, Zenon DEF FrameIs

ConnectName(m) == IF m.version = 4 THEN <<77, 81, 84, 84>> ELSE <<77, 81, 73, 115, 100, 112>>

ConnectBody(m) ==
  writeMQTTString(ConnectName(m)) \o <<m.version, ConnectFlags(m)>> \o
    writeInt(m.keepAlive) \o writeStrings(ConnectStrings(m))

LEMMA FlagsAreAByte ==
  ASSUME NEW m \in Connects
  PROVE  ConnectFlags(m) \in Byte
<1>1. m.cleansession \in 0..1 /\ m.willQos \in 0..2 /\ m.willRetain \in 0..1
  BY SMT DEF Connects, Bit
<1> DEFINE c == m.cleansession
           q == m.willQos
           r == m.willRetain
           w == IF m.will = <<>> THEN 0 ELSE 4 + 8 * q + 32 * r
           p == IF m.password = <<>> THEN 0 ELSE 64
           u == IF m.username = <<>> THEN 0 ELSE 128
<1>2. c \in 0..1 /\ q \in 0..2 /\ r \in 0..1
  BY <1>1
<1> HIDE DEF c, q, r
<1>3. w \in 0..52
  <2>1. 4 + 8 * q + 32 * r \in 0..52 /\ 0 \in 0..52
    BY <1>2, SMT
  <2> QED
    BY <2>1
<1>4. p \in {0, 64} /\ u \in {0, 128}
  BY Zenon
<1>5. ConnectFlags(m) = 2 * c + w + p + u
  BY Zenon DEF ConnectFlags, c, q, r
<1> HIDE DEF w, p, u
<1>6. 2 * c + w + p + u \in Nat /\ 2 * c + w + p + u < 256
  BY <1>2, <1>3, <1>4, SMT
<1> QED
  BY <1>5, <1>6, ByteIs, Zenon

LEMMA ConnectFrame ==
  ASSUME NEW m \in Connects, writeStrings(ConnectStrings(m)) \in Seq(Byte),
         Len(writeStrings(ConnectStrings(m))) = StringsLength(ConnectStrings(m))
  PROVE  FrameIs(m, Header("CONNECT", 0, 0, 0), MQTTSerialize_connectLength(m), ConnectBody(m))
<1> DEFINE h == Header("CONNECT", 0, 0, 0)
           name == ConnectName(m)
           strings == writeStrings(ConnectStrings(m))
           fixed == writeMQTTString(name) \o <<m.version, ConnectFlags(m)>>
           alive == writeInt(m.keepAlive)
<1>1. m.type = "CONNECT" /\ m.version \in {3, 4} /\ m.keepAlive \in Short
  BY SMT DEF Connects
<1>2. h \in Byte
  <2>1. 0 \in Bit /\ 0 \in 0..2
    BY SMT DEF Bit
  <2> QED
    BY <2>1, HeaderIs, Zenon DEF PacketTypes
<1>3. name \in Seq(Byte) /\ Len(name) = IF m.version = 4 THEN 4 ELSE 6
  <2>1. /\ <<77, 81, 84, 84>> \in Seq(Byte) /\ Len(<<77, 81, 84, 84>>) = 4
        /\ <<77, 81, 73, 115, 100, 112>> \in Seq(Byte) /\ Len(<<77, 81, 73, 115, 100, 112>>) = 6
    BY SMT DEF Byte
  <2> QED
    BY <2>1, Zenon DEF ConnectName
<1>4. name \in MQTTString
  <2>1. Len(name) <= MaxShort
    BY <1>1, <1>3, SMT DEF MaxShort
  <2> QED
    BY <1>3, <2>1, Zenon DEF MQTTString
<1>5. writeMQTTString(name) \in Seq(Byte) /\ Len(writeMQTTString(name)) = 2 + Len(name)
  BY <1>4, StringIs
<1>6. <<m.version, ConnectFlags(m)>> \in Seq(Byte) /\ Len(<<m.version, ConnectFlags(m)>>) = 2
  <2>1. ConnectFlags(m) \in Byte
    BY FlagsAreAByte
  <2>2. m.version \in Byte
    BY <1>1, SMT DEF Byte
  <2> QED
    BY <2>1, <2>2, SMT
<1>7. alive \in Seq(Byte) /\ Len(alive) = 2
  BY <1>1, IntOnWire
<1>8. fixed \in Seq(Byte) /\ Len(fixed) = (2 + Len(name)) + 2
  BY <1>5, <1>6, JoinIs
<1>9. ConnectBody(m) = fixed \o alive \o strings
  BY Zenon DEF ConnectBody
<1> HIDE DEF fixed, alive, strings, name
<1>10. /\ ConnectBody(m) \in Seq(Byte)
       /\ Len(ConnectBody(m)) = ((2 + Len(name)) + 2) + 2 + Len(strings)
       /\ Len(strings) \in Nat
  <2>1. strings \in Seq(Byte)
    BY DEF strings
  <2>2. /\ fixed \o alive \o strings \in Seq(Byte)
        /\ Len(fixed \o alive \o strings) = Len(fixed) + Len(alive) + Len(strings)
        /\ Len(strings) \in Nat
    BY <1>7, <1>8, <2>1, JoinThree
  <2> QED
    BY <1>7, <1>8, <1>9, <2>2
<1>11. /\ Len(ConnectBody(m)) = MQTTSerialize_connectLength(m)
       /\ MQTTSerialize_connectLength(m) \in Nat
  <2> DEFINE l == Len(strings)
  <2>1. l = StringsLength(ConnectStrings(m)) /\ l \in Nat
    BY <1>10 DEF strings
  <2>2. MQTTSerialize_connectLength(m) = (IF m.version = 4 THEN 10 ELSE 12) + l
    BY <2>1, Zenon DEF MQTTSerialize_connectLength
  <2>3. Len(ConnectBody(m)) = ((2 + Len(name)) + 2) + 2 + l
    BY <1>10
  <2> HIDE DEF l
  <2> QED
    BY <1>3, <2>1, <2>2, <2>3, SMT
<1>12. ASSUME NEW buflen \in Nat
       PROVE  Serialize(m, buflen) =
                Serialized(h, MQTTSerialize_connectLength(m), ConnectBody(m), buflen)
  <2>1. Serialize(m, buflen) = MQTTSerialize_connect(m, buflen)
    BY <1>1, SMT DEF Serialize, Acks
  <2> QED
    BY <2>1, Zenon DEF MQTTSerialize_connect, ConnectBody, ConnectName
<1> QED
  BY <1>2, <1>10, <1>11, <1>12, Zenon DEF FrameIs

LEMMA SubscribeFrame ==
  ASSUME NEW m \in Subscribes, writeFilters(m.filters) \in Seq(Byte),
         2 + Len(writeFilters(m.filters)) = MQTTSerialize_subscribeLength(m)
  PROVE  FrameIs(m, Header("SUBSCRIBE", 0, 1, 0), MQTTSerialize_subscribeLength(m),
                 writeInt(m.id) \o writeFilters(m.filters))
<1> DEFINE h == Header("SUBSCRIBE", 0, 1, 0)
           n == MQTTSerialize_subscribeLength(m)
           body == writeInt(m.id) \o writeFilters(m.filters)
<1>1. m.type = "SUBSCRIBE" /\ m.id \in Short
  BY SMT DEF Subscribes
<1>2. h \in Byte
  <2>1. 0 \in Bit /\ 1 \in 0..2
    BY SMT DEF Bit
  <2> QED
    BY <2>1, HeaderIs, Zenon DEF PacketTypes
<1>3. writeInt(m.id) \in Seq(Byte) /\ Len(writeInt(m.id)) = 2
  BY <1>1, IntOnWire
<1>4. body \in Seq(Byte) /\ Len(body) = 2 + Len(writeFilters(m.filters))
  BY <1>3, JoinIs
<1>5. Len(body) = n /\ n \in Nat
  <2>1. Len(body) \in Nat
    BY <1>4, LenIsNat
  <2> QED
    BY <1>4, <2>1
<1>6. ASSUME NEW buflen \in Nat
      PROVE  Serialize(m, buflen) = Serialized(h, n, body, buflen)
  <2>1. Serialize(m, buflen) = MQTTSerialize_subscribe(m, buflen)
    BY <1>1, SMT DEF Serialize, Acks
  <2> QED
    BY <2>1, Zenon DEF MQTTSerialize_subscribe
<1> QED
  BY <1>2, <1>4, <1>5, <1>6, Zenon DEF FrameIs

LEMMA UnsubscribeFrame ==
  ASSUME NEW m \in Unsubs, writeStrings(m.topics) \in Seq(Byte),
         Len(writeStrings(m.topics)) = StringsLength(m.topics)
  PROVE  FrameIs(m, Header("UNSUBSCRIBE", 0, 1, 0), MQTTSerialize_unsubscribeLength(m),
                 writeInt(m.id) \o writeStrings(m.topics))
<1> DEFINE h == Header("UNSUBSCRIBE", 0, 1, 0)
           n == MQTTSerialize_unsubscribeLength(m)
           body == writeInt(m.id) \o writeStrings(m.topics)
<1>1. m.type = "UNSUBSCRIBE" /\ m.id \in Short
  BY SMT DEF Unsubs
<1>2. h \in Byte
  <2>1. 0 \in Bit /\ 1 \in 0..2
    BY SMT DEF Bit
  <2> QED
    BY <2>1, HeaderIs, Zenon DEF PacketTypes
<1>3. writeInt(m.id) \in Seq(Byte) /\ Len(writeInt(m.id)) = 2
  BY <1>1, IntOnWire
<1>4. body \in Seq(Byte) /\ Len(body) = 2 + Len(writeStrings(m.topics))
  BY <1>3, JoinIs
<1>5. Len(body) = n /\ n \in Nat
  <2>1. Len(body) \in Nat
    BY <1>4, LenIsNat
  <2> QED
    BY <1>4, <2>1, Zenon DEF MQTTSerialize_unsubscribeLength
<1>6. ASSUME NEW buflen \in Nat
      PROVE  Serialize(m, buflen) = Serialized(h, n, body, buflen)
  <2>1. Serialize(m, buflen) = MQTTSerialize_unsubscribe(m, buflen)
    BY <1>1, SMT DEF Serialize, Acks
  <2> QED
    BY <2>1, Zenon DEF MQTTSerialize_unsubscribe
<1> QED
  BY <1>2, <1>4, <1>5, <1>6, Zenon DEF FrameIs

-----------------------------------------------------------------------------
(* Deserializers.                                                          *)

(* A packet is deserialized as m. *)
ReadsBack(m, packet, maxcount) ==
  LET read == Deserialize(packet, maxcount) IN
    /\ DOMAIN read = DOMAIN m \cup {"rc"}
    /\ read.rc = 1 /\ \A field \in DOMAIN m : read[field] = m[field]

LEMMA ConnackReadsBack ==
  ASSUME NEW m \in Connacks, NEW packet, NEW maxcount,
         packet[1] = Header("CONNACK", 0, 0, 0),
         ContentsOf(packet) = <<m.sessionPresent, m.code>>
  PROVE  ReadsBack(m, packet, maxcount)
<1> DEFINE c == ContentsOf(packet)
           read == Deserialize(packet, maxcount)
<1>1. /\ DOMAIN m = {"type", "sessionPresent", "code"}
      /\ m.type = "CONNACK" /\ m.sessionPresent \in 0..1
  BY SMT DEF Connacks, Bit
<1>2. HeaderType(packet[1]) = "CONNACK"
  <2>1. 0 \in Bit /\ 0 \in 0..2
    BY SMT DEF Bit
  <2>2. "CONNACK" \in PacketTypes
    BY DEF PacketTypes
  <2>3. HeaderType(Header("CONNACK", 0, 0, 0)) = "CONNACK"
    BY <2>1, <2>2, HeaderIs
  <2> QED
    BY <2>3
<1>3. Len(c) = 2 /\ c[1] % 2 = m.sessionPresent /\ c[2] = m.code
  BY <1>1, SMT
<1> HIDE DEF c
<1>4. read = MQTTDeserialize_connack(packet)
  BY <1>2, SMT DEF Deserialize
<1>5. MQTTDeserialize_connack(packet) =
        [rc |-> 1, type |-> "CONNACK", sessionPresent |-> c[1] % 2, code |-> c[2]]
  <2>1. ~(Len(c) < 2)
    BY <1>3, SMT
  <2> QED
    BY <1>2, <2>1, Zenon DEF MQTTDeserialize_connack, c
<1> HIDE DEF read
<1>6. read.rc = 1 /\ \A field \in DOMAIN m : read[field] = m[field]
  BY <1>1, <1>3, <1>4, <1>5, SMT
<1>7. DOMAIN read = DOMAIN m \cup {"rc"}
  BY <1>1, <1>4, <1>5, SMT
<1> QED
  BY <1>6, <1>7, Zenon DEF ReadsBack, read

LEMMA AckReadsBack ==
  ASSUME NEW m \in AckMsgs, NEW packet, NEW maxcount,
         packet[1] = Header(m.type, m.dup, IF m.type = "PUBREL" THEN 1 ELSE 0, 0),
         ContentsOf(packet) = writeInt(m.id)
  PROVE  ReadsBack(m, packet, maxcount)
<1> DEFINE c == ContentsOf(packet)
           read == Deserialize(packet, maxcount)
           ack == [rc |-> 1, type |-> HeaderType(packet[1]), dup |-> HeaderDup(packet[1]),
                   id |-> readInt(c)]
<1>1. /\ DOMAIN m = {"type", "dup", "id"}
      /\ m.type \in Acks /\ m.dup \in Bit /\ m.id \in Short
  BY SMT DEF AckMsgs
<1>2. HeaderType(packet[1]) = m.type /\ HeaderDup(packet[1]) = m.dup
  <2>1. m.type \in PacketTypes
    BY <1>1, SMT DEF Acks, PacketTypes
  <2>2. (IF m.type = "PUBREL" THEN 1 ELSE 0) \in 0..2 /\ 0 \in Bit
    BY SMT DEF Bit
  <2> DEFINE h == Header(m.type, m.dup, IF m.type = "PUBREL" THEN 1 ELSE 0, 0)
  <2>3. HeaderType(h) = m.type /\ HeaderDup(h) = m.dup
    BY <1>1, <2>1, <2>2, HeaderIs
  <2> QED
    BY <2>3
<1>3. Len(c) = 2 /\ readInt(c) = m.id
  BY <1>1, IntOnWire, Zenon
<1> HIDE DEF c
<1>4. MQTTDeserialize_ack(packet) = ack
  <2>1. ~(Len(c) < 2)
    BY <1>3, SMT
  <2> QED
    BY <2>1, Zenon DEF MQTTDeserialize_ack, c
<1>5. read = ack
  <2>1. CASE m.type = "UNSUBACK"
    <3>1. read = MQTTDeserialize_unsuback(packet)
      BY <1>2, <2>1, SMT DEF Deserialize
    <3>2. MQTTDeserialize_unsuback(packet) = [ack EXCEPT !.rc = 1]
      BY <1>2, <1>4, <2>1, Zenon DEF MQTTDeserialize_unsuback
    <3>3. [ack EXCEPT !.rc = 1] = ack
      BY SMT
    <3> QED
      BY <3>1, <3>2, <3>3, Zenon
  <2>2. CASE m.type # "UNSUBACK"
    <3>1. m.type \notin {"CONNACK", "PUBLISH", "SUBACK", "UNSUBACK"}
      BY <1>1, <2>2, SMT DEF Acks
    <3>2. read = MQTTDeserialize_ack(packet)
      BY <1>2, <3>1, SMT DEF Deserialize
    <3> QED
      BY <1>4, <3>2, Zenon
  <2> QED
    BY <2>1, <2>2, Zenon
<1>6. ack.rc = 1 /\ ack.type = m.type /\ ack.dup = m.dup /\ ack.id = m.id
  BY <1>2, <1>3
<1>7. DOMAIN ack = DOMAIN m \cup {"rc"}
  BY <1>1, SMT
<1> HIDE DEF read, ack
<1>8. read.rc = 1 /\ \A field \in DOMAIN m : read[field] = m[field]
  BY <1>1, <1>5, <1>6, SMT
<1>9. DOMAIN read = DOMAIN m \cup {"rc"}
  BY <1>5, <1>7, Zenon
<1> QED
  BY <1>8, <1>9, Zenon DEF ReadsBack, read

LEMMA SubackReadsBack ==
  ASSUME NEW m \in Subacks, NEW packet, NEW maxcount \in Nat, Len(m.granted) <= maxcount,
         packet[1] = Header("SUBACK", 0, 0, 0),
         ContentsOf(packet) = writeInt(m.id) \o m.granted
  PROVE  ReadsBack(m, packet, maxcount)
<1> DEFINE c == ContentsOf(packet)
           int == writeInt(m.id)
           granted == m.granted
           read == Deserialize(packet, maxcount)
           suback == [rc |-> 1, type |-> "SUBACK", id |-> readInt(c),
                      granted |-> SubSeq(c, 3, Len(c))]
<1>1. /\ DOMAIN m = {"type", "id", "granted"}
      /\ m.type = "SUBACK" /\ m.id \in Short /\ granted \in Seq(Byte)
  BY SMT DEF Subacks
<1>2. HeaderType(packet[1]) = "SUBACK"
  <2>1. 0 \in Bit /\ 0 \in 0..2
    BY SMT DEF Bit
  <2>2. "SUBACK" \in PacketTypes
    BY DEF PacketTypes
  <2>3. HeaderType(Header("SUBACK", 0, 0, 0)) = "SUBACK"
    BY <2>1, <2>2, HeaderIs
  <2> QED
    BY <2>3
<1>3. int \in Seq(Byte) /\ Len(int) = 2 /\ \A s : s[1] = int[1] /\ s[2] = int[2] => readInt(s) = m.id
  BY <1>1, IntOnWire, Zenon
<1>4. c = int \o granted
  OBVIOUS
<1> HIDE DEF c, int, granted
<1>5. c[1] = int[1] /\ c[2] = int[2] /\ Len(c) = 2 + Len(granted) /\ Len(granted) \in Nat
  <2>1. int \in Seq(Byte) /\ granted \in Seq(Byte) /\ 1 \in 1..Len(int) /\ 2 \in 1..Len(int)
    BY <1>1, <1>3
  <2>2. (int \o granted)[1] = int[1] /\ (int \o granted)[2] = int[2]
    BY <2>1, JoinFirst
  <2>3. Len(int \o granted) = Len(int) + Len(granted) /\ Len(granted) \in Nat
    BY <2>1, JoinIs
  <2> QED
    BY <1>3, <1>4, <2>2, <2>3, Zenon
<1>6. readInt(c) = m.id
  BY <1>3, <1>5, Zenon
<1>7. SubSeq(c, 3, Len(c)) = granted
  <2>1. SubSeq(int \o granted \o <<>>, Len(int) + 1, Len(int) + Len(granted)) = granted
    BY <1>1, <1>3, NoBytes, MiddleIs
  <2>2. int \o granted \o <<>> = c
    <3>1. int \o granted \in Seq(Byte)
      BY <1>1, <1>3, JoinIs
    <3> QED
      BY <1>4, <3>1, JoinNone
  <2>3. Len(int) + 1 = 3 /\ Len(int) + Len(granted) = Len(c)
    BY <1>3, <1>5
  <2> QED
    BY <2>1, <2>2, <2>3, Zenon
<1>8. read = MQTTDeserialize_suback(packet, maxcount)
  BY <1>2, SMT DEF Deserialize
<1>9. MQTTDeserialize_suback(packet, maxcount) = suback
  <2>1. ~(Len(c) < 2) /\ ~(Len(c) - 2 > maxcount + 1)
    BY <1>5, SMT DEF granted
  <2> QED
    BY <1>2, <2>1, Zenon DEF MQTTDeserialize_suback, c
<1>10. /\ suback.rc = 1 /\ suback.type = m.type /\ suback.id = m.id
       /\ suback.granted = m.granted
  BY <1>1, <1>6, <1>7 DEF granted
<1>11. DOMAIN suback = DOMAIN m \cup {"rc"}
  BY <1>1, SMT
<1> HIDE DEF read, suback
<1>12. read.rc = 1 /\ \A field \in DOMAIN m : read[field] = m[field]
  BY <1>1, <1>8, <1>9, <1>10, SMT
<1>13. DOMAIN read = DOMAIN m \cup {"rc"}
  BY <1>8, <1>9, <1>11, Zenon
<1> QED
  BY <1>12, <1>13, Zenon DEF ReadsBack, read

LEMMA PublishReadsBack ==
  ASSUME NEW m \in Publishes, NEW packet, NEW maxcount,
         packet[1] = Header("PUBLISH", m.dup, m.qos, m.retain),
         ContentsOf(packet) = PublishBody(m)
  PROVE  ReadsBack(m, packet, maxcount)
<1> DEFINE c == ContentsOf(packet)
           topic == m.topic
           payload == m.payload
           int == writeInt(Len(topic))
           ident == IF m.qos > 0 THEN writeInt(m.id) ELSE <<>>
           at == 2 + readInt(c)
           from == IF m.qos > 0 THEN at + 2 ELSE at
           id == IF m.qos > 0 THEN readInt(SubSeq(c, at + 1, at + 2)) ELSE 0
           read == Deserialize(packet, maxcount)
           publish == [rc |-> 1, type |-> "PUBLISH", dup |-> m.dup, qos |-> m.qos,
                       retain |-> m.retain, topic |-> SubSeq(c, 3, at), id |-> id,
                       payload |-> SubSeq(c, from + 1, Len(c))]
<1>1. /\ DOMAIN m = {"type", "dup", "qos", "retain", "id", "topic", "payload"}
      /\ m.type = "PUBLISH" /\ m.dup \in Bit /\ m.qos \in 0..2 /\ m.retain \in Bit
      /\ m.id \in Short /\ topic \in MQTTString /\ payload \in Seq(Byte)
      /\ (m.qos = 0 => m.id = 0)
  BY SMT DEF Publishes
<1>2. /\ HeaderType(packet[1]) = "PUBLISH" /\ HeaderDup(packet[1]) = m.dup
      /\ HeaderQos(packet[1]) = m.qos /\ HeaderRetain(packet[1]) = m.retain
  <2> DEFINE h == Header("PUBLISH", m.dup, m.qos, m.retain)
  <2>1. /\ HeaderType(h) = "PUBLISH" /\ HeaderDup(h) = m.dup
        /\ HeaderQos(h) = m.qos /\ HeaderRetain(h) = m.retain
    <3>1. "PUBLISH" \in PacketTypes
      BY DEF PacketTypes
    <3> QED
      BY <1>1, <3>1, HeaderIs
  <2> QED
    BY <2>1
<1>3. /\ topic \in Seq(Byte) /\ Len(topic) \in Short /\ Len(topic) \in Nat
      /\ writeMQTTString(topic) = int \o topic
  BY <1>1, StringIs
<1>4. /\ int \in Seq(Byte) /\ Len(int) = 2
      /\ \A s : s[1] = int[1] /\ s[2] = int[2] => readInt(s) = Len(topic)
  BY <1>3, IntOnWire, Zenon
<1>5. ident \in Seq(Byte) /\ Len(ident) = IF m.qos > 0 THEN 2 ELSE 0
  <2>1. CASE m.qos > 0
    BY <1>1, <2>1, IntOnWire, Zenon
  <2>2. CASE ~(m.qos > 0)
    <3>1. ident = <<>> /\ (IF m.qos > 0 THEN 2 ELSE 0) = 0
      BY <2>2
    <3> QED
      BY <3>1, NoBytes
  <2> QED
    BY <2>1, <2>2
<1>6. c = int \o topic \o ident \o payload
  BY <1>3, Zenon DEF PublishBody
<1>7. m.qos > 0 => ident = writeInt(m.id)
  OBVIOUS
<1> HIDE DEF c, topic, payload, int, ident
<1>8. /\ c \in Seq(Byte) /\ Len(c) = 2 + Len(topic) + Len(ident) + Len(payload)
      /\ Len(payload) \in Nat /\ Len(ident) \in Nat
      /\ int \o topic \in Seq(Byte) /\ Len(int \o topic) = 2 + Len(topic)
      /\ ident \o payload \in Seq(Byte) /\ Len(ident \o payload) = Len(ident) + Len(payload)
      /\ c = int \o topic \o (ident \o payload)
  <2>1. int \in Seq(Byte) /\ topic \in Seq(Byte) /\ ident \in Seq(Byte) /\ payload \in Seq(Byte)
    BY <1>1, <1>3, <1>4, <1>5
  <2>2. int \o topic \in Seq(Byte) /\ Len(int \o topic) = 2 + Len(topic)
    BY <1>4, <2>1, JoinIs
  <2>3. /\ ident \o payload \in Seq(Byte) /\ Len(ident \o payload) = Len(ident) + Len(payload)
        /\ Len(payload) \in Nat /\ Len(ident) \in Nat
    BY <2>1, JoinIs
  <2>4. /\ (int \o topic) \o ident \o payload \in Seq(Byte)
        /\ Len((int \o topic) \o ident \o payload) = Len(int \o topic) + Len(ident) + Len(payload)
    BY <2>1, <2>2, JoinThree
  <2>5. (int \o topic) \o ident \o payload = (int \o topic) \o (ident \o payload)
    BY <2>1, <2>2, JoinAssoc
  <2> QED
    BY <1>6, <2>2, <2>3, <2>4, <2>5, Zenon
<1>9. readInt(c) = Len(topic)
  <2>1. int \in Seq(Byte) /\ topic \in Seq(Byte) /\ ident \o payload \in Seq(Byte)
    BY <1>3, <1>4, <1>8
  <2>2. /\ topic \o (ident \o payload) \in Seq(Byte)
        /\ c = int \o (topic \o (ident \o payload))
    <3>1. topic \o (ident \o payload) \in Seq(Byte)
      BY <2>1, JoinIs
    <3>2. c = int \o topic \o (ident \o payload)
      BY <1>8
    <3>3. int \o topic \o (ident \o payload) = int \o (topic \o (ident \o payload))
      BY <2>1, JoinAssoc
    <3> QED
      BY <3>1, <3>2, <3>3, Zenon
  <2>3. 1 \in 1..Len(int) /\ 2 \in 1..Len(int)
    BY <1>4
  <2>4. c[1] = int[1] /\ c[2] = int[2]
    BY <2>1, <2>2, <2>3, JoinFirst
  <2> QED
    BY <1>4, <2>4, Zenon
<1>10. SubSeq(c, 3, at) = topic
  <2>1. SubSeq(int \o topic \o (ident \o payload), Len(int) + 1, Len(int) + Len(topic)) = topic
    BY <1>3, <1>4, <1>8, MiddleIs
  <2>2. int \o topic \o (ident \o payload) = c
    BY <1>8
  <2>3. Len(int) + 1 = 3 /\ Len(int) + Len(topic) = at
    BY <1>4, <1>9
  <2> QED
    BY <2>1, <2>2, <2>3, Zenon
<1>11. id = m.id
  <2>1. CASE m.qos > 0
    <3>1. SubSeq((int \o topic) \o ident \o payload, Len(int \o topic) + 1,
                 Len(int \o topic) + Len(ident)) = ident
      BY <1>1, <1>5, <1>8, MiddleIs
    <3>2. Len(int \o topic) = at /\ Len(ident) = 2
      BY <1>5, <1>8, <1>9, <2>1
    <3>3. SubSeq(c, at + 1, at + 2) = ident
      BY <1>6, <3>1, <3>2, Zenon
    <3>4. readInt(writeInt(m.id)) = m.id
      BY <1>1, IntOnWire, Zenon
    <3> QED
      BY <1>7, <2>1, <3>3, <3>4, Zenon
  <2>2. CASE ~(m.qos > 0)
    <3>1. m.qos = 0
      BY <1>1, <2>2, SMT
    <3> QED
      BY <1>1, <2>2, <3>1, Zenon
  <2> QED
    BY <2>1, <2>2
<1>12. SubSeq(c, from + 1, Len(c)) = payload
  <2>1. (int \o topic) \o ident \in Seq(Byte)
        /\ Len((int \o topic) \o ident) = 2 + Len(topic) + Len(ident)
    BY <1>5, <1>8, JoinIs
  <2>2. SubSeq(((int \o topic) \o ident) \o payload \o <<>>,
               Len((int \o topic) \o ident) + 1,
               Len((int \o topic) \o ident) + Len(payload)) = payload
    BY <1>1, <2>1, NoBytes, MiddleIs
  <2>3. c \o <<>> = c
    BY <1>8, SMT
  <2>4. from = 2 + Len(topic) + Len(ident)
    <3>1. at = 2 + Len(topic)
      BY <1>9
    <3>2. from = IF m.qos > 0 THEN (2 + Len(topic)) + 2 ELSE 2 + Len(topic)
      BY <3>1, Zenon
    <3> QED
      BY <1>3, <1>5, <3>2, SMT
  <2> HIDE DEF from
  <2> QED
    BY <1>6, <1>8, <2>1, <2>2, <2>3, <2>4, Zenon
<1>13. HasString(c)
  BY <1>3, <1>8, <1>9, SMT DEF HasString
<1>14. read = MQTTDeserialize_publish(packet)
  BY <1>2, SMT DEF Deserialize
<1>15. MQTTDeserialize_publish(packet) = publish
  BY <1>2, <1>13, Zenon DEF MQTTDeserialize_publish, c
<1> HIDE DEF id, at, from
<1>16. /\ publish.rc = 1 /\ publish.type = m.type /\ publish.dup = m.dup
       /\ publish.qos = m.qos /\ publish.retain = m.retain /\ publish.id = m.id
       /\ publish.topic = m.topic /\ publish.payload = m.payload
  BY <1>1, <1>10, <1>11, <1>12 DEF topic, payload
<1>17. DOMAIN publish = DOMAIN m \cup {"rc"}
  BY <1>1, SMT
<1> HIDE DEF read, publish
<1>18. read.rc = 1 /\ \A field \in DOMAIN m : read[field] = m[field]
  BY <1>1, <1>14, <1>15, <1>16, SMT
<1>19. DOMAIN read = DOMAIN m \cup {"rc"}
  BY <1>14, <1>15, <1>17, Zenon
<1> QED
  BY <1>18, <1>19, Zenon DEF ReadsBack, read

(* The longest packet is five bytes longer than the longest contents. *)
LEMMA ShortEnough ==
  ASSUME NEW n \in Nat, NEW buflen \in Nat, buflen <= MaxRemaining + 5,
         MQTTPacket_len(n) <= buflen
  PROVE  n \in 0..MaxRemaining
<1>1. MaxRemaining \in Nat /\ MaxRemaining < 268435456 /\ MaxRemaining + 5 < 268435461
  BY MaxIs, SMT
<1>2. MQTTPacket_len(n) < 268435461
  BY <1>1, SMT DEF MQTTPacket_len
<1>3. n < 268435456
  BY <1>2, SMT DEF MQTTPacket_len
<1>4. n <= MaxRemaining
  BY <1>3, SMT DEF MaxRemaining
<1>5. \A x, y \in Nat : x <= y => x \in 0..y
  BY SMT
<1> QED
  <2>1. MaxRemaining \in Nat
    BY MaxIs
  <2> QED
    BY <1>4, <1>5, <2>1, Zenon

LEMMA FrameFits ==
  ASSUME NEW m, NEW h, NEW n, NEW body, FrameIs(m, h, n, body),
         NEW buflen \in Nat, buflen <= MaxRemaining + 5, Serialize(m, buflen) # BufferTooShort
  PROVE  /\ n \in 0..MaxRemaining /\ MQTTPacket_len(n) <= buflen
         /\ Serialize(m, buflen) = Packet(h, n, body)
<1>1. n \in Nat /\ Serialize(m, buflen) = Serialized(h, n, body, buflen)
  BY DEF FrameIs
<1>2. ~(MQTTPacket_len(n) > buflen) /\ Serialized(h, n, body, buflen) = Packet(h, n, body)
  BY <1>1, Zenon DEF Serialized, Packet
<1>3. MQTTPacket_len(n) <= buflen
  <2>1. MQTTPacket_len(n) \in Nat
    BY <1>1, SMT DEF MQTTPacket_len
  <2> QED
    BY <1>2, <2>1, SMT
<1>4. n \in 0..MaxRemaining
  BY <1>1, <1>3, ShortEnough
<1> QED
  BY <1>1, <1>2, <1>3, <1>4, Zenon

(***************************************************************************)
(* What the serializers write of a message that a deserializer reads, the  *)
(* deserializer reads as that message, for every value of its arguments:   *)
(* ids of any two bytes, a topic and a payload of any length that fits a   *)
(* packet, an empty one included.  (The number of granted qualities is not *)
(* above maxcount.)                                                        *)
(***************************************************************************)
THEOREM DeserializesWhatIsSerialized ==
  ASSUME NEW m \in Publishes \cup AckMsgs \cup Connacks \cup Subacks,
         NEW buflen \in Nat, buflen <= MaxRemaining + 5,
         Serialize(m, buflen) # BufferTooShort,
         NEW maxcount \in Nat, m \in Subacks => Len(m.granted) <= maxcount
  PROVE  ReadsBack(m, Serialize(m, buflen), maxcount)
<1>1. ASSUME NEW h, NEW n, NEW body, FrameIs(m, h, n, body)
      PROVE  /\ Serialize(m, buflen)[1] = h
             /\ ContentsOf(Serialize(m, buflen)) = body
  <2>1. n \in 0..MaxRemaining /\ Serialize(m, buflen) = Packet(h, n, body)
    BY <1>1, FrameFits
  <2>2. h \in Byte /\ body \in Seq(Byte) /\ Len(body) = n
    BY <1>1 DEF FrameIs
  <2> QED
    BY <2>1, <2>2, PacketIs
<1>2. CASE m \in Publishes
  BY <1>1, <1>2, PublishFrame, PublishReadsBack
<1>3. CASE m \in AckMsgs
  BY <1>1, <1>3, AckFrame, AckReadsBack
<1>4. CASE m \in Connacks
  BY <1>1, <1>4, ConnackFrame, ConnackReadsBack
<1>5. CASE m \in Subacks
  BY <1>1, <1>5, SubackFrame, SubackReadsBack
<1> QED
  BY <1>2, <1>3, <1>4, <1>5
=============================================================================
