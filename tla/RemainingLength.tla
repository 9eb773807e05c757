-------------------------- MODULE RemainingLength --------------------------
(***************************************************************************)
(* The numbers of an MQTT packet on the wire (MQTT/MQTTPacket.c): the      *)
(* remaining length, coded in one to four bytes of seven bits each, and    *)
(* the two-byte integers of ids and of the lengths of strings.             *)
(*                                                                         *)
(* The loops of the code run at most four times on the lengths that MQTT   *)
(* allows and are written out digit by digit, which is the form the proofs *)
(* need.                                                                   *)
(***************************************************************************)
EXTENDS Integers, Sequences

Byte == 0..255

\* The largest remaining length of four bytes.
MaxRemaining == 268435455

\* The values of `multiplier`: it grows with every byte, the last one included.
Power == <<1, 128, 16384, 2097152, 268435456>>

MAX_NO_OF_REMAINING_LENGTH_BYTES == 4

\* The number of bytes the loop of MQTTPacket_encode writes.
EncodedSize(length) ==
  IF length < 128 THEN 1
  ELSE IF length < 16384 THEN 2
  ELSE IF length < 2097152 THEN 3
  ELSE 4

Digit(length, i) == (length \div Power[i]) % 128

\* Every byte but the last has its top bit set.
MQTTPacket_encode(length) ==
  [i \in 1..EncodedSize(length) |->
     Digit(length, i) + (IF i < EncodedSize(length) THEN 128 ELSE 0)]

Continues(c) == c >= 128

\* One round of the loop of MQTTPacket_decode: the i-th byte's part of the value.
Part(c, i) == (c % 128) * Power[i]

\* The i-th byte is the last one the loop reads.
StopsAt(s, i) ==
  /\ i \in 1..MAX_NO_OF_REMAINING_LENGTH_BYTES
  /\ i < MAX_NO_OF_REMAINING_LENGTH_BYTES => ~Continues(s[i])
  /\ \A j \in 1..(i - 1) : Continues(s[j])

\* MQTTPacket_decode on a buffer: the value, and `len`, which is 5 when the
\* fourth byte says that there is a fifth, although only four are looked at.
MQTTPacket_decodeBuf(s) ==
  LET last == CHOOSE i \in 1..MAX_NO_OF_REMAINING_LENGTH_BYTES : StopsAt(s, i)
      part(i) == IF i <= last THEN Part(s[i], i) ELSE 0 IN
  [value |-> part(1) + part(2) + part(3) + part(4),
   len   |-> IF Continues(s[last]) THEN last + 1 ELSE last]

\* Wrong: the header byte is left out.
MQTTPacket_len_NoHeader(rem_len) ==
  rem_len + (IF rem_len < 128 THEN 1
             ELSE IF rem_len < 16384 THEN 2
             ELSE IF rem_len < 2097151 THEN 3
             ELSE 4)

\* The thresholds are compared with rem_len + 1, and the last one is 2097151.
MQTTPacket_len(rem_len) ==
  LET n == rem_len + 1 IN
  n + (IF n < 128 THEN 1
       ELSE IF n < 16384 THEN 2
       ELSE IF n < 2097151 THEN 3
       ELSE 4)

\* writeInt of an unsigned short, readInt.
writeInt(anInt) == <<(anInt \div 256) % 256, anInt % 256>>
readInt(s) == 256 * s[1] + s[2]
=============================================================================
