---------------------------- MODULE PacketStream ----------------------------
(***************************************************************************)
(* What a reader of MQTT packets promises of a connection: the packets     *)
(* that were sent come out one at a time, whole and in their order.  A     *)
(* connection may be given up, with all that is still on its way.          *)
(***************************************************************************)
EXTENDS SequencesExt

VARIABLES
  queue,     \* the packets sent and not yet received
  received   \* the packets received on this connection

vars == <<queue, received>>

Init == queue = <<>> /\ received = <<>>

Send    == queue' # <<>> /\ queue = Front(queue') /\ UNCHANGED received
Receive == queue # <<>> /\ received' = Append(received, Head(queue)) /\ queue' = Tail(queue)
GiveUp  == queue' = <<>> /\ received' = <<>>

Next == Send \/ Receive \/ GiveUp

Spec == Init /\ [][Next]_vars
=============================================================================
