----------------------------- MODULE FrameQueue -----------------------------
(***************************************************************************)
(* What the Ethernet driver promises the TCP/IP library for received       *)
(* frames: a bounded queue.  Frames are numbered in the order in which     *)
(* they end on the wire.  A frame joins the queue or, only if the queue is *)
(* full, is dropped; the library takes the frames in order and once each.  *)
(***************************************************************************)
EXTENDS Naturals, Sequences

CONSTANT Capacity

VARIABLES
  queue,  \* the frames handed over and not yet taken
  last,   \* the last frame offered
  taken   \* the last frame taken

Init == queue = <<>> /\ last = 0 /\ taken = 0

Offer ==
  /\ last' = last + 1
  /\ \/ Len(queue) < Capacity /\ queue' = Append(queue, last')
     \/ Len(queue) = Capacity /\ UNCHANGED queue
  /\ UNCHANGED taken

Take ==
  /\ queue # <<>>
  /\ taken' = Head(queue) /\ queue' = Tail(queue)
  /\ UNCHANGED last

Next == Offer \/ Take

Spec == Init /\ [][Next]_<<queue, last, taken>>
=============================================================================
