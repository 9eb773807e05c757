------------------------- MODULE MillisTimer_proofs -------------------------
(***************************************************************************)
(* Proofs about a timer of MQTTClient::mainTask, for every length of its   *)
(* period, of a turn of the main loop and of the clock's range.            *)
(***************************************************************************)
EXTENDS MillisTimer, TLAPS

IInv == TypeOK /\ WaitInv

LEMMA InitInv == Init => IInv
BY TimerAssumption DEF Init, IInv, TypeOK, WaitInv, on

LEMMA AdvanceInv ==
  ASSUME IInv, NEW d \in 0..MaxTick, Advance(d)
  PROVE  IInv'
<1>1. TypeOK'
  BY TimerAssumption DEF IInv, TypeOK, Advance
<1>2. CASE time + d < Clock
  BY <1>1, <1>2, TimerAssumption DEF IInv, TypeOK, WaitInv, on, Advance
<1>3. CASE time + d >= Clock
  BY <1>1, <1>3, TimerAssumption DEF IInv, TypeOK, WaitInv, on, Advance
<1> QED
  BY <1>2, <1>3, TimerAssumption DEF IInv, TypeOK

LEMMA CheckInv ==
  ASSUME IInv, Check
  PROVE  IInv'
<1>1. TypeOK'
  BY TimerAssumption DEF IInv, TypeOK, Check, StatusAfter, Fixed
<1>2. CASE Expired
  <2>1. /\ pc' = "run" /\ time' = time /\ tmr' = time /\ wait' = 0
        /\ alwaysOn' = alwaysOn /\ (alwaysOn => status' = "Unknown")
    BY <1>2 DEF Check, StatusAfter
  <2> QED
    BY <1>1, <2>1, TimerAssumption DEF IInv, TypeOK, WaitInv, on
<1>3. CASE ~Expired
  <2>1. /\ pc = "check" /\ pc' = "run"
        /\ UNCHANGED <<alwaysOn, time, wait, status>> /\ tmr' = Fixed
    BY <1>3 DEF Check
  <2>2. CASE time < tmr
    <3>1. tmr' = time
      BY <2>1, <2>2 DEF Fixed
    <3> QED
      BY <1>1, <2>1, <2>2, <3>1, TimerAssumption DEF IInv, TypeOK, WaitInv, on
  <2>3. CASE time >= tmr
    <3>1. tmr' = tmr /\ (on => time - tmr <= Limit)
      BY <1>3, <2>1, <2>3, TimerAssumption DEF IInv, TypeOK, Fixed, Expired
    <3> QED
      BY <1>1, <2>1, <2>3, <3>1, TimerAssumption DEF IInv, TypeOK, WaitInv, on
  <2> QED
    BY <2>2, <2>3 DEF IInv, TypeOK
<1> QED
  BY <1>2, <1>3

LEMMA NextInv == IInv /\ [Next]_vars => IInv'
<1> SUFFICES ASSUME IInv, [Next]_vars PROVE IInv'
  OBVIOUS
<1>1. CASE RecvOther
  BY <1>1, TimerAssumption DEF IInv, TypeOK, WaitInv, on, RecvOther
<1>2. CASE Status
  BY <1>2, TimerAssumption DEF IInv, TypeOK, WaitInv, on, Status
<1>3. CASE UNCHANGED vars
  BY <1>3 DEF IInv, TypeOK, WaitInv, on, vars
<1> QED
  BY <1>1, <1>2, <1>3, AdvanceInv, CheckInv DEF Next

\* The invariant of a timer.
THEOREM Invariant == Spec => []IInv
BY InitInv, NextInv, PTL DEF Spec

\* Every variable of a timer keeps its type: the clock stays in its range and the
\* silence it measures is bounded.
THEOREM TypeCorrect == Spec => []TypeOK
<1>1. IInv => TypeOK
  BY DEF IInv
<1> QED
  BY <1>1, Invariant, PTL

\* No period of silence is longer than two periods and two turns of the loop,
\* start-over of the clock or not.
THEOREM InTime == Spec => []FiresInTime
<1>1. IInv => FiresInTime
  BY TimerAssumption DEF IInv, TypeOK, WaitInv, on, FiresInTime
<1> QED
  BY <1>1, Invariant, PTL

\* A timer that is always on, that of PINGREQ, never fires early.
THEOREM NotEarly == Spec => NeverEarly
<1>1. IInv /\ [Next]_vars => [Check /\ Expired /\ alwaysOn => wait > Limit]_vars
  BY TimerAssumption DEF IInv, TypeOK, WaitInv, on, Expired, Fixed
<1> QED
  BY <1>1, Invariant, PTL DEF Spec, NeverEarly

-----------------------------------------------------------------------------
(* The refinement.                                                         *)

Age == IF time < tmr THEN 0
       ELSE IF time - tmr < Limit + 1 THEN time - tmr ELSE Limit + 1

LEMMA InitImplements == Init => A!Init
BY TimerAssumption DEF Init, A!Init

LEMMA AgeType == IInv => Age \in 0..(Limit + 1)
BY TimerAssumption DEF IInv, TypeOK, Age

\* A turn that the clock starts over in is a Rollover, another one a Tick.
LEMMA AdvanceImplements ==
  ASSUME IInv, NEW d \in 0..MaxTick, Advance(d)
  PROVE  A!Tick \/ A!Rollover
<1>1. did' = "wait"
  BY DEF Advance
<1>2. CASE time + d < Clock
  <2>1. Age' = IF Age + d < Limit + 1 THEN Age + d ELSE Limit + 1
    BY <1>2, TimerAssumption DEF IInv, TypeOK, WaitInv, on, Advance, Age
  <2> QED
    BY <1>1, <2>1 DEF A!Tick, A!Least, Age
<1>3. CASE time + d >= Clock
  <2>1. Age' \in 0..Age
    BY <1>3, TimerAssumption DEF IInv, TypeOK, WaitInv, on, Advance, Age
  <2> QED
    BY <1>1, <2>1 DEF A!Rollover, Age
<1> QED
  BY <1>2, <1>3, TimerAssumption DEF IInv, TypeOK

LEMMA CheckImplements ==
  ASSUME IInv, Check
  PROVE  A!Fire \/ A!Quiet
<1>1. CASE Expired
  <2>1. Age > Limit /\ Age' = 0 /\ did' = "fire"
    BY <1>1, TimerAssumption DEF IInv, TypeOK, Check, on, StatusAfter, Expired, Fixed, Age
  <2> QED
    BY <2>1 DEF A!Fire, Age
<1>2. CASE ~Expired
  <2>1. Age' = Age /\ did' = "wait"
    BY <1>2, TimerAssumption DEF IInv, TypeOK, Check, on, StatusAfter, Expired, Fixed, Age
  <2> QED
    BY <2>1 DEF A!Quiet, Age
<1> QED
  BY <1>1, <1>2

LEMMA NextImplements ==
  IInv /\ [Next]_vars => [A!Next]_<<Age, did>>
<1> SUFFICES ASSUME IInv, [Next]_vars PROVE [A!Next]_<<Age, did>>
  OBVIOUS
<1>1. CASE RecvOther
  <2>1. Age' = 0 /\ did' = "wait"
    BY <1>1, TimerAssumption DEF IInv, TypeOK, RecvOther, Age
  <2> QED
    BY <2>1 DEF A!Restart, A!Next, Age
<1>2. CASE Status
  BY <1>2 DEF Status, A!Quiet, A!Next, Age
<1>3. CASE UNCHANGED vars
  BY <1>3 DEF vars, Age
<1> QED
  BY <1>1, <1>2, <1>3, AdvanceImplements, CheckImplements DEF Next, A!Next

\* The age of a timer, as module MQTTClient counts it, is what the code computes
\* from a clock that starts over: MQTTClient's ticks and rollovers are all of it.
THEOREM Implementation == Spec => Implements
<1>1. Init => A!Init
  BY InitImplements
<1>2. IInv /\ [Next]_vars => [A!Next]_<<Age, did>>
  BY NextImplements
<1> QED
  BY <1>1, <1>2, Invariant, PTL DEF Spec, Implements, A!Spec, Age
=============================================================================
