---------------------------- MODULE MillisTimer ----------------------------
(***************************************************************************)
(* A timer of MQTTClient::mainTask on the clock millis32(), which starts   *)
(* over: unknownTmr or pingreqTmr, checked once in every turn of the main  *)
(* loop with                                                               *)
(*                                                                         *)
(*   if(time < tmr) tmr = time;          // fix millis32 rollup            *)
(*   if(on && time - tmr > Limit) { tmr = time; ... }                      *)
(*                                                                         *)
(* PINGREQ's timer is always on.  The other one is on while MQTTStatus is  *)
(* MQTTUnknown, a status that the client enters and leaves for reasons of  *)
(* its own, usually without setting unknownTmr.                            *)
(***************************************************************************)
EXTENDS Integers

CONSTANTS
  Clock,     \* millis32() runs from 0 to Clock - 1
  Limit,     \* pingreqPrd or unknownTimeout
  MaxTick    \* the most ticks between two turns of the main loop

\* The clock starts over less often than a timer on it can fire.
ASSUME TimerAssumption ==
  /\ Clock \in Nat /\ Limit \in Nat /\ MaxTick \in Nat \ {0}
  /\ 2 * (Limit + MaxTick) < Clock

VARIABLES
  alwaysOn,\* PINGREQ's timer?
  pc,      \* "run" before the next turn of the loop, "check" within it
  time,    \* millis32()
  tmr,     \* unknownTmr or pingreqTmr
  status,  \* MQTTStatus: "Unknown" or not; kept "Unknown" for a timer always on
  did,     \* did the last step fire the timer?
  wait     \* the ticks it has been on since it fired or was started last

vars == <<alwaysOn, pc, time, tmr, status, did, wait>>

TypeOK ==
  /\ alwaysOn \in BOOLEAN /\ pc \in {"run", "check"} /\ status \in {"Unknown", "Known"} /\ did \in {"fire", "wait"}
  /\ time \in 0..(Clock - 1) /\ tmr \in 0..(Clock - 1) /\ wait \in Nat

\* The constructor sets both timers to millis32().  The status is MQTTUnknown.
Init ==
  /\ alwaysOn \in BOOLEAN /\ pc = "run" /\ time \in 0..(Clock - 1) /\ tmr = time
  /\ status = "Unknown" /\ did = "wait" /\ wait = 0

on == status = "Unknown"

\* Wrong: a clock that does not start over.
Advance_NoWrap(d) ==
  /\ pc = "run" /\ pc' = "check"
  /\ time' = time + d
  /\ wait' = IF on THEN wait + d ELSE wait
  /\ did' = "wait"
  /\ UNCHANGED <<alwaysOn, tmr, status>>

\* One turn of the loop later.
Advance(d) ==
  /\ pc = "run" /\ pc' = "check"
  /\ time' = (IF time + d < Clock THEN time + d ELSE time + d - Clock)
  /\ wait' = IF on THEN wait + d ELSE wait
  /\ did' = "wait"
  /\ UNCHANGED <<alwaysOn, tmr, status>>

\* A packet that no client expects: the status is MQTTUnknown, unknownTmr is now.
RecvOther ==
  /\ ~alwaysOn /\ pc = "check"
  /\ status' = "Unknown" /\ tmr' = time /\ wait' = 0 /\ did' = "wait"
  /\ UNCHANGED <<alwaysOn, pc, time>>

\* Every other change of the status, MQTTUnknown for a lost connection included.
Status ==
  /\ ~alwaysOn /\ pc = "check"
  /\ status' = IF on THEN "Known" ELSE "Unknown"
  /\ wait' = 0 /\ did' = "wait"
  /\ UNCHANGED <<alwaysOn, pc, time, tmr>>

\* Wrong: the comparison of the fix is the wrong way round.
Fixed_Swapped == IF time > tmr THEN time ELSE tmr

\* "fix millis32 rollup"
Fixed == IF time < tmr THEN time ELSE tmr

\* Wrong: fires one tick early.
Expired_Early == on /\ time - Fixed >= Limit

Expired == on /\ time - Fixed > Limit

\* A client whose unknown timer has fired has sent CONNECT: it is not unknown.
StatusAfter == IF alwaysOn THEN "Unknown" ELSE "Known"

\* Wrong: the timer is not set again when it fires.
Check_KeepsTimer ==
  /\ pc = "check" /\ pc' = "run"
  /\ tmr' = Fixed
  /\ IF Expired THEN did' = "fire" /\ wait' = 0 /\ status' = StatusAfter
                ELSE did' = "wait" /\ UNCHANGED <<wait, status>>
  /\ UNCHANGED <<alwaysOn, time>>

Check ==
  /\ pc = "check" /\ pc' = "run"
  /\ IF Expired THEN did' = "fire" /\ tmr' = time /\ wait' = 0 /\ status' = StatusAfter
                ELSE did' = "wait" /\ tmr' = Fixed /\ UNCHANGED <<wait, status>>
  /\ UNCHANGED <<alwaysOn, time>>

Next == (\E d \in 0..MaxTick : Advance(d)) \/ RecvOther \/ Status \/ Check

Spec == Init /\ [][Next]_vars

-----------------------------------------------------------------------------
(* Properties.                                                             *)

\* Whatever the clock does, the time between two PINGREQs (or that a client
\* stays unknown) has a bound: a start-over of the clock costs one period more,
\* never two, and the loop is late by one turn each time.
FiresInTime == wait <= 2 * (Limit + MaxTick)

\* PINGREQ's timer never fires before its period is over.  (The unknown timer may:
\* Status leaves unknownTmr as it was.)
NeverEarly == [][Check /\ Expired /\ alwaysOn => wait > Limit]_vars

(***************************************************************************)
(* Why the bound holds.  The ticks waited are at most those since tmr (the *)
(* timer may have been switched on later).  When the clock starts over,    *)
(* one period and one turn come on top; tmr is then so small that the      *)
(* timer fires long before the clock can start over again.                 *)
(***************************************************************************)
WaitInv ==
  /\ pc = "run" => time >= tmr /\ (on => time - tmr <= Limit)
  /\ time < tmr => time < MaxTick
  /\ ~on => wait = 0
  /\ on => \/ time >= tmr /\ wait <= time - tmr /\ wait <= Limit + MaxTick
           \/ /\ time >= tmr /\ tmr < MaxTick
              /\ wait <= time - tmr + Limit + MaxTick /\ wait <= 2 * (Limit + MaxTick)
           \/ pc = "check" /\ time < tmr /\ wait <= Limit + MaxTick
  /\ alwaysOn => on /\ (time >= tmr => wait >= time - tmr)

\* The timer that MQTTClient assumes.
A == INSTANCE AgeTimer WITH
       age <- IF time < tmr THEN 0
              ELSE IF time - tmr < Limit + 1 THEN time - tmr ELSE Limit + 1
Implements == A!Spec
=============================================================================
