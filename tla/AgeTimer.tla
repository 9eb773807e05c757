------------------------------ MODULE AgeTimer ------------------------------
(***************************************************************************)
(* What module MQTTClient takes a timer of MQTTClient::mainTask to be: an  *)
(* age, counted no further than the first value past its limit, that the   *)
(* start-over of the clock can only make smaller.                          *)
(***************************************************************************)
EXTENDS Naturals

CONSTANTS
  Limit,    \* pingreqPrd or unknownTimeout
  MaxTick   \* the most ticks between two turns of the main loop

VARIABLES
  age,      \* now - timer, as the code would compute it
  did       \* did the last step fire the timer?

Least(a, b) == IF a < b THEN a ELSE b

Init == age = 0 /\ did = "wait"

Tick == /\ \E d \in 0..MaxTick : age' = Least(age + d, Limit + 1)
        /\ did' = "wait"

Rollover == age' \in 0..age /\ did' = "wait"

Restart == age' = 0 /\ did' = "wait"

Quiet == age' = age /\ did' = "wait"

Fire == age > Limit /\ age' = 0 /\ did' = "fire"

Next == Tick \/ Rollover \/ Restart \/ Quiet \/ Fire

Spec == Init /\ [][Next]_<<age, did>>
=============================================================================
