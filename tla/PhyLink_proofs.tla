--------------------------- MODULE PhyLink_proofs ---------------------------
(***************************************************************************)
(* Proofs about PhyLink: its types, and that the PHY's clock rests for     *)
(* 500 ms, whatever the interrupt and the main loop do to each other.      *)
(***************************************************************************)
EXTENDS PhyLink, TLAPS

\* The flag stands for the clock being off.  The time that the main loop measures
\* is no more than the time the clock has been off: other steps set it back, none
\* moves it on.  A PHY without a clock has no link and asks for no interrupt, so
\* that what the main loop has found out about the reset remains so.
ClockInv ==
  /\ phyLinkReset <=> ~clock
  /\ ~clock => age <= off /\ ~phy.linked /\ (LINKIF => isr = "clear")
  /\ pc \in {"reset", "waited"} => ~clock
  /\ pc = "waited" => off = ResetTime

IInv == TypeOK /\ ClockInv

-----------------------------------------------------------------------------
(* What the operators on settings and on the PHY return.                   *)

LEMMA SettingType ==
  /\ Default \in Setting
  /\ \A s \in Setting : Turned(s) \in Setting /\ Normal(s) \in Setting
  /\ \A s \in Setting : [pair |-> 3 - s.pair, reversed |-> FALSE] \in Setting
<1>1. Default \in Setting
  BY DEF Default, Setting
<1>2. ASSUME NEW s \in Setting PROVE Turned(s) \in Setting
  <2>1. (~s.reversed) \in BOOLEAN
    OBVIOUS
  <2> QED
    BY <2>1 DEF Setting, Turned
<1>3. ASSUME NEW s \in Setting PROVE Normal(s) \in Setting
  BY DEF Setting, Normal
<1>4. ASSUME NEW s \in Setting PROVE [pair |-> 3 - s.pair, reversed |-> FALSE] \in Setting
  <2>1. s.pair \in 1..2
    BY DEF Setting
  <2>2. 3 - s.pair \in 1..2
    BY <2>1
  <2> QED
    BY <2>2 DEF Setting
<1> QED
  BY <1>1, <1>2, <1>3, <1>4

\* A PHY that starts over keeps its setting and loses its link.
LEMMA RestartType ==
  ASSUME NEW p \in Phy
  PROVE  /\ Restart(p) \in Phy /\ ~Restart(p).linked
         /\ Reset(p) \in Phy /\ ~Reset(p).linked
<1>1. 0 \in 0..NegTicks
  BY PhyAssumption
<1>2. Restart(p) \in Phy /\ ~Restart(p).linked
  BY <1>1 DEF Restart, Phy
<1> QED
  BY <1>2, SettingType DEF Reset, Phy

\* A PHY has a link only if it has a clock.
LEMMA LaterType ==
  ASSUME NEW p \in Phy
  PROVE  Later(p) \in Phy /\ (~clock => ~Later(p).linked)
<1>1. CASE ~(clock /\ cable /\ p.MDIX \in audible)
  BY <1>1, RestartType DEF Later
<1>2. CASE clock /\ cable /\ p.MDIX \in audible /\ p.ticks < NegTicks
  <2>1. p.ticks + 1 \in 0..NegTicks
    BY <1>2, PhyAssumption DEF Phy
  <2> QED
    BY <1>2, <2>1 DEF Later, Phy
<1>3. CASE clock /\ cable /\ p.MDIX \in audible /\ ~(p.ticks < NegTicks)
  BY <1>3 DEF Later, Phy
<1> QED
  BY <1>1, <1>2, <1>3

\* uint8_t counters keep their type however they are counted on.
LEMMA ByteType ==
  \A n \in Nat : n % ByteRange \in 0..(ByteRange - 1)
<1>1. ByteRange \in Nat \ {0}
  BY PhyAssumption
<1> QED
  BY <1>1

LEMMA CountersType == NoCounts \in Counters /\ 0 \in 0..(ByteRange - 1)
BY PhyAssumption DEF NoCounts, Counters

\* Each counter may be set to nought, and counted on unless it is at its end.
LEMMA CountType ==
  /\ \A k \in Counters : [k EXCEPT !.suc = 0] \in Counters
  /\ \A k \in Counters : [k EXCEPT !.link = 0] \in Counters
  /\ \A k \in Counters : [k EXCEPT !.retry = 0] \in Counters
  /\ \A k \in Counters : [k EXCEPT !.pn = 0] \in Counters
  /\ \A k \in Counters : [k EXCEPT !.suc = (k.suc + 1) % ByteRange] \in Counters
  /\ \A k \in Counters : k.link # 10 => [k EXCEPT !.link = k.link + 1] \in Counters
  /\ \A k \in Counters : k.retry # 15 => [k EXCEPT !.retry = k.retry + 1] \in Counters
  /\ \A k \in Counters : k.pn # 10 => [k EXCEPT !.pn = k.pn + 1] \in Counters
<1>1. \A k \in Counters : [k EXCEPT !.suc = 0] \in Counters
  BY CountersType DEF Counters
<1>2. /\ \A k \in Counters : [k EXCEPT !.link = 0] \in Counters
      /\ \A k \in Counters : [k EXCEPT !.retry = 0] \in Counters
      /\ \A k \in Counters : [k EXCEPT !.pn = 0] \in Counters
  BY DEF Counters
<1>3. ASSUME NEW k \in Counters PROVE [k EXCEPT !.suc = (k.suc + 1) % ByteRange] \in Counters
  <2>1. k.suc + 1 \in Nat
    BY DEF Counters
  <2>2. (k.suc + 1) % ByteRange \in 0..(ByteRange - 1)
    BY <2>1, ByteType
  <2> QED
    BY <2>2 DEF Counters
<1>4. ASSUME NEW k \in Counters, k.link # 10 PROVE [k EXCEPT !.link = k.link + 1] \in Counters
  <2>1. k.link + 1 \in 0..10
    BY <1>4 DEF Counters
  <2> QED
    BY <2>1 DEF Counters
<1>5. ASSUME NEW k \in Counters, k.retry # 15 PROVE [k EXCEPT !.retry = k.retry + 1] \in Counters
  <2>1. k.retry + 1 \in 0..15
    BY <1>5 DEF Counters
  <2> QED
    BY <2>1 DEF Counters
<1>6. ASSUME NEW k \in Counters, k.pn # 10 PROVE [k EXCEPT !.pn = k.pn + 1] \in Counters
  <2>1. k.pn + 1 \in 0..10
    BY <1>6 DEF Counters
  <2> QED
    BY <2>1 DEF Counters
<1> QED
  BY <1>1, <1>2, <1>3, <1>4, <1>5, <1>6

LEMMA ResetTimeType == ResetTime \in Nat
BY PhyAssumption

-----------------------------------------------------------------------------
(* The invariant holds at first and is kept by every action.               *)

LEMMA InitInv == Init => IInv
<1> SUFFICES ASSUME Init PROVE IInv
  OBVIOUS
<1>1. 0 \in 0..ResetTime /\ 0 \in 0..NegTicks /\ 0 \in 0..(ByteRange - 1) /\ 0 \in 0..MaxFaults
  BY PhyAssumption
<1>2. cnt \in Counters
  BY CountersType DEF Init
<1>3. phy \in Phy
  BY <1>1, SettingType DEF Init, Phy
<1>4. TypeOK
  BY <1>1, <1>2, <1>3, SettingType DEF Init, TypeOK
<1> QED
  BY <1>1, <1>4 DEF Init, IInv, ClockInv

\* What a new setting does to the PHY: it has no link that it did not have.
LEMMA TryType ==
  ASSUME TypeOK, NEW s \in Setting
  PROVE  /\ Try(s) => phyPN' \in Setting /\ phy' \in Phy /\ phy'.linked = phy.linked /\ LINKIF' = LINKIF
         /\ TryAgain(s) => phyPN' \in Setting /\ phy' \in Phy /\ ~phy'.linked
                            /\ LINKIF' = (LINKIF \/ phy.linked)
<1>1. phy \in Phy /\ LINKIF \in BOOLEAN
  BY DEF TypeOK
<1>2. [phy EXCEPT !.MDIX = s] \in Phy /\ [phy EXCEPT !.MDIX = s].linked = phy.linked
  BY <1>1 DEF Phy
<1>3. Restart(phy) \in Phy /\ ~Restart(phy).linked
  BY <1>1, RestartType
<1>4. [Restart(phy) EXCEPT !.MDIX = s] \in Phy /\ ~[Restart(phy) EXCEPT !.MDIX = s].linked
  BY <1>3 DEF Phy
<1>5. ASSUME Try(s)
      PROVE  phyPN' \in Setting /\ phy' \in Phy /\ phy'.linked = phy.linked /\ LINKIF' = LINKIF
  BY <1>1, <1>2, <1>5 DEF Try, SetPhy
<1>6. ASSUME TryAgain(s)
      PROVE  phyPN' \in Setting /\ phy' \in Phy /\ ~phy'.linked /\ LINKIF' = (LINKIF \/ phy.linked)
  <2>1. phy'.linked = FALSE /\ phy.linked \in BOOLEAN
    BY <1>1, <1>4, <1>6 DEF TryAgain, SetPhy, Phy
  <2> QED
    BY <1>1, <1>4, <1>6, <2>1 DEF TryAgain, SetPhy
<1> QED
  BY <1>5, <1>6

\* A step of the search touches its own state and the PHY, and raises an interrupt
\* only by taking a link away.
CountKept == phyLinkStatus' \in {"INIT", "SUC_N", "WAIT_SUC"} /\ cnt' \in Counters
PhyKept ==
  /\ phyPN' \in Setting /\ phy' \in Phy /\ LINKIF' \in BOOLEAN
  /\ ~phy.linked => ~phy'.linked /\ (LINKIF' => LINKIF)

LEMMA SearchType ==
  ASSUME TypeOK, LinkProcess
  PROVE  CountKept /\ PhyKept
<1> USE DEF Wait
<1>1. /\ phy \in Phy /\ cnt \in Counters /\ phyPN \in Setting /\ LINKIF \in BOOLEAN
      /\ phyLinkStatus \in {"INIT", "SUC_N", "WAIT_SUC"}
  BY DEF TypeOK
<1>2. /\ SameSetting => PhyKept
      /\ \A s \in Setting : (Try(s) => PhyKept) /\ (TryAgain(s) => PhyKept)
  <2>1. ASSUME SameSetting PROVE PhyKept
    BY <1>1, <2>1 DEF SameSetting, PhyKept
  <2>2. ASSUME NEW s \in Setting, Try(s) PROVE PhyKept
    BY <1>1, <2>2, TryType DEF PhyKept
  <2>3. ASSUME NEW s \in Setting, TryAgain(s) PROVE PhyKept
    BY <1>1, <2>3, TryType DEF PhyKept
  <2> QED
    BY <2>1, <2>2, <2>3
<1>3. /\ Turned(phyPN) \in Setting /\ Normal(phyPN) \in Setting
      /\ [pair |-> 3 - phy.MDIX.pair, reversed |-> FALSE] \in Setting
  <2>1. phy.MDIX \in Setting
    BY <1>1 DEF Phy
  <2> QED
    BY <1>1, <2>1, SettingType
<1>4. CASE Heard
  <2>1. CountKept
    BY <1>1, <1>4, CountType DEF Heard, CountKept
  <2>2. PhyKept
    BY <1>2, <1>3, <1>4 DEF Heard
  <2> QED
    BY <2>1, <2>2
<1>5. CASE NoLinkYet
  <2>1. CountKept
    BY <1>1, <1>5, CountType DEF NoLinkYet, CountKept
  <2>2. PhyKept
    BY <1>2, <1>3, <1>5 DEF NoLinkYet
  <2> QED
    BY <2>1, <2>2
<1>6. CASE NegotiatedUnheard
  <2>1. CountKept
    BY <1>1, <1>6, CountType DEF NegotiatedUnheard, CountKept
  <2>2. PhyKept
    BY <1>2, <1>3, <1>6 DEF NegotiatedUnheard
  <2> QED
    BY <2>1, <2>2
<1>7. CASE LostAgain
  <2>1. CountKept
    BY <1>1, <1>7, CountType DEF LostAgain, CountKept
  <2>2. PhyKept
    BY <1>2, <1>3, <1>7 DEF LostAgain
  <2> QED
    BY <2>1, <2>2
<1>8. CASE Silence
  <2>1. CountKept
    BY <1>1, <1>8, CountType DEF Silence, CountKept
  <2>2. PhyKept
    BY <1>2, <1>3, <1>8 DEF Silence
  <2> QED
    BY <2>1, <2>2
<1>9. CASE OnlyReversed
  <2>1. CountKept
    BY <1>1, <1>9, CountType DEF OnlyReversed, CountKept
  <2>2. PhyKept
    BY <1>2, <1>3, <1>9 DEF OnlyReversed
  <2> QED
    BY <2>1, <2>2
<1> QED
  BY <1>4, <1>5, <1>6, <1>7, <1>8, <1>9 DEF LinkProcess

LEMMA HandlerInv == IInv /\ Handler => IInv'
<1> SUFFICES ASSUME IInv, Handler PROVE IInv'
  OBVIOUS
<1> USE DEF IInv, vars, mainVars, srchVars, envVars
<1>1. phy \in Phy /\ 0 \in 0..ResetTime /\ 0 \in 0..(ByteRange - 1) /\ NoCounts \in Counters
  BY CountersType, ResetTimeType DEF TypeOK
<1>2. Restart(phy) \in Phy /\ ~Restart(phy).linked /\ Reset(phy) \in Phy /\ ~Reset(phy).linked
  BY <1>1, RestartType
<1>3. CASE ETH_PHYLink
  <2>1. clock
    BY <1>3 DEF ETH_PHYLink, ClockInv
  <2>2. CASE LinkUpCfg
    <3>1. TypeOK'
      BY <1>1, <1>3, <2>2 DEF ETH_PHYLink, LinkUpCfg, TypeOK
    <3>2. ClockInv'
      BY <1>3, <2>1, <2>2 DEF ETH_PHYLink, LinkUpCfg, ClockInv
    <3> QED
      BY <3>1, <3>2
  <2>3. CASE NoPeer
    <3>1. TypeOK'
      BY <1>1, <1>2, <1>3, <2>3 DEF ETH_PHYLink, NoPeer, ParamInit, TypeOK
    <3>2. ClockInv'
      BY <1>3, <2>1, <2>3 DEF ETH_PHYLink, NoPeer, ClockInv
    <3> QED
      BY <3>1, <3>2
  <2>4. CASE LinkDownCfg
    <3>1. TypeOK'
      <4>1. phy' \in Phy
        BY <1>2, <2>4 DEF LinkDownCfg
      <4> QED
        BY <1>1, <1>3, <2>4, <4>1 DEF ETH_PHYLink, LinkDownCfg, TypeOK
    <3>2. ClockInv'
      BY <1>2, <1>3, <2>1, <2>4 DEF ETH_PHYLink, LinkDownCfg, ClockInv
    <3> QED
      BY <3>1, <3>2
  <2> QED
    BY <1>3, <2>2, <2>3, <2>4 DEF ETH_PHYLink
<1>4. CASE ClearLINKIF
  <2>1. TypeOK'
    <3>1. isr' \in {"none", "clear"} /\ LINKIF' \in BOOLEAN
      BY <1>4 DEF ClearLINKIF
    <3> QED
      BY <1>4, <3>1 DEF ClearLINKIF, isrVars, TypeOK
  <2>2. ClockInv'
    BY <1>4 DEF ClearLINKIF, isrVars, ClockInv
  <2> QED
    BY <2>1, <2>2
<1> QED
  BY <1>3, <1>4 DEF Handler

LEMMA MainInv == IInv /\ MainTask => IInv'
<1> SUFFICES ASSUME IInv, MainTask PROVE IInv'
  OBVIOUS
<1> USE DEF IInv, Main, mainVars, envVars
<1>1. phy \in Phy /\ 0 \in 0..ResetTime /\ 0 \in 0..(ByteRange - 1) /\ NoCounts \in Counters /\ ResetTime \in Nat
  BY CountersType, ResetTimeType DEF TypeOK
<1>2. CASE Begin
  <2>1. TypeOK'
    BY <1>2 DEF Begin, isrVars, srchVars, TypeOK
  <2>2. ClockInv'
    BY <1>2 DEF Begin, isrVars, srchVars, ClockInv
  <2> QED
    BY <2>1, <2>2
<1>3. CASE WaitReset
  <2>1. TypeOK'
    BY <1>3 DEF WaitReset, isrVars, srchVars, TypeOK
  \* The clock has been off for as long as the main loop has measured.
  <2>2. age >= ResetTime => off = ResetTime
    BY <1>1, <1>3 DEF WaitReset, TypeOK, ClockInv
  <2>3. ClockInv'
    BY <1>3, <2>2 DEF WaitReset, isrVars, srchVars, ClockInv
  <2> QED
    BY <2>1, <2>3
<1>4. CASE ResetPhy
  <2>1. Reset(phy) \in Phy
    BY <1>1, RestartType
  <2>2. TypeOK'
    BY <1>1, <1>4, <2>1 DEF ResetPhy, SetPhy, ParamInit, TypeOK
  <2>3. ClockInv'
    BY <1>4 DEF ResetPhy, ClockInv
  <2> QED
    BY <2>2, <2>3
<1>5. CASE Status
  <2>1. TypeOK'
    BY <1>5 DEF Status, isrVars, srchVars, TypeOK
  <2>2. ClockInv'
    BY <1>5 DEF Status, isrVars, srchVars, ClockInv
  <2> QED
    BY <2>1, <2>2
<1>6. CASE Task
  <2>1. [heard |-> phy.heard, complete |-> phy.complete] \in [heard: BOOLEAN, complete: BOOLEAN]
    BY <1>1 DEF Phy
  <2>2. TypeOK'
    BY <1>1, <1>6, <2>1 DEF Task, isrVars, srchVars, TypeOK
  <2>3. ClockInv'
    BY <1>1, <1>6 DEF Task, isrVars, srchVars, ClockInv, TypeOK
  <2> QED
    BY <2>2, <2>3
<1>7. CASE PhyPNProcess
  <2>1. phy' \in Phy /\ phy'.linked = phy.linked
    <3>1. Turned(phy.MDIX) \in Setting
      BY <1>1, SettingType DEF Phy
    <3>2. [phy EXCEPT !.MDIX = Turned(@)] \in Phy /\ [phy EXCEPT !.MDIX = Turned(@)].linked = phy.linked
      BY <1>1, <3>1 DEF Phy
    <3> QED
      BY <1>1, <1>7, <3>2 DEF PhyPNProcess
  <2>2. TypeOK'
    BY <1>1, <1>7, <2>1 DEF PhyPNProcess, srchVars, TypeOK
  <2>3. ClockInv'
    BY <1>1, <1>7, <2>1 DEF PhyPNProcess, srchVars, ClockInv, TypeOK
  <2> QED
    BY <2>2, <2>3
<1>8. CASE LinkProcess
  <2>1. TypeOK'
    BY <1>8, SearchType DEF CountKept, PhyKept, LinkProcess, isrVars, TypeOK
  <2>2. ClockInv'
    BY <1>8, SearchType DEF PhyKept, LinkProcess, isrVars, ClockInv
  <2> QED
    BY <2>1, <2>2
<1> QED
  BY <1>2, <1>3, <1>4, <1>5, <1>6, <1>7, <1>8 DEF MainTask

LEMMA WorldInv == IInv /\ (Tick \/ Plug \/ Environment) => IInv'
<1> SUFFICES ASSUME IInv, Tick \/ Plug \/ Environment PROVE IInv'
  OBVIOUS
<1> USE DEF IInv, mainVars, srchVars
<1>1. phy \in Phy /\ ResetTime \in Nat
  BY ResetTimeType DEF TypeOK
<1>2. Later(phy) \in Phy /\ (~clock => ~Later(phy).linked)
  BY <1>1, LaterType
<1>3. \A n \in Nat : RxErrors(n) => CRCErrPktCnt' \in 0..(ByteRange - 1)
  <2>1. \A n \in Nat : CRCErrPktCnt + n \in Nat
    BY DEF TypeOK
  <2> QED
    BY <2>1, ByteType DEF RxErrors, TypeOK
<1>4. Fault => faults' \in 0..MaxFaults
  BY PhyAssumption DEF Fault, TypeOK
<1>5. CASE Tick
  <2>1. phy' \in Phy /\ LINKIF' \in BOOLEAN /\ (~clock => ~phy'.linked /\ (LINKIF' => LINKIF))
    BY <1>1, <1>2, <1>5 DEF Tick, SetPhy, ClockInv, TypeOK, Phy
  <2>2. age' \in 0..ResetTime /\ off' \in 0..ResetTime /\ (~clock => age' <= off')
    BY <1>1, <1>5 DEF Tick, ClockInv, TypeOK
  <2>3. CRCErrPktCnt' \in 0..(ByteRange - 1)
    BY <1>3, <1>5, PhyAssumption DEF Tick, TypeOK
  <2>4. TypeOK'
    BY <1>5, <2>1, <2>2, <2>3 DEF Tick, envVars, TypeOK
  <2>5. ClockInv'
    BY <1>5, <2>1, <2>2 DEF Tick, ClockInv
  <2> QED
    BY <2>4, <2>5
<1>6. CASE Plug
  <2>1. TypeOK'
    BY <1>6 DEF Plug, isrVars, TypeOK
  <2>2. ClockInv'
    BY <1>6 DEF Plug, isrVars, ClockInv
  <2> QED
    BY <2>1, <2>2
<1>7. CASE Negotiated
  <2>1. phy' \in Phy /\ LINKIF' \in BOOLEAN /\ (~clock => ~phy'.linked /\ (LINKIF' => LINKIF))
    BY <1>1, <1>2, <1>7 DEF Negotiated, SetPhy, ClockInv, TypeOK, Phy
  <2>2. TypeOK'
    BY <1>7, <2>1 DEF Negotiated, isrVars, envVars, TypeOK
  <2>3. ClockInv'
    BY <1>7, <2>1 DEF Negotiated, isrVars, ClockInv
  <2> QED
    BY <2>2, <2>3
<1>8. CASE RxGood
  <2>1. TypeOK'
    BY <1>8 DEF RxGood, envVars, TypeOK
  <2>2. ClockInv'
    BY <1>8 DEF RxGood, ClockInv
  <2> QED
    BY <2>1, <2>2
<1>9. CASE RxNoise
  <2>1. TypeOK'
    <3>1. CRCErrPktCnt' \in 0..(ByteRange - 1) /\ faults' \in 0..MaxFaults
      BY <1>3, <1>4, <1>9 DEF RxNoise
    <3> QED
      BY <1>9, <3>1 DEF RxNoise, TypeOK
  <2>2. ClockInv'
    BY <1>9 DEF RxNoise, ClockInv
  <2> QED
    BY <2>1, <2>2
<1>10. CASE Pull
  <2>1. Restart(phy) \in Phy /\ ~Restart(phy).linked
    BY <1>1, RestartType
  <2>2. phy' \in Phy /\ LINKIF' \in BOOLEAN /\ (~clock => ~phy'.linked /\ (LINKIF' => LINKIF))
    BY <1>1, <1>10, <2>1 DEF Pull, SetPhy, ClockInv, TypeOK, Phy
  <2>3. TypeOK'
    <3>1. cable' \in BOOLEAN /\ faults' \in 0..MaxFaults
      BY <1>4, <1>10 DEF Pull
    <3> QED
      BY <1>10, <2>2, <3>1 DEF Pull, isrVars, TypeOK
  <2>4. ClockInv'
    BY <1>10, <2>2 DEF Pull, isrVars, ClockInv
  <2> QED
    BY <2>3, <2>4
<1>11. CASE Glitch
  <2>1. phy' \in Phy /\ LINKIF' \in BOOLEAN
    BY <1>1, <1>11 DEF Glitch, SetPhy, TypeOK, Phy
  <2>2. TypeOK'
    BY <1>4, <1>11, <2>1 DEF Glitch, isrVars, TypeOK
  <2>3. ClockInv'
    BY <1>11 DEF Glitch, isrVars, ClockInv
  <2> QED
    BY <2>2, <2>3
<1> QED
  BY <1>5, <1>6, <1>7, <1>8, <1>9, <1>10, <1>11 DEF Environment

\* What the model does is never outside its types, and the clock, the flag and the
\* main loop agree.
THEOREM Invariant == Spec => []IInv
<1>1. IInv /\ UNCHANGED vars => IInv'
  BY DEF IInv, TypeOK, ClockInv, vars, mainVars, isrVars, srchVars, envVars
<1>2. IInv /\ [Next]_vars => IInv'
  BY <1>1, HandlerInv, MainInv, WorldInv DEF Next
<1> QED
  BY InitInv, <1>2, PTL DEF Spec

\* The counters of the search stay within the values that the code compares them
\* with, and the others within a byte.
THEOREM TypeCorrect == Spec => []TypeOK
BY Invariant, PTL DEF IInv

\* eth_driver.c:308: the PHY's clock has been off for 500 ms when it is turned on,
\* whichever of the main loop's steps the link interrupt falls between.
THEOREM TheClockRests == Spec => ClockRests
<1>1. IInv /\ [Next]_vars => [clock' /\ ~clock => off = ResetTime]_vars
  <2> SUFFICES ASSUME IInv, Next, clock', ~clock PROVE off = ResetTime
    BY DEF vars
  <2>1. CASE Handler
    BY <2>1 DEF Handler, ETH_PHYLink, LinkUpCfg, NoPeer, LinkDownCfg, ClearLINKIF
  <2>2. CASE MainTask
    <3>1. CASE ResetPhy
      BY <3>1 DEF ResetPhy, Main, IInv, ClockInv
    <3> QED
      BY <2>2, <3>1 DEF MainTask, Begin, WaitReset, Status, Task, PhyPNProcess, LinkProcess
  <2>3. CASE Tick \/ Plug \/ Environment
    BY <2>3 DEF Tick, Plug, Environment, Negotiated, RxGood, RxNoise, Pull, Glitch
  <2> QED
    BY <2>1, <2>2, <2>3 DEF Next
<1> QED
  BY Invariant, <1>1, PTL DEF Spec, ClockRests
=============================================================================
