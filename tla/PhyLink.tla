------------------------------ MODULE PhyLink ------------------------------
(***************************************************************************)
(* The search for an Ethernet link in src/eth_driver.c.                    *)
(*                                                                         *)
(* The PHY can be set to one pair of wires or the other and to a normal or *)
(* reversed polarity (register MDIX, variable phyPN).  Every 50 ms without *)
(* a link, WCHNET_LinkProcess looks at what the PHY hears and decides      *)
(* whether to wait for the negotiation or to try another setting.  A link  *)
(* that comes or goes is an interrupt.  A link lost costs 500 ms with the  *)
(* PHY's clock off and a reset.  A link whose first frames are bad is      *)
(* tried with the other polarity.                                          *)
(*                                                                         *)
(* The handler runs between any two steps of the main loop and is done     *)
(* before the next one.  The main loop's steps are its reads of what the   *)
(* handler writes, and the rest of WCHNET_LinkProcess.                     *)
(*                                                                         *)
(* The PHY is external: within 50 ms it hears a peer to which its setting  *)
(* is right, and it has a link NegTicks later.  A unit of time is 50 ms.   *)
(***************************************************************************)
EXTENDS Naturals

CONSTANTS
  ResetTime,  \* the time without clock (500 ms)
  NegTicks,   \* the time a negotiation takes
  LateChange, \* may a link be lost while the handler finishes with its coming?
  MaxErrors,  \* bad frames in a unit of time
  ByteRange,  \* uint8_t (256)
  MaxFaults   \* bound on pulled cables, glitches and frames spoiled by noise

\* A link comes before WCHNET_LinkProcess gives it up, and the bad frames of two
\* units of time do not fill CRCErrPktCnt.
ASSUME PhyAssumption ==
  /\ ResetTime \in Nat /\ NegTicks \in 1..6 /\ LateChange \in BOOLEAN /\ MaxFaults \in Nat
  /\ MaxErrors \in Nat \ {0} /\ ByteRange \in Nat /\ ByteRange > 15 + MaxErrors

VARIABLES
  pc,                 \* the main loop in WCHNET_HandlePhyNegotiation
  seen,               \* what WCHNET_LinkProcess has read: [heard, complete]
  phyLinkReset, phyStatus, phyLinkStatus, phyPN, PhyPolarityDetect, CRCErrPktCnt,
  cnt,                \* phySucCnt, phyLinkCnt, phyRetryCnt, phyPNChangeCnt
  age,                \* LocalTime - phyLinkTime, up to ResetTime
  phy,                \* the PHY's registers and the time it has heard the peer
  clock,              \* EXTEN_ETH_10M_EN
  LINKIF, isr,        \* the interrupt's flag; is the handler about to clear it?
  good, audible,      \* the setting that is right; those that hear the peer
  cable,              \* is it plugged in?
  ran,                \* has the main loop come round in this unit of time?
  off,                \* the time the clock has been off, up to ResetTime
  faults

srchVars == <<phyLinkStatus, phyPN, cnt>>
mainVars == <<pc, seen, ran>>
isrVars  == <<phyLinkReset, phyStatus, PhyPolarityDetect, CRCErrPktCnt>>
envVars  == <<good, audible, cable, faults>>
vars == <<mainVars, isrVars, srchVars, age, phy, clock, LINKIF, isr, envVars, off>>

\* Bits 0 and 1 of phyPN, which are 1 or 2, and bit 2.
Setting == [pair: 1..2, reversed: BOOLEAN]
Default == [pair |-> 1, reversed |-> FALSE]
Turned(s) == [s EXCEPT !.reversed = ~@]
Normal(s) == [s EXCEPT !.reversed = FALSE]

\* heard: PHY_ANLPAR holds something; complete, linked: bits of PHY_BMSR.
Phy == [MDIX: Setting, heard: BOOLEAN, complete: BOOLEAN, linked: BOOLEAN,
        ticks: 0..NegTicks]
Counters == [suc: 0..(ByteRange - 1), link: 0..10, retry: 0..15, pn: 0..10]

TypeOK ==
  /\ pc \in {"idle", "reset", "waited", "status", "task", "search", "polarity"}
  /\ seen \in [heard: BOOLEAN, complete: BOOLEAN] /\ ran \in BOOLEAN
  /\ phyLinkReset \in BOOLEAN /\ phyStatus \in BOOLEAN /\ PhyPolarityDetect \in BOOLEAN
  /\ CRCErrPktCnt \in 0..(ByteRange - 1)
  /\ phyLinkStatus \in {"INIT", "SUC_N", "WAIT_SUC"} /\ phyPN \in Setting
  /\ cnt \in Counters /\ age \in 0..ResetTime /\ off \in 0..ResetTime
  /\ phy \in Phy /\ clock \in BOOLEAN /\ LINKIF \in BOOLEAN /\ isr \in {"none", "clear"}
  /\ good \in Setting /\ audible \subseteq Setting /\ cable \in BOOLEAN /\ faults \in 0..MaxFaults

NoCounts == [suc |-> 0, link |-> 0, retry |-> 0, pn |-> 0]

\* ETH_Configuration has reset the PHY.
Init ==
  /\ pc = "idle" /\ seen = [heard |-> FALSE, complete |-> FALSE] /\ ran = FALSE
  /\ phyLinkReset = FALSE /\ phyStatus = FALSE /\ PhyPolarityDetect = FALSE
  /\ CRCErrPktCnt = 0 /\ phyLinkStatus = "INIT" /\ phyPN = Default /\ cnt = NoCounts
  /\ age = 0 /\ off = 0 /\ clock = TRUE /\ LINKIF = FALSE /\ isr = "none"
  /\ phy = [MDIX |-> Default, heard |-> FALSE, complete |-> FALSE, linked |-> FALSE, ticks |-> 0]
  /\ good \in Setting /\ audible \in {{good}, {good, Turned(good)}}
  /\ cable = TRUE /\ faults = 0

Fault == faults < MaxFaults /\ faults' = faults + 1

-----------------------------------------------------------------------------
(* The PHY.                                                                *)

\* Auto-negotiation starts over (bit 9 of PHY_BMCR).
Restart(p) == [p EXCEPT !.heard = FALSE, !.complete = FALSE, !.linked = FALSE, !.ticks = 0]

\* Bit 15 of PHY_BMCR.
Reset(p) == [Restart(p) EXCEPT !.MDIX = Default]

\* A link that comes or goes raises the interrupt.
SetPhy(p) == phy' = p /\ LINKIF' = (LINKIF \/ p.linked # phy.linked)

\* What the PHY knows a unit of time later.
Later(p) ==
  IF ~(clock /\ cable /\ p.MDIX \in audible) THEN Restart(p)
  ELSE IF p.ticks < NegTicks THEN [p EXCEPT !.heard = TRUE, !.ticks = @ + 1]
  ELSE [p EXCEPT !.heard = TRUE, !.complete = TRUE, !.linked = TRUE]

\* RXERIF: bad frames count while the polarity is in doubt.
RxErrors(n) ==
  CRCErrPktCnt' = IF PhyPolarityDetect THEN (CRCErrPktCnt + n) % ByteRange ELSE CRCErrPktCnt

\* The negotiation is over, at any moment.
Negotiated ==
  /\ phy.ticks = NegTicks /\ ~phy.linked
  /\ SetPhy(Later(phy))
  /\ UNCHANGED <<mainVars, isrVars, srchVars, age, clock, isr, envVars, off>>

\* A unit of time has passed, in which the main loop has come round.  All frames
\* received with the wrong polarity are bad, and there are some.
Tick ==
  /\ pc = "idle" /\ ran /\ ran' = FALSE /\ isr = "none" /\ ~LINKIF
  /\ SetPhy(Later(phy))
  /\ age' = IF age < ResetTime THEN age + 1 ELSE age
  /\ off' = IF clock THEN 0 ELSE IF off < ResetTime THEN off + 1 ELSE off
  /\ IF phyStatus /\ phy.linked /\ phy.MDIX # good
       THEN \E n \in 1..MaxErrors : RxErrors(n)
       ELSE UNCHANGED CRCErrPktCnt
  /\ UNCHANGED <<pc, seen, phyLinkReset, phyStatus, PhyPolarityDetect, srchVars,
                 clock, isr, envVars>>

\* RXIF: a good frame ends the doubt.
RxGood ==
  /\ isr = "none" /\ phyStatus /\ phy.linked /\ phy.MDIX = good
  /\ PhyPolarityDetect /\ PhyPolarityDetect' = FALSE
  /\ UNCHANGED <<mainVars, phyLinkReset, phyStatus, CRCErrPktCnt, srchVars, age, phy,
                 clock, LINKIF, isr, envVars, off>>

\* Noise spoils a frame, whatever the polarity.
RxNoise ==
  /\ isr = "none" /\ phyStatus /\ phy.linked /\ PhyPolarityDetect /\ Fault
  /\ RxErrors(1)
  /\ UNCHANGED <<mainVars, phyLinkReset, phyStatus, PhyPolarityDetect, srchVars, age, phy,
                 clock, LINKIF, isr, good, audible, cable, off>>

\* The cable is pulled, at any time, and is plugged in again.
Pull ==
  /\ cable /\ cable' = FALSE /\ (isr = "none" \/ LateChange) /\ Fault
  /\ SetPhy(Restart(phy))
  /\ UNCHANGED <<mainVars, isrVars, srchVars, age, clock, isr, good, audible, off>>

Plug ==
  /\ ~cable /\ cable' = TRUE
  /\ UNCHANGED <<mainVars, isrVars, srchVars, age, phy, clock, LINKIF, isr, good, audible, faults, off>>

\* For a moment the PHY takes something for a peer.
Glitch ==
  /\ clock /\ (isr = "none" \/ LateChange) /\ Fault
  /\ \E h, c, l \in BOOLEAN : SetPhy([phy EXCEPT !.heard = h, !.complete = c, !.linked = l])
  /\ UNCHANGED <<mainVars, isrVars, srchVars, age, clock, isr, good, audible, cable, off>>

-----------------------------------------------------------------------------
(* The link interrupt: ETH_PHYLink, then the flag is cleared.              *)

\* PHY_NEGOTIATION_PARAM_INIT
ParamInit == phyStatus' = FALSE /\ phyLinkStatus' = "INIT" /\ cnt' = NoCounts

LinkUpCfg ==
  /\ phy.linked /\ phy.complete
  /\ CRCErrPktCnt' = 0 /\ PhyPolarityDetect' = TRUE /\ age' = 0 /\ phyStatus' = TRUE
  /\ UNCHANGED <<phyLinkReset, srchVars, phy, clock, off>>

\* A link without a negotiation, and nobody there to negotiate with.
NoPeer ==
  /\ phy.linked /\ ~phy.complete /\ ~phy.heard
  /\ phy' = Reset(phy)
  /\ ParamInit
  /\ UNCHANGED <<phyLinkReset, PhyPolarityDetect, CRCErrPktCnt, phyPN, age, clock, off>>

\* Wrong: the time is not set.
LinkDownCfg_NoTime ==
  /\ ~phy.linked \/ (~phy.complete /\ phy.heard)
  /\ clock' = FALSE /\ phy' = Restart(phy)
  /\ phyLinkReset' = TRUE /\ off' = 0
  /\ UNCHANGED <<phyStatus, PhyPolarityDetect, CRCErrPktCnt, srchVars, age>>

LinkDownCfg ==
  /\ ~phy.linked \/ (~phy.complete /\ phy.heard)
  /\ clock' = FALSE /\ phy' = Restart(phy)
  /\ phyLinkReset' = TRUE /\ age' = 0 /\ off' = 0
  /\ UNCHANGED <<phyStatus, PhyPolarityDetect, CRCErrPktCnt, srchVars>>

ETH_PHYLink ==
  /\ isr = "none" /\ LINKIF /\ isr' = "clear"
  /\ LinkUpCfg \/ NoPeer \/ LinkDownCfg
  /\ UNCHANGED <<mainVars, LINKIF, envVars>>

\* A change since ETH_PHYLink read the PHY's registers is forgotten with it.
ClearLINKIF ==
  /\ isr = "clear" /\ isr' = "none" /\ LINKIF' = FALSE
  /\ UNCHANGED <<mainVars, isrVars, srchVars, age, phy, clock, envVars, off>>

-----------------------------------------------------------------------------
(* The main loop: WCHNET_HandlePhyNegotiation.                             *)

Main(from, to) == isr = "none" /\ ~LINKIF /\ pc = from /\ pc' = to

Begin ==
  /\ Main("idle", IF phyLinkReset THEN "reset" ELSE "status")
  /\ ran' = TRUE
  /\ UNCHANGED <<seen, isrVars, srchVars, age, phy, clock, LINKIF, isr, envVars, off>>

WaitReset ==
  /\ Main("reset", IF age >= ResetTime THEN "waited" ELSE "idle")
  /\ UNCHANGED <<seen, ran, isrVars, srchVars, age, phy, clock, LINKIF, isr, envVars, off>>

ResetPhy ==
  /\ Main("waited", "idle")
  /\ phyLinkReset' = FALSE /\ clock' = TRUE
  /\ SetPhy(Reset(phy))
  /\ ParamInit
  /\ UNCHANGED <<seen, ran, PhyPolarityDetect, CRCErrPktCnt, phyPN, age, isr, envVars, off>>

Status ==
  /\ Main("status", IF ~phyStatus THEN "task"
                    ELSE IF PhyPolarityDetect /\ age >= 2 THEN "polarity" ELSE "idle")
  /\ UNCHANGED <<seen, ran, isrVars, srchVars, age, phy, clock, LINKIF, isr, envVars, off>>

\* Not yet time, or WCHNET_LinkProcess up to its reads of the registers.
Task ==
  /\ Main("task", IF age >= 1 THEN "search" ELSE "idle")
  /\ IF age >= 1
       THEN age' = 0 /\ seen' = [heard |-> phy.heard, complete |-> phy.complete]
       ELSE UNCHANGED <<age, seen>>
  /\ UNCHANGED <<ran, isrVars, srchVars, phy, clock, LINKIF, isr, envVars, off>>

\* WCHNET_PhyPNProcess.  phyPN is not told.
PhyPNProcess ==
  /\ Main("polarity", "idle")
  /\ age' = 0
  /\ IF CRCErrPktCnt >= 3
       THEN phy' = [phy EXCEPT !.MDIX = Turned(@)] /\ CRCErrPktCnt' = 0
       ELSE UNCHANGED <<phy, CRCErrPktCnt>>
  /\ UNCHANGED <<seen, ran, phyLinkReset, phyStatus, PhyPolarityDetect, srchVars,
                 clock, LINKIF, isr, envVars, off>>

-----------------------------------------------------------------------------
(* WCHNET_LinkProcess, by what it has read and the state of the search.    *)

\* A new setting, with or without a new negotiation.
Try(s)      == phyPN' = s /\ SetPhy([phy EXCEPT !.MDIX = s])
TryAgain(s) == phyPN' = s /\ SetPhy([Restart(phy) EXCEPT !.MDIX = s])
SameSetting == UNCHANGED <<phyPN, phy, LINKIF>>

Wait == phyLinkStatus' = "WAIT_SUC" /\ cnt' = [cnt EXCEPT !.suc = 0, !.link = 0]

\* The peer is heard.  With a reversed polarity the normal one is tried first.
Heard ==
  /\ seen.heard /\ phyLinkStatus # "WAIT_SUC"
  /\ IF phyPN.reversed /\ phyLinkStatus = "INIT"
       THEN /\ phyLinkStatus' = "SUC_N" /\ cnt' = [cnt EXCEPT !.retry = 0]
            /\ TryAgain(Normal(phyPN))
       ELSE Wait /\ SameSetting

\* Wrong: the peer is given up one turn too early.
NoLinkYet_Early ==
  /\ seen.heard /\ phyLinkStatus = "WAIT_SUC"
  /\ IF cnt.suc = 4 /\ ~seen.complete
       THEN /\ phyLinkStatus' = "INIT" /\ cnt' = [cnt EXCEPT !.suc = 0, !.retry = 0, !.pn = 0]
            /\ TryAgain(Turned(phyPN))
       ELSE /\ cnt' = [cnt EXCEPT !.suc = (@ + 1) % ByteRange]
            /\ SameSetting /\ UNCHANGED phyLinkStatus

\* It is heard and there should be a link by now.
NoLinkYet ==
  /\ seen.heard /\ phyLinkStatus = "WAIT_SUC"
  /\ IF cnt.suc = 5 /\ ~seen.complete
       THEN /\ phyLinkStatus' = "INIT" /\ cnt' = [cnt EXCEPT !.suc = 0, !.retry = 0, !.pn = 0]
            /\ TryAgain(Turned(phyPN))
       ELSE /\ cnt' = [cnt EXCEPT !.suc = (@ + 1) % ByteRange]
            /\ SameSetting /\ UNCHANGED phyLinkStatus

NegotiatedUnheard ==
  /\ ~seen.heard /\ seen.complete
  /\ Wait /\ SameSetting

\* It was heard and is no more.
LostAgain ==
  /\ ~seen.heard /\ ~seen.complete /\ phyLinkStatus = "WAIT_SUC"
  /\ IF cnt.link = 10
       THEN phyLinkStatus' = "INIT" /\ cnt' = [cnt EXCEPT !.link = 0, !.retry = 0, !.pn = 0]
       ELSE cnt' = [cnt EXCEPT !.link = @ + 1] /\ UNCHANGED phyLinkStatus
  /\ SameSetting

\* Wrong: the count of tries is not set back.
Silence_Counts ==
  /\ ~seen.heard /\ ~seen.complete /\ phyLinkStatus = "INIT"
  /\ IF cnt.pn = 10
       THEN Try([pair |-> 3 - phy.MDIX.pair, reversed |-> FALSE])
       ELSE Try(Turned(phyPN))
  /\ cnt' = [cnt EXCEPT !.pn = @ + 1]
  /\ UNCHANGED phyLinkStatus

\* Nobody is heard: the other polarity, and after ten tries the other pair.
Silence ==
  /\ ~seen.heard /\ ~seen.complete /\ phyLinkStatus = "INIT"
  /\ IF cnt.pn = 10
       THEN /\ cnt' = [cnt EXCEPT !.pn = 0]
            /\ Try([pair |-> 3 - phy.MDIX.pair, reversed |-> FALSE])
       ELSE /\ cnt' = [cnt EXCEPT !.pn = @ + 1]
            /\ Try(Turned(phyPN))
  /\ UNCHANGED phyLinkStatus

\* The normal polarity was the wrong one: back, and wait.
OnlyReversed ==
  /\ ~seen.heard /\ ~seen.complete /\ phyLinkStatus = "SUC_N"
  /\ IF ~phyPN.reversed
       THEN TryAgain(Turned(phyPN)) /\ UNCHANGED <<phyLinkStatus, cnt>>
       ELSE /\ SameSetting
            /\ IF cnt.retry = 15
                 THEN phyLinkStatus' = "INIT" /\ cnt' = [cnt EXCEPT !.retry = 0, !.pn = 0]
                 ELSE cnt' = [cnt EXCEPT !.retry = @ + 1] /\ UNCHANGED phyLinkStatus

LinkProcess ==
  /\ Main("search", "idle")
  /\ Heard \/ NoLinkYet \/ NegotiatedUnheard \/ LostAgain \/ Silence \/ OnlyReversed
  /\ UNCHANGED <<seen, ran, isrVars, age, clock, isr, envVars, off>>

-----------------------------------------------------------------------------
Handler     == ETH_PHYLink \/ ClearLINKIF
MainTask    == Begin \/ WaitReset \/ ResetPhy \/ Status \/ Task \/ PhyPNProcess \/ LinkProcess
Environment == Negotiated \/ RxGood \/ RxNoise \/ Pull \/ Glitch

Next == Handler \/ MainTask \/ Tick \/ Plug \/ Environment

\* The processor runs, time passes, and a cable pulled is plugged in again.
Fairness == WF_vars(Handler) /\ WF_vars(MainTask) /\ SF_vars(Tick) /\ WF_vars(Plug)

Spec == Init /\ [][Next]_vars /\ Fairness

-----------------------------------------------------------------------------
(* Properties.                                                             *)

\* "After the PHY link is disconnected, wait 500ms before turning on the PHY
\* clock": however the interrupt and the main loop fall together.
ClockRests == [][clock' /\ ~clock => off = ResetTime]_vars

\* Whichever setting the peer needs, and after a fault (a loss or a glitch) at any
\* point, the search finds it in the end, with the polarity that is right.  After
\* two faults it may not (see the README).
Found == phyStatus /\ phy.linked /\ phy.MDIX = good
LinkFound == <>[]Found
=============================================================================
