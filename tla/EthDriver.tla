----------------------------- MODULE EthDriver ------------------------------
(***************************************************************************)
(* Both directions of src/eth_driver.c: the ring of receive descriptors of *)
(* module RxRing, the one transmit descriptor (ETH_TXBUFNB is 1), and the  *)
(* interrupt handler they share.                                           *)
(*                                                                         *)
(* The library sends a frame with ETH_TxPktChainMode.  The descriptor's    *)
(* OWN bit says that a frame is on its way; the handler clears it when the *)
(* MAC is done (TXIF, TXERIF).  A caller that finds it set looks at the    *)
(* MAC's own bit TXRTS and is refused if that is set too.                  *)
(*                                                                         *)
(* One entry of the handler may leave the interrupts of the transmitter    *)
(* for the next one: a received frame with an error makes it return.  The  *)
(* next entry follows at once, since their flags are still up, so the      *)
(* caller of ETH_TxPktChainMode never runs between the MAC's raising a     *)
(* transmit flag and the handler's clearing it.                            *)
(***************************************************************************)
EXTENDS RxRing

VARIABLES
  txOwn,   \* the OWN bit of DMATxDescToSet: TRUE is the MAC's
  TXRTS,   \* ECON1: the MAC is sending
  txFlags, \* which of TXIF and TXERIF are up
  txpc     \* the library in ETH_TxPktChainMode

txVars     == <<txOwn, TXRTS, txFlags, txpc>>
driverVars == <<vars, txVars>>

DriverTypeOK ==
  /\ TypeOK
  /\ txOwn \in BOOLEAN /\ TXRTS \in BOOLEAN
  /\ txFlags \in SUBSET {"TXIF", "TXERIF"}
  /\ txpc \in {"idle", "busy", "free", "owned"}

\* ETH_DMATxDescChainInit.
DriverInit ==
  /\ Init
  /\ txOwn = FALSE /\ TXRTS = FALSE /\ txFlags = {} /\ txpc = "idle"

-----------------------------------------------------------------------------
(* ETH_TxPktChainMode.  The handler may run between its steps.             *)

\* Is the descriptor's OWN bit set?
TxCall ==
  /\ txpc = "idle"
  /\ txpc' = IF txOwn THEN "busy" ELSE "free"
  /\ UNCHANGED <<txOwn, TXRTS>>

\* Wrong: a descriptor that is the MAC's is taken back without a look at the MAC.
TxBusy_TakesBack ==
  /\ txpc = "busy"
  /\ txOwn' = FALSE /\ txpc' = "free"
  /\ UNCHANGED TXRTS

\* It was: the MAC may be done all the same.  If not, return ETH_ERROR.
TxBusy ==
  /\ txpc = "busy"
  /\ IF ~TXRTS THEN txOwn' = FALSE /\ txpc' = "free"
               ELSE txpc' = "idle" /\ UNCHANGED txOwn
  /\ UNCHANGED TXRTS

TxOwn ==
  /\ txpc = "free" /\ txpc' = "owned"
  /\ txOwn' = TRUE
  /\ UNCHANGED TXRTS

\* ETXLN, ETXST and TXRTS.  The next descriptor is this one.
TxSend ==
  /\ txpc = "owned" /\ txpc' = "idle"
  /\ TXRTS' = TRUE
  /\ UNCHANGED txOwn

ETH_TxPktChainMode ==
  /\ txFlags = {}
  /\ TxCall \/ TxBusy \/ TxOwn \/ TxSend
  /\ UNCHANGED <<vars, txFlags>>

-----------------------------------------------------------------------------
(* The MAC and the handler.                                                *)

\* The end of a transmission, good or bad.
TxEnd ==
  /\ TXRTS /\ TXRTS' = FALSE
  /\ txFlags' \in {{"TXIF"}, {"TXERIF"}, {"TXIF", "TXERIF"}}
  /\ UNCHANGED <<vars, txOwn, txpc>>

\* The receive part of the handler returns: the frame had an error.
Returns == RXIF /\ own[DMARxDescToGet] /\ error

\* Wrong: the handler knows of good transmissions only.
TxInterrupts_LeavesError ==
  IF Returns \/ "TXIF" \notin txFlags THEN UNCHANGED <<txOwn, txFlags>>
  ELSE txOwn' = FALSE /\ txFlags' = txFlags \ {"TXIF"}

\* Wrong: the descriptor is taken back in every run of the handler.
TxInterrupts_Always ==
  txOwn' = FALSE /\ txFlags' = IF Returns THEN txFlags ELSE {}

TxInterrupts ==
  IF Returns \/ txFlags = {} THEN UNCHANGED <<txOwn, txFlags>>
  ELSE txOwn' = FALSE /\ txFlags' = {}

\* An entry of WCHNET_ETHIsr with its flags as it finds them.
Interrupt ==
  /\ WCHNET_ETHIsr \/ (~RXIF /\ txFlags # {} /\ UNCHANGED vars)
  /\ TxInterrupts
  /\ UNCHANGED <<TXRTS, txpc>>

\* As in RxRing the handler is done before the next frame begins: with all the
\* flags, which takes it two entries if the frame before had an error.
Receive ==
  /\ (ArriveStart /\ txFlags = {}) \/ ArriveEnd \/ ETH_Start \/ Library
  /\ UNCHANGED txVars

DriverNext == Receive \/ Interrupt \/ TxEnd \/ ETH_TxPktChainMode

\* The library calls both parts again and again; the handler runs when a flag is
\* up; the MAC sends what it is given.
DriverSpec ==
  /\ DriverInit /\ [][DriverNext]_driverVars
  /\ WF_driverVars(Library /\ UNCHANGED txVars)
  /\ WF_driverVars(Interrupt) /\ WF_driverVars(TxEnd) /\ WF_driverVars(ETH_TxPktChainMode)

-----------------------------------------------------------------------------
(* Properties.                                                             *)

\* ETH_TxPktChainMode never changes the address and the length of a frame that
\* the MAC is sending, whatever the handler did since it looked.
OneFrameAtATime == [][TxSend => ~TXRTS]_driverVars

\* While the MAC sends, or the handler has not yet seen that it is done, the
\* descriptor is the MAC's.
OwnedWhileSending == TXRTS \/ txFlags # {} => txOwn

\* A caller that finds the descriptor taken gets it for its own frame in the end,
\* in the same call or, refused and coming again, in a later one: also if every
\* transmission ends together with a bad frame's arrival.
Accepted == txpc = "busy" ~> txpc = "owned"
=============================================================================
