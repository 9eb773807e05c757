------------------------------- MODULE RxRing -------------------------------
(***************************************************************************)
(* The ring of receive descriptors of src/eth_driver.c, between the MAC,   *)
(* the interrupt handler and the TCP/IP library.                           *)
(*                                                                         *)
(* The MAC writes a frame to the one address in ERXST while it arrives and *)
(* raises RXIF at its end.  The handler then hands the descriptor over by  *)
(* clearing its OWN bit and gives the MAC the next one; if the library     *)
(* still has that one, the frame is given up, to be written over.  The     *)
(* library (WCHNET_NetInput, no source here) follows with pDMARxSet: it    *)
(* reads the frame of a descriptor whose OWN bit is clear and sets the bit *)
(* again.  The handler may run between any two steps of the library.       *)
(*                                                                         *)
(* The driver has no other way to keep the MAC from the buffer of a frame  *)
(* that waits for the handler: the handler must be done before the next    *)
(* frame begins (67 us for the shortest at 10 Mbit/s).  ArriveStart says   *)
(* so in its guard.                                                        *)
(***************************************************************************)
EXTENDS Naturals, Sequences

CONSTANTS
  ETH_RXBUFNB,  \* the descriptors (4)
  MaxFrame      \* bound on the frames that arrive

\* With a single descriptor the next one is the same one.
ASSUME RingAssumption == ETH_RXBUFNB \in Nat /\ ETH_RXBUFNB >= 2 /\ MaxFrame \in Nat

VARIABLES
  own,             \* the OWN bits: TRUE is the MAC's
  buf,             \* the frame in each buffer
  DMARxDescToGet,  \* the handler's descriptor
  ERXST,           \* the MAC's buffer, none before the first ETH_Start
  writing,         \* the buffer that a frame is being written to
  RXIF,            \* the interrupt flag
  error,           \* ESTAT: was the last frame a bad one?
  frame,           \* frames ended so far: the number of the last one
  pDMARxSet,       \* the library's descriptor
  reading,         \* is the library in the middle of its frame?
  taken            \* the last frame the library has read

hwVars  == <<ERXST, writing, RXIF, error, frame>>
libVars == <<pDMARxSet, reading, taken>>
vars    == <<own, buf, DMARxDescToGet, hwVars, libVars>>

Desc == 0..(ETH_RXBUFNB - 1)
None == ETH_RXBUFNB + 1  \* no buffer
Torn == 0            \* a buffer without a whole good frame; frames count from 1

TypeOK ==
  /\ own \in [Desc -> BOOLEAN] /\ buf \in [Desc -> 0..MaxFrame]
  /\ DMARxDescToGet \in Desc
  /\ ERXST \in Desc \cup {None} /\ writing \in Desc \cup {None}
  /\ RXIF \in BOOLEAN /\ error \in BOOLEAN /\ frame \in 0..MaxFrame
  /\ pDMARxSet \in Desc /\ reading \in BOOLEAN /\ taken \in 0..MaxFrame

\* Buffer2NextDescAddr, as ETH_DMARxDescChainInit chains the descriptors.
NextDesc(i) == IF i < ETH_RXBUFNB - 1 THEN i + 1 ELSE 0

\* ETH_Init: the link is not up yet.
Init ==
  /\ own = [i \in Desc |-> TRUE] /\ buf = [i \in Desc |-> Torn]
  /\ DMARxDescToGet = 0 /\ pDMARxSet = 0
  /\ ERXST = None /\ writing = None /\ RXIF = FALSE /\ error = FALSE
  /\ frame = 0 /\ reading = FALSE /\ taken = 0

-----------------------------------------------------------------------------
(* The MAC.                                                                *)

ArriveStart ==
  /\ ERXST # None /\ writing = None /\ ~RXIF /\ frame < MaxFrame
  /\ writing' = ERXST
  /\ buf' = [buf EXCEPT ![ERXST] = Torn]
  /\ UNCHANGED <<own, DMARxDescToGet, ERXST, RXIF, error, frame, libVars>>

\* The end of a good frame, or of one with a wrong CRC or too long.
ArriveEnd ==
  /\ writing # None
  /\ \E bad \in BOOLEAN :
       /\ error' = bad
       /\ buf' = [buf EXCEPT ![writing] = IF bad THEN Torn ELSE frame + 1]
       /\ frame' = IF bad THEN frame ELSE frame + 1
  /\ writing' = None /\ RXIF' = TRUE
  /\ UNCHANGED <<own, DMARxDescToGet, ERXST, libVars>>

-----------------------------------------------------------------------------
(* WCHNET_ETHIsr, the part for RXIF, and ETH_Start.                        *)

\* Wrong: the next descriptor's OWN bit is not looked at.
HandOver_Always ==
  /\ own[DMARxDescToGet] /\ ~error
  /\ own' = [own EXCEPT ![DMARxDescToGet] = FALSE]
  /\ DMARxDescToGet' = NextDesc(DMARxDescToGet)
  /\ ERXST' = DMARxDescToGet'

\* Wrong: the MAC is left with the buffer it has.
HandOver_KeepsBuffer ==
  /\ own[DMARxDescToGet] /\ ~error /\ own[NextDesc(DMARxDescToGet)]
  /\ own' = [own EXCEPT ![DMARxDescToGet] = FALSE]
  /\ DMARxDescToGet' = NextDesc(DMARxDescToGet)
  /\ UNCHANGED ERXST

\* Wrong: a frame with an error is handed over too.
HandOver_Errors ==
  /\ own[DMARxDescToGet] /\ own[NextDesc(DMARxDescToGet)]
  /\ own' = [own EXCEPT ![DMARxDescToGet] = FALSE]
  /\ DMARxDescToGet' = NextDesc(DMARxDescToGet)
  /\ ERXST' = DMARxDescToGet'

HandOver ==
  /\ own[DMARxDescToGet] /\ ~error /\ own[NextDesc(DMARxDescToGet)]
  /\ own' = [own EXCEPT ![DMARxDescToGet] = FALSE]
  /\ DMARxDescToGet' = NextDesc(DMARxDescToGet)
  /\ ERXST' = DMARxDescToGet'

\* The frame stays where it is: it had an error, or the ring is full.
GiveUp ==
  /\ error \/ ~own[DMARxDescToGet] \/ ~own[NextDesc(DMARxDescToGet)]
  /\ UNCHANGED <<own, DMARxDescToGet, ERXST>>

WCHNET_ETHIsr ==
  /\ RXIF /\ RXIF' = FALSE
  /\ HandOver \/ GiveUp
  /\ UNCHANGED <<buf, writing, error, frame, libVars>>

\* Wrong: the descriptor after the handler's.
ETH_Start_Next ==
  /\ ERXST' = DMARxDescToGet + 1
  /\ UNCHANGED <<own, buf, DMARxDescToGet, writing, RXIF, error, frame, libVars>>

\* The link comes up, for the first time or again.
ETH_Start ==
  /\ ERXST' = DMARxDescToGet
  /\ UNCHANGED <<own, buf, DMARxDescToGet, writing, RXIF, error, frame, libVars>>

-----------------------------------------------------------------------------
(* The library, in WCHNET_NetInput.                                        *)

ReadStart ==
  /\ ~reading /\ ~own[pDMARxSet]
  /\ reading' = TRUE
  /\ UNCHANGED <<own, buf, DMARxDescToGet, hwVars, pDMARxSet, taken>>

ReadEnd ==
  /\ reading /\ reading' = FALSE
  /\ taken' = buf[pDMARxSet]
  /\ own' = [own EXCEPT ![pDMARxSet] = TRUE]
  /\ pDMARxSet' = NextDesc(pDMARxSet)
  /\ UNCHANGED <<buf, DMARxDescToGet, hwVars>>

MAC     == ArriveStart \/ ArriveEnd
Handler == WCHNET_ETHIsr \/ ETH_Start
Library == ReadStart \/ ReadEnd

Next == MAC \/ Handler \/ Library

\* The main loop calls WCHNET_NetInput again and again.
Spec == Init /\ [][Next]_vars /\ WF_vars(Library)

-----------------------------------------------------------------------------
(* Properties.                                                             *)

\* What the library may read at any moment, every descriptor handed over, is a
\* whole good frame, and the MAC does not write to it and will not.
HandedOverIsWhole ==
  \A i \in Desc : ~own[i] => buf[i] # Torn /\ i # writing /\ i # ERXST

\* The descriptors handed over run from the library's to the handler's: the two
\* have not passed each other, and a full ring is not taken for an empty one.
Distance(i) == IF i >= pDMARxSet THEN i - pDMARxSet ELSE i + ETH_RXBUFNB - pDMARxSet
Handed      == {i \in Desc : ~own[i]}
HandedIsARun == Handed = {i \in Desc : Distance(i) < Distance(DMARxDescToGet)}

\* The ring is the queue of frames that the library needs.
Ahead(k) == IF pDMARxSet + k < ETH_RXBUFNB THEN pDMARxSet + k ELSE pDMARxSet + k - ETH_RXBUFNB
Queued   == [k \in 1..Distance(DMARxDescToGet) |-> buf[Ahead(k - 1)]]

\* A frame is offered to the queue when the handler has decided about it.
Offered == IF RXIF /\ ~error THEN frame - 1 ELSE frame

Q == INSTANCE FrameQueue WITH
       Capacity <- ETH_RXBUFNB - 1, queue <- Queued, last <- Offered
Implements == Q!Spec

\* A frame that was handed over reaches the library.
Delivered ==
  \A f \in 1..MaxFrame :
    (\E i \in Handed : buf[i] = f) ~> taken = f
=============================================================================
