-------------------------- MODULE EthDriver_proofs --------------------------
(***************************************************************************)
(* Proofs about the Ethernet driver, for every number of descriptors from  *)
(* two on and every number of frames: the receive ring alone, that it is   *)
(* the queue of module FrameQueue, and both again beside the transmit      *)
(* side.                                                                   *)
(***************************************************************************)
EXTENDS EthDriver, TLAPS

-----------------------------------------------------------------------------
(* The receive ring, specification Spec of RxRing.                         *)


\* The handler's descriptor is the MAC's, and it is the one the MAC writes to.
\* The frame that waits for the handler is the last one, and is not being written over.
MacInv ==
  /\ own[DMARxDescToGet]
  /\ ERXST = DMARxDescToGet \/ (ERXST = None /\ frame = 0)
  /\ writing # None => writing = ERXST /\ ~RXIF /\ frame < MaxFrame
  /\ RXIF /\ ~error => frame # 0 /\ buf[DMARxDescToGet] = frame
  /\ RXIF => ERXST # None

WholeInv == \A i \in Desc : ~own[i] => buf[i] # Torn

\* A library that reads reads a descriptor handed over.
ReadInv == reading => ~own[pDMARxSet]

IInv == TypeOK /\ MacInv /\ WholeInv /\ ReadInv /\ HandedIsARun

LEMMA NextDescType ==
  /\ \A i \in Desc : NextDesc(i) \in Desc /\ NextDesc(i) # i
  /\ None \notin Desc /\ Desc \subseteq Nat
BY RingAssumption DEF NextDesc, Desc, None

\* The distance from p to i along the ring.
Dist(p, i) == IF i >= p THEN i - p ELSE i + ETH_RXBUFNB - p

\* A distance is less than the length of the ring and tells descriptors apart.
LEMMA DistType ==
  ASSUME NEW p \in Desc, NEW i \in Desc
  PROVE  /\ Dist(p, i) \in 0..(ETH_RXBUFNB - 1)
         /\ Dist(p, i) = 0 <=> i = p
         /\ \A j \in Desc : Dist(p, i) = Dist(p, j) => i = j
BY RingAssumption DEF Dist, Desc

\* One step along the ring is one more, except onto p itself.
LEMMA DistNext ==
  ASSUME NEW p \in Desc, NEW i \in Desc
  PROVE  IF NextDesc(i) = p THEN Dist(p, i) = ETH_RXBUFNB - 1
                            ELSE Dist(p, NextDesc(i)) = Dist(p, i) + 1
BY RingAssumption DEF Dist, Desc, NextDesc

\* Seen from one step further, all but p are one nearer and p is the farthest.
LEMMA DistFrom ==
  ASSUME NEW p \in Desc, NEW i \in Desc
  PROVE  Dist(NextDesc(p), i) = IF i = p THEN ETH_RXBUFNB - 1 ELSE Dist(p, i) - 1
BY RingAssumption DEF Dist, Desc, NextDesc

\* HandedIsARun, element by element.
LEMMA RunByElement ==
  HandedIsARun <=>
    \A i \in Desc : ~own[i] <=> Dist(pDMARxSet, i) < Dist(pDMARxSet, DMARxDescToGet)
BY DEF HandedIsARun, Handed, Distance, Dist

LEMMA RunByElementNext ==
  HandedIsARun' <=>
    \A i \in Desc : ~own'[i] <=> Dist(pDMARxSet', i) < Dist(pDMARxSet', DMARxDescToGet')
BY DEF HandedIsARun, Handed, Distance, Dist

\* The descriptor ahead of the handler's is the MAC's, unless the ring is full:
\* then it is the library's.
LEMMA NextIsFree ==
  ASSUME TypeOK, HandedIsARun
  PROVE  IF own[NextDesc(DMARxDescToGet)]
         THEN Dist(pDMARxSet, NextDesc(DMARxDescToGet)) = Dist(pDMARxSet, DMARxDescToGet) + 1
         ELSE Dist(pDMARxSet, DMARxDescToGet) = ETH_RXBUFNB - 1
<1> DEFINE p == pDMARxSet
           g == DMARxDescToGet
           n == NextDesc(g)
<1>1. p \in Desc /\ g \in Desc /\ n \in Desc
  BY NextDescType DEF TypeOK
<1>2. ~own[n] <=> Dist(p, n) < Dist(p, g)
  BY <1>1, RunByElement
<1>3. Dist(p, g) \in Nat /\ Dist(p, p) = 0
  BY <1>1, DistType, RingAssumption
<1>4. IF n = p THEN Dist(p, g) = ETH_RXBUFNB - 1 ELSE Dist(p, n) = Dist(p, g) + 1
  BY <1>1, DistNext
<1> HIDE DEF p, g, n
<1>5. CASE n = p
  BY <1>2, <1>3, <1>4, <1>5, RingAssumption DEF p, g, n
<1>6. CASE n # p
  BY <1>2, <1>3, <1>4, <1>6 DEF p, g, n
<1> QED
  BY <1>5, <1>6

LEMMA InitInv == Init => IInv
<1> SUFFICES ASSUME Init PROVE IInv
  OBVIOUS
<1>0. 0 \in Desc /\ 0 \in 0..MaxFrame
  BY RingAssumption DEF Desc
<1>1. TypeOK
  BY <1>0 DEF Init, TypeOK, Torn
<1>2. HandedIsARun
  <2>1. \A i \in Desc : own[i] /\ ~(Dist(0, i) < Dist(0, 0))
    BY <1>0, DistType, RingAssumption DEF Init
  <2> QED
    BY <2>1, RunByElement DEF Init
<1>3. MacInv /\ WholeInv /\ ReadInv
  BY <1>0 DEF Init, MacInv, WholeInv, ReadInv
<1> QED
  BY <1>1, <1>2, <1>3 DEF IInv

LEMMA ArriveInv ==
  ASSUME IInv, ArriveStart \/ ArriveEnd
  PROVE  IInv'
<1>1. UNCHANGED <<own, DMARxDescToGet, ERXST, pDMARxSet, reading, taken>>
  BY DEF ArriveStart, ArriveEnd, libVars
<1>2. HandedIsARun' /\ ReadInv'
  BY <1>1 DEF IInv, HandedIsARun, Handed, Distance, ReadInv
<1>3. CASE ArriveStart
  <2>1. TypeOK'
    BY <1>3, RingAssumption, NextDescType DEF IInv, TypeOK, ArriveStart, libVars, Torn
  <2>2. MacInv' /\ WholeInv'
    BY <1>1, <1>3, NextDescType DEF IInv, TypeOK, MacInv, WholeInv, ArriveStart
  <2> QED
    BY <1>2, <2>1, <2>2 DEF IInv
<1>4. CASE ArriveEnd
  <2>1. TypeOK'
    <3>1. frame + 1 \in 0..MaxFrame
      BY <1>4, RingAssumption DEF IInv, TypeOK, MacInv, ArriveEnd
    <3> QED
      BY <1>4, <3>1, RingAssumption, NextDescType DEF IInv, TypeOK, ArriveEnd, libVars, Torn
  <2>2. frame \in Nat /\ writing = DMARxDescToGet
    BY <1>4, RingAssumption DEF IInv, TypeOK, MacInv, ArriveEnd
  <2>3. MacInv' /\ WholeInv'
    BY <1>1, <1>4, <2>2, NextDescType DEF IInv, TypeOK, MacInv, WholeInv, ArriveEnd, Torn
  <2> QED
    BY <1>2, <2>1, <2>3 DEF IInv
<1> QED
  BY <1>3, <1>4

LEMMA IsrInv ==
  ASSUME IInv, WCHNET_ETHIsr
  PROVE  IInv'
<1>1. CASE HandOver
  <2> DEFINE p == pDMARxSet
             g == DMARxDescToGet
             n == NextDesc(g)
  <2>1. TypeOK'
    BY <1>1, NextDescType DEF IInv, TypeOK, WCHNET_ETHIsr, HandOver, libVars
  <2>2. MacInv' /\ WholeInv'
    BY <1>1, NextDescType DEF IInv, TypeOK, MacInv, WholeInv, WCHNET_ETHIsr, HandOver, Torn
  <2>3. ReadInv'
    BY <1>1, NextDescType DEF IInv, TypeOK, ReadInv, WCHNET_ETHIsr, HandOver, libVars
  <2>4. HandedIsARun'
    <3>1. p \in Desc /\ g \in Desc /\ n \in Desc /\ n # g /\ own[n]
      BY <1>1, NextDescType DEF IInv, TypeOK, HandOver
    <3>2. \A i \in Desc : ~own[i] <=> Dist(p, i) < Dist(p, g)
      BY RunByElement DEF IInv
    <3>4. Dist(p, n) = Dist(p, g) + 1
      BY <3>1, NextIsFree DEF IInv
    <3>5. p' = p /\ g' = n /\ own' = [own EXCEPT ![g] = FALSE]
      BY <1>1 DEF HandOver, WCHNET_ETHIsr, libVars
    <3>6. \A i \in Desc : ~own'[i] <=> ~own[i] \/ i = g
      BY <3>1, <3>5 DEF IInv, TypeOK
    <3>7. \A i \in Desc : Dist(p, i) < Dist(p, g) + 1 <=> Dist(p, i) < Dist(p, g) \/ i = g
      <4> SUFFICES ASSUME NEW i \in Desc
                   PROVE  Dist(p, i) < Dist(p, g) + 1 <=> Dist(p, i) < Dist(p, g) \/ i = g
        OBVIOUS
      <4>1. Dist(p, i) \in Nat /\ Dist(p, g) \in Nat /\ (Dist(p, i) = Dist(p, g) => i = g)
        BY <3>1, DistType, RingAssumption
      <4> QED
        BY <4>1
    <3>8. \A i \in Desc : ~own'[i] <=> Dist(p, i) < Dist(p, n)
      BY <3>2, <3>4, <3>6, <3>7
    <3> QED
      BY <3>5, <3>8, RunByElementNext
  <2> QED
    BY <2>1, <2>2, <2>3, <2>4 DEF IInv
<1>2. CASE GiveUp
  BY <1>2 DEF IInv, TypeOK, MacInv, WholeInv, ReadInv, HandedIsARun, Handed, Distance,
              WCHNET_ETHIsr, GiveUp, libVars
<1> QED
  BY <1>1, <1>2 DEF WCHNET_ETHIsr

LEMMA StartInv ==
  ASSUME IInv, ETH_Start
  PROVE  IInv'
BY NextDescType DEF IInv, TypeOK, MacInv, WholeInv, ReadInv, HandedIsARun, Handed, Distance,
                    ETH_Start, libVars

LEMMA ReadInvariant ==
  ASSUME IInv, Library
  PROVE  IInv'
<1>1. CASE ReadStart
  BY <1>1 DEF IInv, TypeOK, MacInv, WholeInv, ReadInv, HandedIsARun, Handed, Distance,
              ReadStart, hwVars
<1>2. CASE ReadEnd
  <2> DEFINE p == pDMARxSet
             g == DMARxDescToGet
  <2>1. p \in Desc /\ g \in Desc /\ ~own[p] /\ own[g]
    BY <1>2 DEF IInv, TypeOK, ReadInv, MacInv, ReadEnd
  <2>2. p' = NextDesc(p) /\ g' = g /\ own' = [own EXCEPT ![p] = TRUE]
    BY <1>2 DEF ReadEnd
  <2>3. TypeOK'
    BY <1>2, NextDescType DEF IInv, TypeOK, ReadEnd, hwVars
  <2>4. MacInv' /\ WholeInv' /\ ReadInv'
    BY <1>2, <2>1 DEF IInv, TypeOK, MacInv, WholeInv, ReadInv, ReadEnd, hwVars
  <2>5. HandedIsARun'
    <3>1. \A i \in Desc : ~own[i] <=> Dist(p, i) < Dist(p, g)
      BY RunByElement DEF IInv
    <3>2. \A i \in Desc : ~own'[i] <=> ~own[i] /\ i # p
      BY <2>1, <2>2 DEF IInv, TypeOK
    <3>3. Dist(NextDesc(p), g) = Dist(p, g) - 1
      BY <2>1, DistFrom
    <3>4. \A i \in Desc : Dist(NextDesc(p), i) < Dist(NextDesc(p), g)
                             <=> Dist(p, i) < Dist(p, g) /\ i # p
      <4> SUFFICES ASSUME NEW i \in Desc
                   PROVE  Dist(NextDesc(p), i) < Dist(NextDesc(p), g)
                            <=> Dist(p, i) < Dist(p, g) /\ i # p
        OBVIOUS
      <4>1. Dist(p, i) \in Nat /\ Dist(p, g) \in 0..(ETH_RXBUFNB - 1)
        BY <2>1, DistType, RingAssumption
      <4>2. Dist(NextDesc(p), i) = IF i = p THEN ETH_RXBUFNB - 1 ELSE Dist(p, i) - 1
        BY <2>1, DistFrom
      <4> QED
        BY <3>3, <4>1, <4>2, RingAssumption
    <3>5. \A i \in Desc : ~own'[i] <=> Dist(p', i) < Dist(p', g')
      BY <2>2, <3>1, <3>2, <3>4
    <3> QED
      BY <3>5, RunByElementNext
  <2> QED
    BY <2>3, <2>4, <2>5 DEF IInv
<1> QED
  BY <1>1, <1>2 DEF Library

LEMMA NextInv == IInv /\ [Next]_vars => IInv'
<1> SUFFICES ASSUME IInv, [Next]_vars PROVE IInv'
  OBVIOUS
<1>1. CASE UNCHANGED vars
  BY <1>1 DEF IInv, TypeOK, MacInv, WholeInv, ReadInv, HandedIsARun, Handed, Distance,
              vars, hwVars, libVars
<1> QED
  BY <1>1, ArriveInv, IsrInv, StartInv, ReadInvariant DEF Next, MAC, Handler

\* In every reachable state of a ring of any length: the handler's descriptor is
\* the MAC's and is the one the MAC writes to, and the descriptors handed over
\* are those from the library's to the handler's.
THEOREM Invariant == Spec => []IInv
BY InitInv, NextInv, PTL DEF Spec

\* Every variable of the ring keeps its type (no index leaves the ring).
THEOREM TypeCorrect == Spec => []TypeOK
<1>1. IInv => TypeOK
  BY DEF IInv
<1> QED
  BY <1>1, Invariant, PTL

\* What the library may read is a whole good frame and the MAC neither writes to
\* it nor will: WCHNET_ETHIsr never hands over the descriptor in ERXST.
THEOREM LibraryReadsWhole == Spec => []HandedOverIsWhole
<1>1. IInv => HandedOverIsWhole
  BY NextDescType DEF IInv, TypeOK, MacInv, WholeInv, HandedOverIsWhole
<1> QED
  BY <1>1, Invariant, PTL

\* The handler and the library follow each other around the ring without passing,
\* though neither knows where the other is but for the OWN bits.
THEOREM RingIsARun == Spec => []HandedIsARun
<1>1. IInv => HandedIsARun
  BY DEF IInv
<1> QED
  BY <1>1, Invariant, PTL

-----------------------------------------------------------------------------
(* The receive ring is a queue of frames.                                  *)

\* The queue has the length of the run and starts at the library's descriptor;
\* the handler's is the one after its end.
LEMMA QueueEnds ==
  ASSUME TypeOK
  PROVE  LET d == Dist(pDMARxSet, DMARxDescToGet)
         IN  /\ d \in Nat /\ d <= ETH_RXBUFNB - 1
             /\ Queued = [k \in 1..d |-> buf[Ahead(k - 1)]] /\ Len(Queued) = d
             /\ Ahead(0) = pDMARxSet /\ Ahead(d) = DMARxDescToGet
<1> DEFINE d == Dist(pDMARxSet, DMARxDescToGet)
<1>1. d \in Nat /\ d <= ETH_RXBUFNB - 1
  BY DistType, RingAssumption DEF TypeOK
<1>2. Queued = [k \in 1..d |-> buf[Ahead(k - 1)]]
  BY DEF Queued, Distance, Dist
<1>3. Ahead(0) = pDMARxSet /\ Ahead(d) = DMARxDescToGet
  BY RingAssumption DEF TypeOK, Desc, Ahead, Dist
<1> HIDE DEF d
<1>4. Len(Queued) = d
  BY <1>1, <1>2
<1> QED
  BY <1>1, <1>2, <1>3, <1>4 DEF d

LEMMA InitQueue == Init => Q!Init
<1> SUFFICES ASSUME Init PROVE Q!Init
  OBVIOUS
<1>1. Distance(DMARxDescToGet) = 0
  BY RingAssumption DEF Init, Distance
<1>2. Queued = <<>>
  BY <1>1 DEF Queued
<1> QED
  BY <1>2 DEF Q!Init, Init, Offered

\* The handler offers the frame that waits: it joins the queue behind the last.
LEMMA HandOverQueue ==
  ASSUME IInv, WCHNET_ETHIsr, HandOver
  PROVE  Q!Offer
<1> DEFINE d == Dist(pDMARxSet, DMARxDescToGet)
<1>1. d + 1 = Dist(pDMARxSet', DMARxDescToGet')
  BY NextIsFree DEF IInv, WCHNET_ETHIsr, HandOver, libVars
<1>2. /\ d \in Nat /\ Queued = [k \in 1..d |-> buf[Ahead(k - 1)]] /\ Len(Queued) = d
      /\ Ahead(d) = DMARxDescToGet
  BY QueueEnds DEF IInv
<1>3. TypeOK'
  BY IsrInv DEF IInv
<1>4. d + 1 <= ETH_RXBUFNB - 1 /\ Queued' = [k \in 1..(d + 1) |-> buf[Ahead(k - 1)]]
  <2>1. UNCHANGED <<buf, pDMARxSet>>
    BY DEF WCHNET_ETHIsr, libVars
  <2>2. DMARxDescToGet' \in Desc /\ pDMARxSet' \in Desc
    BY <1>3 DEF TypeOK
  <2>3. d + 1 <= ETH_RXBUFNB - 1
    BY <1>1, <2>2, DistType, RingAssumption
  <2>4. Distance(DMARxDescToGet)' = d + 1
    BY <1>1 DEF Distance, Dist
  <2> QED
    BY <2>1, <2>3, <2>4 DEF Queued, Ahead
<1>5. frame \in Nat /\ frame # 0 /\ buf[Ahead(d)] = frame /\ Offered' = frame /\ Offered = frame - 1
  BY <1>2, RingAssumption DEF IInv, TypeOK, MacInv, WCHNET_ETHIsr, HandOver, Offered
<1> HIDE DEF d
<1>6. Queued' = Append(Queued, frame)
  BY <1>2, <1>4, <1>5
<1>7. Len(Queued) < ETH_RXBUFNB - 1 /\ Offered' = Offered + 1 /\ UNCHANGED taken
  BY <1>2, <1>4, <1>5, RingAssumption DEF WCHNET_ETHIsr, libVars
<1> QED
  BY <1>5, <1>6, <1>7 DEF Q!Offer

\* It gives up a good frame only if the queue is full.
LEMMA GiveUpQueue ==
  ASSUME IInv, WCHNET_ETHIsr, GiveUp
  PROVE  Q!Offer \/ UNCHANGED <<Queued, Offered, taken>>
<1>1. UNCHANGED <<Queued, frame, error, taken>>
  BY DEF WCHNET_ETHIsr, GiveUp, libVars, Queued, Ahead, Distance
<1>2. CASE error
  BY <1>1, <1>2 DEF Offered
<1>3. CASE ~error
  <2>1. ~own[NextDesc(DMARxDescToGet)]
    BY <1>3 DEF IInv, MacInv, GiveUp
  <2>2. Len(Queued) = ETH_RXBUFNB - 1
    BY <2>1, NextIsFree, QueueEnds DEF IInv
  <2>3. Offered' = Offered + 1
    BY <1>1, <1>3, RingAssumption DEF IInv, TypeOK, MacInv, WCHNET_ETHIsr, Offered
  <2> QED
    BY <1>1, <2>2, <2>3 DEF Q!Offer
<1> QED
  BY <1>2, <1>3

\* The library takes the first frame of the queue.
LEMMA ReadQueue ==
  ASSUME IInv, ReadEnd
  PROVE  Q!Take
<1> DEFINE d == Dist(pDMARxSet, DMARxDescToGet)
<1>1. /\ d \in Nat /\ d <= ETH_RXBUFNB - 1
      /\ Queued = [k \in 1..d |-> buf[Ahead(k - 1)]] /\ Len(Queued) = d
      /\ Ahead(0) = pDMARxSet
  BY QueueEnds DEF IInv
<1>2. pDMARxSet \in Desc /\ DMARxDescToGet \in Desc /\ pDMARxSet # DMARxDescToGet
  BY DEF IInv, TypeOK, ReadInv, MacInv, ReadEnd
<1>3. d # 0 /\ Dist(pDMARxSet', DMARxDescToGet') = d - 1
  BY <1>2, DistType, DistFrom DEF ReadEnd
<1>4. Queued' = [k \in 1..(d - 1) |-> buf[Ahead(k)]]
  <2>1. UNCHANGED buf /\ pDMARxSet' = NextDesc(pDMARxSet)
    BY DEF ReadEnd
  <2>2. Distance(DMARxDescToGet)' = d - 1
    BY <1>3 DEF Distance, Dist
  <2>3. ASSUME NEW k \in 1..(d - 1) PROVE Ahead(k - 1)' = Ahead(k)
    BY <1>1, <1>2, <2>1, RingAssumption DEF Ahead, NextDesc, Desc
  <2> QED
    BY <2>1, <2>2, <2>3 DEF Queued
<1>5. taken' = buf[pDMARxSet] /\ Offered' = Offered
  BY DEF ReadEnd, hwVars, Offered
<1> HIDE DEF d
<1>6. Queued # <<>> /\ Head(Queued) = buf[Ahead(0)]
  BY <1>1, <1>3
<1>7. Queued' = Tail(Queued)
  BY <1>1, <1>3, <1>4
<1> QED
  BY <1>1, <1>5, <1>6, <1>7 DEF Q!Take

LEMMA NextQueue == IInv /\ [Next]_vars => [Q!Next]_<<Queued, Offered, taken>>
<1> SUFFICES ASSUME IInv, [Next]_vars PROVE Q!Next \/ UNCHANGED <<Queued, Offered, taken>>
  BY DEF Q!Next
<1>1. CASE ArriveStart \/ ArriveEnd
  <2>1. \A i \in Desc : ~own[i] => buf'[i] = buf[i]
    BY <1>1, NextDescType DEF IInv, TypeOK, MacInv, ArriveStart, ArriveEnd
  <2>2. UNCHANGED <<pDMARxSet, DMARxDescToGet, taken>>
    BY <1>1 DEF ArriveStart, ArriveEnd, libVars
  <2>3. Queued' = Queued
    <3> DEFINE d == Dist(pDMARxSet, DMARxDescToGet)
    <3>1. d \in Nat /\ d <= ETH_RXBUFNB - 1 /\ pDMARxSet \in Desc /\ DMARxDescToGet \in Desc
      BY QueueEnds DEF IInv, TypeOK
    <3>2. ASSUME NEW k \in 1..d PROVE ~own[Ahead(k - 1)] /\ Ahead(k - 1) \in Desc
      <4>1. Ahead(k - 1) \in Desc /\ Dist(pDMARxSet, Ahead(k - 1)) = k - 1
        BY <3>1, RingAssumption DEF Ahead, Desc, Dist
      <4> QED
        BY <3>1, <4>1, RunByElement DEF IInv
    <3>3. Distance(DMARxDescToGet) = d /\ Distance(DMARxDescToGet)' = d
      BY <2>2 DEF Distance, Dist
    <3> QED
      BY <2>1, <2>2, <3>2, <3>3 DEF Queued, Ahead
  <2>4. Offered' = Offered
    BY <1>1, RingAssumption DEF IInv, TypeOK, MacInv, ArriveStart, ArriveEnd, Offered
  <2> QED
    BY <2>2, <2>3, <2>4
<1>2. CASE WCHNET_ETHIsr
  BY <1>2, HandOverQueue, GiveUpQueue DEF WCHNET_ETHIsr, Q!Next
<1>3. CASE ETH_Start \/ ReadStart \/ UNCHANGED vars
  BY <1>3 DEF ETH_Start, ReadStart, vars, hwVars, libVars, Queued, Ahead, Distance, Offered
<1>4. CASE ReadEnd
  BY <1>4, ReadQueue DEF Q!Next
<1> QED
  BY <1>1, <1>2, <1>3, <1>4 DEF Next, MAC, Handler, Library

\* The ring is a bounded queue: the library takes the good frames in the order in
\* which they came and once each, and one is dropped only if the queue is full.
THEOREM RingIsAQueue == Spec => Implements
BY InitQueue, NextQueue, Invariant, PTL DEF Spec, Implements, Q!Spec

-----------------------------------------------------------------------------
(* The whole driver, specification DriverSpec.                             *)


\* Where the caller of ETH_TxPktChainMode is, the descriptor and the MAC agree:
\* a MAC that sends has no flag up, and a caller past its tests has an idle MAC.
TxInv ==
  /\ OwnedWhileSending
  /\ TXRTS => txFlags = {}
  /\ txpc = "free" => ~txOwn
  /\ txpc = "owned" => txOwn /\ ~TXRTS /\ txFlags = {}

TxTypeOK ==
  /\ txOwn \in BOOLEAN /\ TXRTS \in BOOLEAN
  /\ txFlags \in SUBSET {"TXIF", "TXERIF"}
  /\ txpc \in {"idle", "busy", "free", "owned"}

DriverInv == IInv /\ TxTypeOK /\ TxInv

\* Every step of the driver is one of its receive side or leaves that alone.
LEMMA RxStep ==
  ASSUME [DriverNext]_driverVars
  PROVE  [Next]_vars
<1>1. CASE Receive
  BY <1>1 DEF Receive, Next, MAC, Handler
<1>2. CASE Interrupt
  BY <1>2 DEF Interrupt, Next, Handler
<1>3. CASE TxEnd
  BY <1>3 DEF TxEnd
<1>4. CASE ETH_TxPktChainMode
  BY <1>4 DEF ETH_TxPktChainMode
<1>5. CASE UNCHANGED driverVars
  BY <1>5 DEF driverVars
<1> QED
  BY <1>1, <1>2, <1>3, <1>4, <1>5 DEF DriverNext

LEMMA TxStep ==
  ASSUME TxTypeOK, TxInv, [DriverNext]_driverVars
  PROVE  TxTypeOK' /\ TxInv'
<1> USE DEF TxTypeOK, TxInv, OwnedWhileSending
<1>1. CASE Receive
  BY <1>1 DEF Receive, txVars
<1>2. CASE Interrupt
  BY <1>2 DEF Interrupt, TxInterrupts
<1>3. CASE TxEnd
  BY <1>3 DEF TxEnd
<1>4. CASE ETH_TxPktChainMode
  <2>1. CASE TxCall
    BY <1>4, <2>1 DEF ETH_TxPktChainMode, TxCall
  <2>2. CASE TxBusy
    BY <1>4, <2>2 DEF ETH_TxPktChainMode, TxBusy
  <2>3. CASE TxOwn
    BY <1>4, <2>3 DEF ETH_TxPktChainMode, TxOwn
  <2>4. CASE TxSend
    BY <1>4, <2>4 DEF ETH_TxPktChainMode, TxSend
  <2> QED
    BY <1>4, <2>1, <2>2, <2>3, <2>4 DEF ETH_TxPktChainMode
<1>5. CASE UNCHANGED driverVars
  BY <1>5 DEF driverVars, txVars
<1> QED
  BY <1>1, <1>2, <1>3, <1>4, <1>5 DEF DriverNext

\* In every reachable state of the driver, with a ring of any length: the ring's
\* invariant holds, and a caller that goes on to send finds an idle MAC.
THEOREM DriverInvariant == DriverSpec => []DriverInv
<1>1. DriverInit => DriverInv
  BY InitInv DEF DriverInit, DriverInv, TxTypeOK, TxInv, OwnedWhileSending
<1>2. DriverInv /\ [DriverNext]_driverVars => DriverInv'
  BY RxStep, TxStep, NextInv DEF DriverInv
<1> QED
  BY <1>1, <1>2, PTL DEF DriverSpec

\* Every variable of the driver keeps its type.
THEOREM DriverTypeCorrect == DriverSpec => []DriverTypeOK
<1>1. DriverInv => DriverTypeOK
  BY DEF DriverInv, IInv, TxTypeOK, DriverTypeOK
<1> QED
  BY <1>1, DriverInvariant, PTL

\* With the interrupts of the transmitter sharing the handler, what the library
\* may read is still a whole good frame that the MAC will not write to.
THEOREM DriverReadsWhole == DriverSpec => []HandedOverIsWhole
<1>1. DriverInv => HandedOverIsWhole
  BY NextDescType DEF DriverInv, IInv, TypeOK, MacInv, WholeInv, HandedOverIsWhole
<1> QED
  BY <1>1, DriverInvariant, PTL

\* The handler and the library do not pass each other on the driver's ring.
THEOREM DriverRingIsARun == DriverSpec => []HandedIsARun
<1>1. DriverInv => HandedIsARun
  BY DEF DriverInv, IInv
<1> QED
  BY <1>1, DriverInvariant, PTL

\* The driver's ring is the same queue, whatever is sent beside it.
THEOREM DriverIsAQueue == DriverSpec => Implements
<1>1. DriverInit => Q!Init
  BY InitQueue DEF DriverInit
<1>2. DriverInv /\ [DriverNext]_driverVars => [Q!Next]_<<Queued, Offered, taken>>
  BY RxStep, NextQueue DEF DriverInv
<1> QED
  BY <1>1, <1>2, DriverInvariant, PTL DEF DriverSpec, Implements, Q!Spec

\* A descriptor is the MAC's for as long as the MAC sends and the handler does
\* not know that it is done, though both the handler and the caller clear OWN.
THEOREM DescriptorIsOwned == DriverSpec => []OwnedWhileSending
<1>1. DriverInv => OwnedWhileSending
  BY DEF DriverInv, TxInv
<1> QED
  BY <1>1, DriverInvariant, PTL

\* ETH_TxPktChainMode never changes a frame that is being sent: the two tests it
\* makes one after the other are enough, wherever the handler runs.
THEOREM SendsOneAtATime == DriverSpec => OneFrameAtATime
<1>1. DriverInv /\ [DriverNext]_driverVars => [TxSend => ~TXRTS]_driverVars
  BY DEF DriverInv, TxInv, TxSend
<1> QED
  BY <1>1, DriverInvariant, PTL DEF DriverSpec, OneFrameAtATime
=============================================================================
