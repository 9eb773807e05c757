------------------------------- MODULE EthIF -------------------------------
(***************************************************************************)
(* The Ethernet interface object of src/ethIF.cpp and, below it, the       *)
(* TCP/IP library it drives.                                               *)
(*                                                                         *)
(* The library (libwchnet.a) has no source in the repository: its socket   *)
(* slots are modelled from the way ethIF.cpp, tcpClient.cpp and wchnet.h   *)
(* use them.  It advances only inside WCHNET_MainTask, which ethIF calls   *)
(* first thing in its own mainTask, and reports to the program through the *)
(* per-socket interrupt flags that WCHNET_GetSocketInt reads and clears.   *)
(*                                                                         *)
(* A call the program makes (create, close, send) is an operator on the    *)
(* function "tcp" of slots, so that a caller can compose several calls in  *)
(* one step, in the order in which the code makes them.  What the library  *)
(* does on its own is an action.                                           *)
(***************************************************************************)
EXTENDS Packets, Sequences

CONSTANTS
  Slots,       \* the library's TCP sockets: 0 .. WCHNET_NUM_TCP - 1
  NoSocket,    \* UINT8_MAX, the id of a client that never got a socket
  MaxQueue,    \* packets in one direction of a connection (send buffer)
  SynSend,     \* does the library queue data given to a connecting socket?
  SlowClose,   \* does closing a connecting socket take the library some time?
  Split,       \* may TCP deliver one packet in two reads?
  Merge,       \* may one poll report received data and the loss together?
  GlobalInts   \* global interrupts other than the socket one

ASSUME SlotsAssumption == NoSocket \notin Slots
ASSUME BoundAssumption == MaxQueue \in Nat \ {0}
ASSUME FlagAssumption == {SynSend, SlowClose, Split, Merge} \subseteq BOOLEAN
ASSUME GlobalAssumption ==
  GlobalInts \subseteq {"UNREACH", "IP_CONFLI", "LINK_UP", "LINK_DOWN"}

VARIABLES
  tcp,           \* the library's sockets
  socketStates,  \* ethIF::socketStates
  recvBuf,       \* ethIF::SocketRecvBuf and retBufLen: <<>> is length 0
  phyStatus      \* ethIF::phyStatus

ethVars == <<tcp, socketStates, recvBuf, phyStatus>>

(***************************************************************************)
(* A socket of the library.  st is the state of its TCP connection, "idle" *)
(* a socket that was created but could not start to connect; flags are the *)
(* pending socket interrupts; rx is the data received and not yet read by  *)
(* the program; down and up are the packets under way from and to the      *)
(* peer; fin says that the peer has closed its end.                        *)
(***************************************************************************)
SocketInt == {"RECV", "CONNECT", "DISCONNECT", "TIM_OUT"}
PcbState  == {"free", "idle", "synsent", "estab", "closing"}

Socket == [st: PcbState, flags: SUBSET SocketInt, rx: Seq(Packet),
           down: Seq(Packet), up: Seq(Packet), fin: BOOLEAN]

NewSocket(st) == [st |-> st, flags |-> {}, rx |-> <<>>,
                  down |-> <<>>, up |-> <<>>, fin |-> FALSE]

\* e_socketStatus.  "receivied" is declared there and never assigned, and
\* "wrongstatus" is only ever returned for the id NoSocket.
SocketStatus == {"created", "connected", "disconnected", "timeout"}
PhyStatus    == {"unreach", "ipConflict", "linkSuccess", "unknown"}

EthTypeOK ==
  /\ tcp \in [Slots -> Socket]
  /\ socketStates \in [Slots -> SocketStatus]
  /\ recvBuf \in [Slots -> Seq(Packet)]
  /\ phyStatus \in PhyStatus

-----------------------------------------------------------------------------
(* Calls of the program.                                                   *)

FreeSlots(t) == {s \in Slots : t[s].st = "free"}

\* ethIF::createTcpSocket: the results of creating a socket in t and asking it
\* to connect, for a caller whose present id is sock.  WCHNET_SocketCreat may
\* refuse, and the id is then not written; WCHNET_SocketConnect may refuse, and
\* the new socket is then neither connecting nor closed.
createTcpSocket(t, sock) ==
  {[tcp |-> t, socket |-> sock]} \cup
  {[tcp |-> [t EXCEPT ![s] = NewSocket(st)], socket |-> s] :
     s \in FreeSlots(t), st \in {"synsent", "idle"}}

\* The result the program hopes for: a socket, if one is free, that connects.
Connecting(t, r) ==
  FreeSlots(t) # {} => r.socket \in FreeSlots(t) /\ r.tcp[r.socket].st = "synsent"

\* ethIF::closeSocket with TCP_CLOSE_NORMAL.  A connection is closed by a
\* handshake and its slot freed later; a socket without one need not be.
closeSocket(t, s) ==
  CASE s = NoSocket                        -> t
    [] s # NoSocket /\ t[s].st = "closing"  -> t
    [] s # NoSocket /\ t[s].st # "closing"  -> [t EXCEPT ![s] = NewSocket(
         IF t[s].st = "estab" \/ (t[s].st # "free" /\ SlowClose) THEN "closing" ELSE "free")]

\* Does the library take data for socket s?
Sendable(t, s) ==
  /\ s # NoSocket
  /\ t[s].st = "estab" \/ (SynSend /\ t[s].st = "synsent")
  /\ Len(t[s].up) < MaxQueue

\* ethIF::sendPacket: the result of WCHNET_SocketSend is ignored.
sendPacket(t, s, p) ==
  IF Sendable(t, s) THEN [t EXCEPT ![s].up = Append(@, p)] ELSE t

\* ethIF::getSocketStatus and ethIF::getRecvBuf.
getSocketStatus(s) == IF s = NoSocket THEN "wrongstatus" ELSE socketStates[s]
getRecvBuf(s)      == IF s = NoSocket THEN <<>> ELSE recvBuf[s]

-----------------------------------------------------------------------------
(* What the library does inside WCHNET_MainTask.                           *)

Raise(s, f) == [tcp EXCEPT ![s].flags = @ \cup f]

\* The connection of s is gone: its slot is free again, the data already
\* received can still be read and the program is told by flag f.
Lost(s, f) ==
  tcp' = [tcp EXCEPT ![s] = [NewSocket("free") EXCEPT
                               !.flags = tcp[s].flags \cup {f}, !.rx = tcp[s].rx]]

\* The three-way handshake completes.
LibConnect(s) ==
  /\ tcp[s].st = "synsent"
  /\ tcp' = [Raise(s, {"CONNECT"}) EXCEPT ![s].st = "estab"]
  /\ UNCHANGED <<socketStates, recvBuf, phyStatus>>

\* The next packet of the stream arrives.
LibRecv(s) ==
  /\ tcp[s].st = "estab" /\ tcp[s].down # <<>> /\ Head(tcp[s].down).type # "FRAGMENT"
  /\ tcp' = [Raise(s, {"RECV"}) EXCEPT ![s].rx = Append(@, Head(tcp[s].down)),
                                       ![s].down = Tail(tcp[s].down)]
  /\ UNCHANGED <<socketStates, recvBuf, phyStatus>>

\* Only its first bytes do, with or without its id.
LibRecvPart(s) ==
  /\ Split
  /\ tcp[s].st = "estab" /\ tcp[s].down # <<>> /\ Head(tcp[s].down).type # "FRAGMENT"
  /\ LET p == Head(tcp[s].down) IN \E part \in FirstParts(p) :
       tcp' = [Raise(s, {"RECV"}) EXCEPT ![s].rx = Append(@, part),
                                         ![s].down = [@ EXCEPT ![1] = Rest(p)]]
  /\ UNCHANGED <<socketStates, recvBuf, phyStatus>>

\* The rest of it does.  The packet is whole if the first bytes are still unread.
LibRecvRest(s) ==
  /\ Split
  /\ tcp[s].st = "estab" /\ tcp[s].down # <<>> /\ Head(tcp[s].down).type = "FRAGMENT"
  /\ tcp' = [Raise(s, {"RECV"}) EXCEPT
       ![s].rx = IF @ = <<>> THEN <<Head(tcp[s].down)>>
                 ELSE [@ EXCEPT ![Len(tcp[s].rx)].id = Head(tcp[s].down).id],
       ![s].down = Tail(tcp[s].down)]
  /\ UNCHANGED <<socketStates, recvBuf, phyStatus>>

\* The peer's FIN arrives behind all of its data.
LibFin(s) ==
  /\ tcp[s].st = "estab" /\ tcp[s].fin /\ tcp[s].down = <<>>
  /\ Merge \/ tcp[s].flags = {}
  /\ Lost(s, "DISCONNECT")
  /\ UNCHANGED <<socketStates, recvBuf, phyStatus>>

\* A reset, or an answer that stays away for too long.
LibReset(s) ==
  /\ tcp[s].st \in {"synsent", "estab"}
  /\ Merge \/ tcp[s].flags = {}
  /\ \E f \in {"DISCONNECT", "TIM_OUT"} : Lost(s, f)
  /\ UNCHANGED <<socketStates, recvBuf, phyStatus>>

\* A close asked for by the program completes.
LibClosed(s) ==
  /\ tcp[s].st = "closing"
  /\ Lost(s, "DISCONNECT")
  /\ UNCHANGED <<socketStates, recvBuf, phyStatus>>

-----------------------------------------------------------------------------
(* ethIF::mainTask, from the point where WCHNET_MainTask has returned.     *)

\* Wrong: the unused "receivied" for received data.
StateAfter_Received(old, f) ==
  CASE "RECV" \in f -> "receivied" [] f = {} -> old [] OTHER -> "connected"

\* Wrong: a timeout is not looked at.
StateAfter_NoTimeout(old, f) ==
  IF "DISCONNECT" \in f THEN "disconnected"
  ELSE IF f \cap {"RECV", "CONNECT"} # {} THEN "connected" ELSE old

\* ethIF::handleSockInt: the ifs are not exclusive, the last one wins.
StateAfter(old, f) ==
  IF "TIM_OUT" \in f THEN "timeout"
  ELSE IF "DISCONNECT" \in f THEN "disconnected"
  ELSE IF f # {} THEN "connected" ELSE old

\* ethIF::handleGlobalInt, the part for the whole interface: again the last if
\* wins.  A link that goes down raises the interrupt too and is not recorded.
PhyAfter(g) ==
  IF "LINK_UP" \in g THEN "linkSuccess"
  ELSE IF "IP_CONFLI" \in g THEN "ipConflict"
  ELSE IF "UNREACH" \in g THEN "unreach" ELSE phyStatus

\* handleSockInt runs for every socket with an interrupt; for received data
\* dataLoopback copies all of it over what the buffer held.
EthMainTask ==
  /\ \E g \in SUBSET GlobalInts : phyStatus' = PhyAfter(g)
  /\ socketStates' = [s \in Slots |-> StateAfter(socketStates[s], tcp[s].flags)]
  /\ recvBuf' = [s \in Slots |-> IF "RECV" \in tcp[s].flags THEN tcp[s].rx
                                                             ELSE recvBuf[s]]
  /\ tcp' = [s \in Slots |-> [tcp[s] EXCEPT !.flags = {},
                                !.rx = IF "RECV" \in tcp[s].flags THEN <<>> ELSE @]]

\* Wrong: the length is left as it was.
flushRecvBuf_KeepsLength(s) ==
  /\ socketStates' = [socketStates EXCEPT ![s] = "connected"]
  /\ UNCHANGED recvBuf

\* ethIF::flushRecvBuf followed by ethIF::socketBufIsRead, the way
\* tcpClient::flushRecvBuf calls them.
flushRecvBuf(s) ==
  /\ recvBuf' = [recvBuf EXCEPT ![s] = <<>>]
  /\ socketStates' = [socketStates EXCEPT ![s] = "connected"]

\* ethIF::init, before any socket exists.
EthInit ==
  /\ socketStates = [s \in Slots |-> "created"]
  /\ recvBuf = [s \in Slots |-> <<>>]
  /\ phyStatus = "unknown"
=============================================================================
