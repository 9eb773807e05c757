----------------------------- MODULE TcpServer ------------------------------
(***************************************************************************)
(* The TCP server of src/tcpServer.cpp on the Ethernet interface of module *)
(* EthIF.                                                                  *)
(*                                                                         *)
(* A listening socket accepts on its own: the library puts the connection  *)
(* in a free slot and says in its table SocketInf which port it is for.    *)
(* The server learns of the slot when it next asks for data, by a search   *)
(* of that table, and keeps the id from then on.                           *)
(*                                                                         *)
(* Nothing in the repository uses the class.  The application here does    *)
(* with it what the MQTT client does with its socket: in every turn of the *)
(* main loop it asks for data, answers it and flushes it.                  *)
(***************************************************************************)
EXTENDS EthIF, FiniteSets

CONSTANTS
  socketForListen,  \* the slot of the listening socket
  MaxConnections,   \* bound on the connections accepted
  MaxRequests,      \* bound on the requests the peers send
  Patient           \* the connections whose peers read answers before they ask more

ASSUME ServerAssumption ==
  /\ Slots \subseteq Nat /\ socketForListen \in Slots /\ Patient \subseteq Nat
  /\ MaxConnections \in Nat /\ MaxRequests \in Nat

VARIABLES
  pc,         \* the next part of the main loop
  socket,     \* tcpServer::socket
  SocketInf,  \* the slots whose entry names this port and a peer's
  accepted,   \* how many connections were accepted
  conn,       \* which of them each slot has or last had
  asker,      \* per request, the connection it was sent on
  answered    \* the requests whose answer the library has taken

serverVars == <<socket, SocketInf>>
peerVars   == <<accepted, conn, asker>>
vars == <<ethVars, pc, serverVars, peerVars, answered>>

TypeOK ==
  /\ EthTypeOK
  /\ pc \in {"eth", "app"}
  /\ socket \in Slots \cup {NoSocket}
  /\ SocketInf \subseteq Slots
  /\ accepted \in 0..MaxConnections /\ conn \in [Slots -> 0..accepted]
  /\ asker \in Seq(1..accepted) /\ Len(asker) <= MaxRequests
  /\ answered \subseteq 1..Len(asker)

\* The constructor, with createTcpSocketListen.  A listening socket has no
\* connection of its own; "idle" is a socket that does not connect.
Init ==
  /\ EthInit
  /\ tcp = [s \in Slots |-> NewSocket(IF s = socketForListen THEN "idle" ELSE "free")]
  /\ pc = "eth" /\ socket = NoSocket /\ SocketInf = {}
  /\ accepted = 0 /\ conn = [s \in Slots |-> 0] /\ asker = <<>> /\ answered = {}

-----------------------------------------------------------------------------
(* The server and its application.                                         *)

Request(n) == Publish(0, n)
Answer(n)  == Ack("PUBACK", n)

\* Where a search of the table stops: at its first entry of those.
First(entries) == {s \in entries : \A t \in entries : s <= t}

\* Wrong: the listening socket's own entry, which names no peer, is taken.
Search_AnyPeer == First(SocketInf \cup {socketForListen})

\* The first slot that has a connection to this port, if any has.
Search == IF SocketInf = {} THEN {NoSocket} ELSE First(SocketInf)

\* The search in getRecvBuf is made until it has succeeded once.
SocketFor == IF socket = NoSocket THEN Search ELSE {socket}

\* Wrong: the data stays.
flush_Nothing(s) == UNCHANGED recvBuf

\* tcpServer::flushRecvBuf leaves the socket's status alone.
flush(s) == recvBuf' = [recvBuf EXCEPT ![s] = <<>>]

\* tcpServer::sendPacket for each request in the data: the library takes the
\* answers, one after the other, while it has room for them.  The rest is lost,
\* as ethIF::sendPacket ignores the result of WCHNET_SocketSend.
Taken(s, data) ==
  LET room == IF Sendable(tcp, s) THEN MaxQueue - Len(tcp[s].up) ELSE 0 IN
  IF Len(data) < room THEN Len(data) ELSE room

SendAnswers(s, data) ==
  [tcp EXCEPT ![s].up = @ \o [i \in 1..Taken(s, data) |-> Answer(data[i].id)]]

\* getRecvBuf, and for data sendPacket and flushRecvBuf.
AppStep ==
  /\ pc = "app" /\ pc' = "eth"
  /\ socket' \in SocketFor
  /\ LET data == getRecvBuf(socket') IN
     IF data = <<>> THEN UNCHANGED <<tcp, recvBuf, answered>>
     ELSE /\ tcp' = SendAnswers(socket', data)
          /\ answered' = answered \cup {data[i].id : i \in 1..Taken(socket', data)}
          /\ flush(socket')
  /\ UNCHANGED <<socketStates, phyStatus, SocketInf, peerVars>>

EthStep ==
  /\ pc = "eth" /\ pc' = "app"
  /\ EthMainTask
  /\ UNCHANGED <<serverVars, peerVars, answered>>

-----------------------------------------------------------------------------
(* The library and the peers.                                              *)

\* A handshake with a new peer, in any free slot.
Accept(s) ==
  /\ pc = "eth" /\ tcp[s].st = "free" /\ accepted < MaxConnections
  /\ Merge \/ tcp[s].flags = {}
  /\ tcp' = [Raise(s, {"CONNECT"}) EXCEPT ![s].st = "estab"]
  /\ SocketInf' = SocketInf \cup {s}
  /\ accepted' = accepted + 1 /\ conn' = [conn EXCEPT ![s] = accepted']
  /\ UNCHANGED <<socketStates, recvBuf, phyStatus, pc, socket, asker, answered>>

\* What a peer has sent on a connection without having read the answer.
Waiting(s) ==
    Cardinality({n \in DOMAIN asker : asker[n] = conn[s] /\ n \notin answered})
  + Len(tcp[s].up)

\* A patient peer has no more requests waiting than the library has room for.
PeerSends(s) ==
  /\ pc = "eth" /\ tcp[s].st = "estab" /\ ~tcp[s].fin
  /\ conn[s] \in Patient => Waiting(s) < MaxQueue
  /\ Len(asker) < MaxRequests /\ Len(tcp[s].down) < MaxQueue
  /\ asker' = Append(asker, conn[s])
  /\ tcp' = [tcp EXCEPT ![s].down = Append(@, Request(Len(asker')))]
  /\ UNCHANGED <<socketStates, recvBuf, phyStatus, pc, serverVars, accepted, conn, answered>>

PeerReads(s) ==
  /\ pc = "eth" /\ tcp[s].st = "estab" /\ tcp[s].up # <<>>
  /\ tcp' = [tcp EXCEPT ![s].up = Tail(@)]
  /\ UNCHANGED <<socketStates, recvBuf, phyStatus, pc, serverVars, peerVars, answered>>

PeerCloses(s) ==
  /\ pc = "eth" /\ tcp[s].st = "estab" /\ ~tcp[s].fin
  /\ tcp' = [tcp EXCEPT ![s].fin = TRUE]
  /\ UNCHANGED <<socketStates, recvBuf, phyStatus, pc, serverVars, peerVars, answered>>

NetRecv(s) ==
  /\ pc = "eth" /\ LibRecv(s)
  /\ UNCHANGED <<pc, serverVars, peerVars, answered>>

\* The end of a connection.  Its entry in SocketInf may be left as it is.
NetEnd(s) ==
  /\ pc = "eth"
  /\ LibFin(s) \/ LibReset(s)
  /\ SocketInf' \in {SocketInf, SocketInf \ {s}}
  /\ UNCHANGED <<pc, socket, peerVars, answered>>

Next ==
  \/ EthStep \/ AppStep
  \/ \E s \in Slots \ {socketForListen} :
       \/ Accept(s) \/ PeerSends(s) \/ PeerReads(s) \/ PeerCloses(s)
       \/ NetRecv(s) \/ NetEnd(s)

\* The main loop never stops, and data under way arrives.
Fairness ==
  /\ WF_vars(EthStep) /\ WF_vars(AppStep)
  /\ \A s \in Slots \ {socketForListen} : SF_vars(NetRecv(s))

Spec == Init /\ [][Next]_vars /\ Fairness

-----------------------------------------------------------------------------
(* Properties.                                                             *)

\* An answer on its way goes to the peer that asked, once and in the order it
\* asked: the data of a connection that is over is not answered on the next one in
\* its slot, and that of two polls of the library is not mixed.
AnswersAsker ==
  \A s \in Slots : \A i, j \in 1..Len(tcp[s].up) :
    /\ asker[tcp[s].up[i].id] = conn[s]
    /\ i < j => tcp[s].up[i].id < tcp[s].up[j].id

\* A request of a patient peer is answered unless its connection ends: the id that
\* the server found once is that of every later connection, and what an impatient
\* peer leaves behind does not stand in the way.  It is with one slot for
\* connections; with two, a peer whose connection is in the other one waits for
\* ever.  An impatient peer's answer may be lost (see Taken).
Asks(n) ==
  n \in DOMAIN asker /\ \E s \in Slots : conn[s] = asker[n] /\ tcp[s].st = "estab"

Served ==
  \A n \in 1..MaxRequests :
    Asks(n) /\ asker[n] \in Patient ~> n \in answered \/ ~Asks(n)
=============================================================================
