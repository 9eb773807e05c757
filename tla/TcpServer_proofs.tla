-------------------------- MODULE TcpServer_proofs --------------------------
(***************************************************************************)
(* The answers of the TCP server go to the peer that asked (AnswersAsker), *)
(* with any number of slots, if the library reports the loss of a          *)
(* connection in a poll of its own.  The requests are numbered in the      *)
(* order in which they are sent, and in every slot the answers under way,  *)
(* the data the server may yet answer, the data read and the data under    *)
(* way are a queue of requests of the slot's present connection.           *)
(***************************************************************************)
EXTENDS TcpServer, TLAPS

\* Every packet under way to the server is a request, one of so many.
Requests(q, many) == \A i \in 1..Len(q) : q[i].id \in 1..many

Numbered == \A s \in Slots :
  /\ Requests(tcp[s].down, Len(asker)) /\ Requests(tcp[s].rx, Len(asker))
  /\ Requests(recvBuf[s], Len(asker))

\* A connection has a number.
Connected == \A s \in Slots : tcp[s].st = "estab" => conn[s] # 0

TypeInv == TypeOK /\ Numbered /\ Connected

\* The data a server may yet answer: that of its socket, or of any slot if it has
\* not found a socket.  What other slots have received is never looked at.
Answering(s) == IF socket \in {NoSocket, s} THEN recvBuf[s] ELSE <<>>

\* Data is of an established connection, which SocketInf names.
DataIsLive == \A s \in Slots :
  /\ tcp[s].rx # <<>> => "RECV" \in tcp[s].flags
  /\ "RECV" \in tcp[s].flags => tcp[s].st = "estab"
  /\ tcp[s].st = "estab" => s \in SocketInf
  /\ tcp[s].st # "estab" => tcp[s].down = <<>> /\ tcp[s].up = <<>>

\* The server has seen its data before the library goes on.
DataIsSeen == \A s \in Slots : Answering(s) # <<>> => pc = "app" /\ tcp[s].st = "estab"

Rising(q)   == \A i, j \in 1..Len(q) : i < j => q[i].id < q[j].id
Below(p, q) == \A i \in 1..Len(p), j \in 1..Len(q) : p[i].id < q[j].id
Asked(n, a, c)   == n \in 1..Len(a) /\ a[n] = c
AskedOn(q, a, c) == \A i \in 1..Len(q) : Asked(q[i].id, a, c)

\* A slot with these data of connection c, where a tells who asked what.
Queue(d, x, b, u, a, c) ==
  /\ Rising(d) /\ Rising(x) /\ Rising(b) /\ Rising(u)
  /\ Below(u, b) /\ Below(u, x) /\ Below(u, d)
  /\ Below(b, x) /\ Below(b, d) /\ Below(x, d)
  /\ AskedOn(d, a, c) /\ AskedOn(x, a, c) /\ AskedOn(b, a, c) /\ AskedOn(u, a, c)

InOrder == \A s \in Slots :
  Queue(tcp[s].down, tcp[s].rx, Answering(s), tcp[s].up, asker, conn[s])

ServerInv == TypeInv /\ DataIsLive /\ DataIsSeen /\ InOrder

-----------------------------------------------------------------------------
(* Helpers.                                                                *)

LEMMA PacketTypes ==
  \A n \in Nat : /\ Request(n) \in Packet /\ Request(n).id = n
                 /\ Answer(n) \in Packet /\ Answer(n).id = n
BY DEF Request, Answer, Publish, Ack, Packet, Types, AckTypes

LEMMA NewSocketIs ==
  ASSUME NEW st \in PcbState
  PROVE  /\ NewSocket(st) \in Socket /\ NewSocket(st).st = st /\ NewSocket(st).flags = {}
         /\ NewSocket(st).rx = <<>> /\ NewSocket(st).down = <<>> /\ NewSocket(st).up = <<>>
BY DEF NewSocket, Socket

\* What EthMainTask does to a slot.
LEMMA PollIs ==
  ASSUME TypeOK, EthMainTask, NEW s \in Slots
  PROVE  /\ tcp'[s] \in Socket /\ tcp'[s].st = tcp[s].st /\ tcp'[s].flags = {}
         /\ tcp'[s].down = tcp[s].down /\ tcp'[s].up = tcp[s].up
         /\ \/ /\ "RECV" \in tcp[s].flags
               /\ tcp'[s].rx = <<>> /\ recvBuf'[s] = tcp[s].rx
            \/ /\ "RECV" \notin tcp[s].flags
               /\ tcp'[s].rx = tcp[s].rx /\ recvBuf'[s] = recvBuf[s]
<1>1. tcp[s] \in Socket
  BY DEF TypeOK, EthTypeOK
<1>2. CASE "RECV" \in tcp[s].flags
  <2>1. tcp'[s] = [tcp[s] EXCEPT !.flags = {}, !.rx = <<>>] /\ recvBuf'[s] = tcp[s].rx
    BY <1>2 DEF EthMainTask
  <2>2. <<>> \in Seq(Packet) /\ {} \in SUBSET SocketInt
    OBVIOUS
  <2>3. tcp'[s] \in Socket
    BY <1>1, <2>1, <2>2 DEF Socket
  <2> QED
    BY <1>1, <1>2, <2>1, <2>3 DEF Socket
<1>3. CASE "RECV" \notin tcp[s].flags
  <2>1. tcp'[s] = [tcp[s] EXCEPT !.flags = {}] /\ recvBuf'[s] = recvBuf[s]
    BY <1>1, <1>3 DEF EthMainTask, Socket
  <2> QED
    BY <1>1, <1>3, <2>1 DEF Socket
<1> QED
  BY <1>2, <1>3

LEMMA ConcatIs ==
  ASSUME NEW S, NEW p \in Seq(S), NEW q \in Seq(S)
  PROVE  /\ p \o q \in Seq(S) /\ Len(p \o q) = Len(p) + Len(q)
         /\ \A i \in 1..Len(p) : (p \o q)[i] = p[i]
         /\ \A i \in (Len(p) + 1)..(Len(p) + Len(q)) :
              i - Len(p) \in 1..Len(q) /\ (p \o q)[i] = q[i - Len(p)]
<1>1. Len(p) \in Nat /\ Len(q) \in Nat /\ p \o q \in Seq(S) /\ Len(p \o q) = Len(p) + Len(q)
  OBVIOUS
<1>2. ASSUME NEW i \in 1..Len(p) PROVE (p \o q)[i] = p[i]
  BY <1>1
<1>3. ASSUME NEW i \in (Len(p) + 1)..(Len(p) + Len(q))
      PROVE  i - Len(p) \in 1..Len(q) /\ (p \o q)[i] = q[i - Len(p)]
  BY <1>1
<1> QED
  BY <1>1, <1>2, <1>3

\* What the answers to data do to the slot they are sent on.
LEMMA SentIs ==
  ASSUME TypeOK, NEW s \in Slots, NEW data \in Seq(Packet)
  PROVE  LET t == SendAnswers(s, data)
             u == tcp[s].up
             v == t[s].up
         IN  /\ t \in [Slots -> Socket]
             /\ \A n \in Slots : /\ t[n].st = tcp[n].st /\ t[n].flags = tcp[n].flags
                                 /\ t[n].rx = tcp[n].rx /\ t[n].down = tcp[n].down
                                 /\ n # s => t[n].up = tcp[n].up
             /\ Taken(s, data) \in 0..Len(data)
             /\ \E k \in 0..Len(data) :
                  /\ Len(v) = Len(u) + k
                  /\ \A i \in 1..Len(u) : v[i] = u[i]
                  /\ \A i \in (Len(u) + 1)..(Len(u) + k) : v[i].id = data[i - Len(u)].id
<1> DEFINE u == tcp[s].up
           k == Taken(s, data)
           sent == [i \in 1..k |-> Answer(data[i].id)]
           w == u \o sent
           t == SendAnswers(s, data)
<1>1. tcp \in [Slots -> Socket] /\ tcp[s] \in Socket /\ u \in Seq(Packet) /\ Len(u) \in Nat
  BY DEF TypeOK, EthTypeOK, Socket
<1>2. k \in 0..Len(data)
  <2>1. CASE ~Sendable(tcp, s)
    BY <2>1 DEF Taken
  <2>2. CASE Sendable(tcp, s)
    <3>1. MaxQueue - Len(u) \in Nat
      BY <1>1, <2>2, BoundAssumption DEF Sendable
    <3> QED
      BY <2>2, <3>1 DEF Taken
  <2> QED
    BY <2>1, <2>2
<1>3. t = [tcp EXCEPT ![s] = [tcp[s] EXCEPT !.up = w]]
  BY <1>1 DEF SendAnswers
<1> HIDE DEF k
<1>4. ASSUME NEW i \in 1..k
      PROVE  Answer(data[i].id) \in Packet /\ Answer(data[i].id).id = data[i].id
  <2>1. data[i] \in Packet
    BY <1>2
  <2>2. data[i].id \in Nat
    BY <2>1 DEF Packet
  <2> QED
    BY <2>2, PacketTypes
<1>5. sent \in Seq(Packet) /\ Len(sent) = k
  BY <1>2, <1>4
<1>6. \A i \in 1..k : sent[i].id = data[i].id
  BY <1>4
<1> HIDE DEF sent
<1>7. /\ w \in Seq(Packet) /\ Len(w) = Len(u) + k
      /\ \A i \in 1..Len(u) : w[i] = u[i]
      /\ \A i \in (Len(u) + 1)..(Len(u) + k) : i - Len(u) \in 1..k /\ w[i] = sent[i - Len(u)]
  BY <1>1, <1>5, ConcatIs
<1> HIDE DEF u, w, t
<1>8. [tcp[s] EXCEPT !.up = w] \in Socket
  BY <1>1, <1>7 DEF Socket
<1>9. t \in [Slots -> Socket] /\ t[s].up = w
  BY <1>1, <1>3, <1>8 DEF Socket
<1>10. ASSUME NEW n \in Slots
       PROVE  /\ t[n].st = tcp[n].st /\ t[n].flags = tcp[n].flags
              /\ t[n].rx = tcp[n].rx /\ t[n].down = tcp[n].down
              /\ n # s => t[n].up = tcp[n].up
  BY <1>1, <1>3 DEF Socket
<1>11. \A i \in (Len(u) + 1)..(Len(u) + k) : w[i].id = data[i - Len(u)].id
  BY <1>6, <1>7
<1>12. \E m \in 0..Len(data) :
         /\ Len(w) = Len(u) + m
         /\ \A i \in 1..Len(u) : w[i] = u[i]
         /\ \A i \in (Len(u) + 1)..(Len(u) + m) : w[i].id = data[i - Len(u)].id
  BY <1>2, <1>7, <1>11, Zenon
<1> QED
  BY <1>2, <1>9, <1>10, <1>12, Zenon DEF t, u, k

-----------------------------------------------------------------------------
(* The queue of a slot, as its packets move on.                            *)

LEMMA Nothing ==
  \A q, a, c : Rising(<<>>) /\ Below(q, <<>>) /\ Below(<<>>, q) /\ AskedOn(<<>>, a, c)
BY DEF Rising, Below, AskedOn

LEMMA EmptyQueue ==
  ASSUME NEW a, NEW c
  PROVE  Queue(<<>>, <<>>, <<>>, <<>>, a, c)
BY Nothing DEF Queue

\* Read data takes the place of the buffer, which the server has seen, or is
\* none of the server's.
LEMMA QueuePolled ==
  ASSUME NEW d, NEW x, NEW u, NEW a, NEW c, Queue(d, x, <<>>, u, a, c)
  PROVE  Queue(d, <<>>, x, u, a, c) /\ Queue(d, <<>>, <<>>, u, a, c)
BY Nothing DEF Queue

LEMMA QueueDropped ==
  ASSUME NEW d, NEW x, NEW b, NEW u, NEW a, NEW c, Queue(d, x, b, u, a, c)
  PROVE  Queue(d, x, <<>>, u, a, c)
BY Nothing DEF Queue

\* Answers to a first part of the buffer follow the earlier ones.
LEMMA QueueAnswered ==
  ASSUME NEW d \in Seq(Packet), NEW x \in Seq(Packet), NEW b \in Seq(Packet),
         NEW u \in Seq(Packet), NEW v, NEW a, NEW c, Queue(d, x, b, u, a, c),
         NEW k \in 0..Len(b), Len(v) = Len(u) + k,
         \A i \in 1..Len(u) : v[i] = u[i],
         \A i \in (Len(u) + 1)..(Len(u) + k) : v[i].id = b[i - Len(u)].id
  PROVE  Queue(d, x, <<>>, v, a, c)
<1>1. /\ Len(d) \in Nat /\ Len(x) \in Nat /\ Len(b) \in Nat /\ Len(u) \in Nat
  OBVIOUS
<1>2. ASSUME NEW i \in 1..Len(v)
      PROVE  \/ i \in 1..Len(u) /\ v[i].id = u[i].id
             \/ i > Len(u) /\ i - Len(u) \in 1..Len(b) /\ v[i].id = b[i - Len(u)].id
  <2>1. k \in Nat /\ k <= Len(b)
    BY <1>1
  <2>2. CASE i <= Len(u)
    BY <1>1, <2>1, <2>2
  <2>3. CASE i > Len(u)
    <3>1. i \in (Len(u) + 1)..(Len(u) + k) /\ i - Len(u) \in 1..Len(b)
      BY <1>1, <2>1, <2>3
    <3> QED
      BY <2>3, <3>1
  <2> QED
    BY <1>1, <2>1, <2>2, <2>3
<1>3. Rising(v)
  <2> SUFFICES ASSUME NEW i \in 1..Len(v), NEW j \in 1..Len(v), i < j
               PROVE  v[i].id < v[j].id
    BY DEF Rising
  <2>1. CASE i \in 1..Len(u) /\ v[i].id = u[i].id
    BY <1>1, <1>2, <2>1 DEF Queue, Rising, Below
  <2>2. CASE i > Len(u) /\ i - Len(u) \in 1..Len(b) /\ v[i].id = b[i - Len(u)].id
    <3>1. j > Len(u) /\ j - Len(u) \in 1..Len(b) /\ v[j].id = b[j - Len(u)].id
      BY <1>1, <1>2, <2>2
    <3>2. i - Len(u) < j - Len(u)
      BY <1>1
    <3> QED
      BY <2>2, <3>1, <3>2 DEF Queue, Rising
  <2> QED
    BY <1>2, <2>1, <2>2
<1>4. Below(v, x) /\ Below(v, d)
  BY <1>2 DEF Queue, Below
<1>5. AskedOn(v, a, c)
  BY <1>2 DEF Queue, AskedOn
<1> QED
  BY <1>3, <1>4, <1>5, Nothing DEF Queue

LEMMA QueueRead ==
  ASSUME NEW d, NEW x, NEW b, NEW u \in Seq(Packet), NEW a, NEW c,
         Queue(d, x, b, u, a, c), u # <<>>
  PROVE  Queue(d, x, b, Tail(u), a, c)
<1>1. /\ Len(u) \in Nat /\ Len(Tail(u)) = Len(u) - 1
      /\ \A i \in 1..(Len(u) - 1) : i + 1 \in 1..Len(u) /\ Tail(u)[i] = u[i + 1]
  OBVIOUS
<1>2. Rising(Tail(u))
  <2> SUFFICES ASSUME NEW i \in 1..(Len(u) - 1), NEW j \in 1..(Len(u) - 1), i < j
               PROVE  Tail(u)[i].id < Tail(u)[j].id
    BY <1>1 DEF Rising
  <2>1. i + 1 < j + 1
    OBVIOUS
  <2> QED
    BY <1>1, <2>1 DEF Queue, Rising
<1>3. Below(Tail(u), b) /\ Below(Tail(u), x) /\ Below(Tail(u), d) /\ AskedOn(Tail(u), a, c)
  BY <1>1 DEF Queue, Below, AskedOn
<1> QED
  BY <1>2, <1>3 DEF Queue

LEMMA QueueRecv ==
  ASSUME NEW d \in Seq(Packet), NEW x \in Seq(Packet), NEW b, NEW u, NEW a, NEW c,
         Queue(d, x, b, u, a, c), d # <<>>
  PROVE  Queue(Tail(d), Append(x, Head(d)), b, u, a, c)
<1> DEFINE y == Append(x, Head(d))
           e == Tail(d)
<1>1. /\ Len(d) \in Nat /\ Len(e) = Len(d) - 1 /\ Head(d) = d[1] /\ 1 \in 1..Len(d)
      /\ \A i \in 1..Len(e) : i + 1 \in 1..Len(d) /\ 1 < i + 1 /\ e[i] = d[i + 1]
  OBVIOUS
<1>2. /\ Len(x) \in Nat /\ Len(y) = Len(x) + 1
      /\ \A i \in 1..Len(y) : (i \in 1..Len(x) /\ y[i] = x[i]) \/ (i = Len(x) + 1 /\ y[i] = d[1])
  BY <1>1
<1> HIDE DEF y, e
<1>3. Rising(e)
  <2> SUFFICES ASSUME NEW i \in 1..Len(e), NEW j \in 1..Len(e), i < j PROVE e[i].id < e[j].id
    BY DEF Rising
  <2>1. i + 1 < j + 1
    OBVIOUS
  <2> QED
    BY <1>1, <2>1 DEF Queue, Rising
<1>4. Rising(y)
  <2> SUFFICES ASSUME NEW i \in 1..Len(y), NEW j \in 1..Len(y), i < j PROVE y[i].id < y[j].id
    BY DEF Rising
  <2>1. i \in 1..Len(x) /\ y[i] = x[i]
    BY <1>2
  <2> QED
    BY <1>1, <1>2, <2>1 DEF Queue, Rising, Below
<1>5. Below(u, e) /\ Below(b, e) /\ Below(u, y) /\ Below(b, y)
  BY <1>1, <1>2 DEF Queue, Below
<1>6. Below(y, e)
  BY <1>1, <1>2 DEF Queue, Below, Rising
<1>7. AskedOn(e, a, c) /\ AskedOn(y, a, c)
  BY <1>1, <1>2 DEF Queue, AskedOn
<1> QED
  BY <1>3, <1>4, <1>5, <1>6, <1>7 DEF Queue, y, e

\* A later request, on this connection or another.
LEMMA QueueLater ==
  ASSUME NEW d, NEW x, NEW b, NEW u, NEW T, NEW a \in Seq(T), NEW n \in T, NEW c,
         Queue(d, x, b, u, a, c)
  PROVE  Queue(d, x, b, u, Append(a, n), c)
<1>1. /\ Len(a) \in Nat /\ Len(Append(a, n)) = Len(a) + 1
      /\ \A i \in 1..Len(a) : i \in 1..(Len(a) + 1) /\ Append(a, n)[i] = a[i]
  OBVIOUS
<1>2. \A q : AskedOn(q, a, c) => AskedOn(q, Append(a, n), c)
  BY <1>1 DEF AskedOn, Asked
<1> QED
  BY <1>2 DEF Queue

LEMMA QueueSent ==
  ASSUME NEW d \in Seq(Packet), NEW x, NEW b, NEW u, NEW T, NEW a \in Seq(T), NEW c \in T,
         Queue(d, x, b, u, a, c), NEW r \in Packet, r.id = Len(a) + 1
  PROVE  Queue(Append(d, r), x, b, u, Append(a, c), c)
<1> DEFINE e == Append(d, r)
<1>1. /\ Len(d) \in Nat /\ Len(e) = Len(d) + 1
      /\ \A i \in 1..Len(e) : (i \in 1..Len(d) /\ e[i] = d[i]) \/ (i = Len(d) + 1 /\ e[i] = r)
  OBVIOUS
<1>2. /\ Len(a) \in Nat /\ Len(Append(a, c)) = Len(a) + 1
      /\ Len(a) + 1 \in 1..(Len(a) + 1) /\ Append(a, c)[Len(a) + 1] = c
  OBVIOUS
<1>3. Queue(d, x, b, u, Append(a, c), c)
  BY QueueLater
<1> HIDE DEF e
<1>4. AskedOn(e, Append(a, c), c)
  BY <1>1, <1>2, <1>3 DEF Queue, AskedOn, Asked
<1>5. \A q, i : AskedOn(q, a, c) /\ i \in 1..Len(q) => q[i].id < r.id
  BY <1>2 DEF AskedOn, Asked
<1>6. Below(u, e) /\ Below(b, e) /\ Below(x, e)
  BY <1>1, <1>5 DEF Queue, Below
<1>7. Rising(e)
  BY <1>1, <1>5 DEF Queue, Rising
<1> QED
  BY <1>3, <1>4, <1>6, <1>7 DEF Queue, e

-----------------------------------------------------------------------------
(* Types.                                                                  *)

LEMMA InitType == Init => TypeInv
<1> SUFFICES ASSUME Init PROVE TypeInv
  OBVIOUS
<1>1. \A s \in Slots : /\ tcp[s] \in Socket /\ tcp[s].st # "estab"
                       /\ tcp[s].down = <<>> /\ tcp[s].rx = <<>> /\ recvBuf[s] = <<>>
  BY NewSocketIs DEF Init, EthInit, PcbState
<1>2. EthTypeOK
  BY <1>1 DEF Init, EthInit, EthTypeOK, SocketStatus, PhyStatus
<1>3. TypeOK
  BY <1>2, ServerAssumption DEF Init, TypeOK
<1> QED
  BY <1>1, <1>3 DEF TypeInv, Numbered, Requests, Connected

LEMMA EthStepType ==
  ASSUME TypeInv, EthStep
  PROVE  TypeInv'
<1>1. /\ TypeOK /\ EthMainTask /\ pc' = "app"
      /\ UNCHANGED <<socket, SocketInf, accepted, conn, asker, answered>>
  BY DEF EthStep, TypeInv, serverVars, peerVars
<1>2. tcp' \in [Slots -> Socket]
  <2>1. DOMAIN tcp' = Slots /\ tcp' = [s \in Slots |-> tcp'[s]]
    BY <1>1 DEF EthMainTask
  <2> QED
    BY <1>1, <2>1, PollIs
<1>3. socketStates' \in [Slots -> SocketStatus]
  BY <1>1 DEF EthMainTask, TypeOK, EthTypeOK, StateAfter, SocketStatus
<1>4. recvBuf' \in [Slots -> Seq(Packet)]
  BY <1>1 DEF EthMainTask, TypeOK, EthTypeOK, Socket
<1>5. phyStatus' \in PhyStatus
  BY <1>1 DEF EthMainTask, TypeOK, EthTypeOK, PhyAfter, PhyStatus
<1>6. Numbered'
  <2> SUFFICES ASSUME NEW s \in Slots
               PROVE  /\ Requests(tcp'[s].down, Len(asker)) /\ Requests(tcp'[s].rx, Len(asker))
                      /\ Requests(recvBuf'[s], Len(asker))
    BY <1>1 DEF Numbered, Requests
  <2>1. /\ Requests(tcp[s].down, Len(asker)) /\ Requests(tcp[s].rx, Len(asker))
        /\ Requests(recvBuf[s], Len(asker))
    BY DEF TypeInv, Numbered
  <2>2. Requests(<<>>, Len(asker))
    BY DEF Requests
  <2> QED
    BY <1>1, <2>1, <2>2, PollIs
<1>7. Connected'
  BY <1>1, PollIs DEF TypeInv, Connected
<1> QED
  BY <1>1, <1>2, <1>3, <1>4, <1>5, <1>6, <1>7 DEF TypeInv, TypeOK, EthTypeOK

LEMMA AppStepType ==
  ASSUME TypeInv, AppStep
  PROVE  TypeInv'
<1>1. /\ TypeOK /\ tcp \in [Slots -> Socket] /\ recvBuf \in [Slots -> Seq(Packet)]
      /\ pc' = "eth" /\ UNCHANGED <<socketStates, phyStatus, SocketInf, accepted, conn, asker>>
  BY DEF AppStep, TypeInv, TypeOK, EthTypeOK, peerVars
<1>2. socket' \in Slots \cup {NoSocket}
  BY <1>1 DEF AppStep, SocketFor, Search, First, TypeOK
<1>3. CASE getRecvBuf(socket') = <<>>
  <2>1. UNCHANGED <<tcp, recvBuf, answered>>
    BY <1>3 DEF AppStep
  <2> QED
    BY <1>1, <1>2, <2>1 DEF TypeInv, TypeOK, EthTypeOK, Numbered, Requests, Connected
<1>4. CASE getRecvBuf(socket') # <<>>
  <2> DEFINE k == socket'
             data == recvBuf[k]
  <2>1. k \in Slots /\ getRecvBuf(k) = data /\ data \in Seq(Packet)
    BY <1>1, <1>2, <1>4 DEF getRecvBuf
  <2>2. /\ tcp' = SendAnswers(k, data)
        /\ answered' = answered \cup {data[i].id : i \in 1..Taken(k, data)}
        /\ recvBuf' = [recvBuf EXCEPT ![k] = <<>>]
    BY <1>4, <2>1 DEF AppStep, flush
  <2>3. /\ tcp' \in [Slots -> Socket]
        /\ \A n \in Slots : /\ tcp'[n].st = tcp[n].st
                            /\ tcp'[n].rx = tcp[n].rx /\ tcp'[n].down = tcp[n].down
    BY <1>1, <2>1, <2>2, SentIs
  <2>4. recvBuf' \in [Slots -> Seq(Packet)] /\ \A n \in Slots : recvBuf'[n] \in {recvBuf[n], <<>>}
    BY <1>1, <2>1, <2>2
  <2>5. answered' \subseteq 1..Len(asker')
    <3>1. answered \subseteq 1..Len(asker) /\ Taken(k, data) \in 0..Len(data) /\ Len(data) \in Nat
      BY <1>1, <2>1, SentIs DEF TypeOK
    <3>2. \A i \in 1..Len(data) : data[i].id \in 1..Len(asker)
      BY <2>1 DEF TypeInv, Numbered, Requests
    <3>3. 1..Taken(k, data) \subseteq 1..Len(data)
      BY <3>1
    <3>4. {data[i].id : i \in 1..Taken(k, data)} \subseteq 1..Len(asker)
      BY <3>2, <3>3
    <3> HIDE DEF data
    <3> QED
      BY <1>1, <2>2, <3>1, <3>4
  <2>6. Requests(<<>>, Len(asker))
    BY DEF Requests
  <2>7. Numbered'
    BY <1>1, <2>3, <2>4, <2>6 DEF TypeInv, Numbered, Requests
  <2>8. Connected'
    BY <1>1, <2>3 DEF TypeInv, Connected
  <2> QED
    BY <1>1, <1>2, <2>3, <2>4, <2>5, <2>7, <2>8 DEF TypeInv, TypeOK, EthTypeOK
<1> QED
  BY <1>3, <1>4

\* A step outside the program changes one slot.
LEMMA SlotType ==
  ASSUME TypeInv, NEW s \in Slots, tcp' \in [Slots -> Socket],
         \A n \in Slots \ {s} : tcp'[n] = tcp[n],
         UNCHANGED <<socketStates, recvBuf, phyStatus, pc, socket, answered>>,
         SocketInf' \subseteq Slots,
         accepted' \in 0..MaxConnections, conn' \in [Slots -> 0..accepted'],
         \A n \in Slots : conn[n] # 0 => conn'[n] # 0,
         tcp'[s].st = "estab" => conn'[s] # 0,
         asker' \in Seq(1..accepted'), Len(asker) <= Len(asker'), Len(asker') <= MaxRequests,
         Requests(tcp'[s].down, Len(asker')), Requests(tcp'[s].rx, Len(asker'))
  PROVE  TypeInv'
<1>1. Len(asker) \in Nat /\ Len(asker') \in Nat
  BY DEF TypeInv, TypeOK
<1>2. \A q : Requests(q, Len(asker)) => Requests(q, Len(asker'))
  BY <1>1 DEF Requests
<1>3. Numbered'
  <2> SUFFICES ASSUME NEW n \in Slots
               PROVE  /\ Requests(tcp'[n].down, Len(asker')) /\ Requests(tcp'[n].rx, Len(asker'))
                      /\ Requests(recvBuf[n], Len(asker'))
    BY DEF Numbered, Requests
  <2>1. /\ Requests(tcp[n].down, Len(asker)) /\ Requests(tcp[n].rx, Len(asker))
        /\ Requests(recvBuf[n], Len(asker))
    BY DEF TypeInv, Numbered
  <2> QED
    BY <1>2, <2>1
<1>4. Connected'
  BY DEF TypeInv, Connected
<1>5. answered' \subseteq 1..Len(asker')
  BY <1>1 DEF TypeInv, TypeOK
<1> QED
  BY <1>3, <1>4, <1>5 DEF TypeInv, TypeOK, EthTypeOK

-----------------------------------------------------------------------------
(* What the library and the peers do to a slot.                            *)

LEMMA SlotIs ==
  ASSUME TypeOK, NEW s \in Slots, NEW x \in Socket, tcp' = [tcp EXCEPT ![s] = x]
  PROVE  tcp' \in [Slots -> Socket] /\ tcp'[s] = x /\ \A n \in Slots \ {s} : tcp'[n] = tcp[n]
BY DEF TypeOK, EthTypeOK

LEMMA WiderSeq ==
  ASSUME NEW S, NEW T, S \subseteq T, NEW q \in Seq(S)
  PROVE  q \in Seq(T)
<1>1. \A i \in 1..Len(q) : q[i] \in T
  OBVIOUS
<1>2. Len(q) \in Nat /\ q = [i \in 1..Len(q) |-> q[i]]
  OBVIOUS
<1> QED
  BY <1>1, <1>2

LEMMA AcceptIs ==
  ASSUME TypeOK, NEW s \in Slots, Accept(s)
  PROVE  /\ tcp' \in [Slots -> Socket] /\ \A n \in Slots \ {s} : tcp'[n] = tcp[n]
         /\ tcp'[s].st = "estab" /\ tcp'[s].flags = tcp[s].flags \cup {"CONNECT"}
         /\ tcp'[s].rx = tcp[s].rx /\ tcp'[s].down = tcp[s].down /\ tcp'[s].up = tcp[s].up
<1> DEFINE x == [tcp[s] EXCEPT !.flags = @ \cup {"CONNECT"}, !.st = "estab"]
<1>1. tcp \in [Slots -> Socket] /\ tcp[s] \in Socket
  BY DEF TypeOK, EthTypeOK
<1>2. tcp' = [tcp EXCEPT ![s] = x]
  BY <1>1 DEF Accept, Raise
<1>3. tcp[s].flags \cup {"CONNECT"} \in SUBSET SocketInt /\ "estab" \in PcbState
  BY <1>1 DEF Socket, SocketInt, PcbState
<1>4. x \in Socket
  BY <1>1, <1>3 DEF Socket
<1>5. /\ x.st = "estab" /\ x.flags = tcp[s].flags \cup {"CONNECT"}
      /\ x.rx = tcp[s].rx /\ x.down = tcp[s].down /\ x.up = tcp[s].up
  BY <1>1 DEF Socket
<1> HIDE DEF x
<1> QED
  BY <1>2, <1>4, <1>5, SlotIs

LEMMA PeerSendsIs ==
  ASSUME TypeOK, NEW s \in Slots, PeerSends(s)
  PROVE  LET r == Request(Len(asker) + 1) IN
         /\ asker' = Append(asker, conn[s]) /\ Len(asker') = Len(asker) + 1
         /\ Len(asker') <= MaxRequests /\ r \in Packet /\ r.id = Len(asker) + 1
         /\ tcp' \in [Slots -> Socket] /\ \A n \in Slots \ {s} : tcp'[n] = tcp[n]
         /\ tcp'[s].st = tcp[s].st /\ tcp'[s].flags = tcp[s].flags
         /\ tcp'[s].rx = tcp[s].rx /\ tcp'[s].up = tcp[s].up
         /\ tcp'[s].down = Append(tcp[s].down, r)
<1> DEFINE r == Request(Len(asker) + 1)
           x == [tcp[s] EXCEPT !.down = Append(@, r)]
<1>1. /\ tcp \in [Slots -> Socket] /\ tcp[s] \in Socket /\ tcp[s].down \in Seq(Packet)
      /\ asker \in Seq(1..accepted) /\ Len(asker) \in Nat
  BY DEF TypeOK, EthTypeOK, Socket
<1>2. /\ asker' = Append(asker, conn[s]) /\ Len(asker') = Len(asker) + 1
      /\ Len(asker) + 1 <= MaxRequests
  BY <1>1, ServerAssumption DEF PeerSends
<1>3. r \in Packet /\ r.id = Len(asker) + 1
  BY <1>1, PacketTypes
<1>4. tcp' = [tcp EXCEPT ![s] = x]
  BY <1>1, <1>2 DEF PeerSends
<1> HIDE DEF r
<1>5. Append(tcp[s].down, r) \in Seq(Packet)
  BY <1>1, <1>3
<1>6. x \in Socket
  BY <1>1, <1>5 DEF Socket
<1>7. /\ x.st = tcp[s].st /\ x.flags = tcp[s].flags /\ x.rx = tcp[s].rx
      /\ x.up = tcp[s].up /\ x.down = Append(tcp[s].down, r)
  BY <1>1 DEF Socket
<1> HIDE DEF x
<1>8. tcp' \in [Slots -> Socket] /\ tcp'[s] = x /\ \A n \in Slots \ {s} : tcp'[n] = tcp[n]
  BY <1>4, <1>6, SlotIs
<1> QED
  BY <1>2, <1>3, <1>7, <1>8 DEF r

LEMMA PeerReadsIs ==
  ASSUME TypeOK, NEW s \in Slots, PeerReads(s)
  PROVE  /\ tcp' \in [Slots -> Socket] /\ \A n \in Slots \ {s} : tcp'[n] = tcp[n]
         /\ tcp'[s].st = tcp[s].st /\ tcp'[s].flags = tcp[s].flags
         /\ tcp'[s].rx = tcp[s].rx /\ tcp'[s].down = tcp[s].down
         /\ tcp[s].up # <<>> /\ tcp'[s].up = Tail(tcp[s].up)
<1> DEFINE x == [tcp[s] EXCEPT !.up = Tail(@)]
<1>1. tcp \in [Slots -> Socket] /\ tcp[s] \in Socket /\ tcp[s].up \in Seq(Packet)
  BY DEF TypeOK, EthTypeOK, Socket
<1>2. tcp' = [tcp EXCEPT ![s] = x] /\ tcp[s].up # <<>>
  BY <1>1 DEF PeerReads
<1>3. Tail(tcp[s].up) \in Seq(Packet)
  BY <1>1, <1>2
<1>4. x \in Socket
  BY <1>1, <1>3 DEF Socket
<1>5. /\ x.st = tcp[s].st /\ x.flags = tcp[s].flags /\ x.rx = tcp[s].rx
      /\ x.down = tcp[s].down /\ x.up = Tail(tcp[s].up)
  BY <1>1 DEF Socket
<1> HIDE DEF x
<1> QED
  BY <1>2, <1>4, <1>5, SlotIs

LEMMA PeerClosesIs ==
  ASSUME TypeOK, NEW s \in Slots, PeerCloses(s)
  PROVE  /\ tcp' \in [Slots -> Socket] /\ \A n \in Slots \ {s} : tcp'[n] = tcp[n]
         /\ tcp'[s].st = tcp[s].st /\ tcp'[s].flags = tcp[s].flags
         /\ tcp'[s].rx = tcp[s].rx /\ tcp'[s].down = tcp[s].down /\ tcp'[s].up = tcp[s].up
<1> DEFINE x == [tcp[s] EXCEPT !.fin = TRUE]
<1>1. tcp \in [Slots -> Socket] /\ tcp[s] \in Socket
  BY DEF TypeOK, EthTypeOK
<1>2. tcp' = [tcp EXCEPT ![s] = x]
  BY <1>1 DEF PeerCloses
<1>3. x \in Socket
  BY <1>1 DEF Socket
<1>4. /\ x.st = tcp[s].st /\ x.flags = tcp[s].flags /\ x.rx = tcp[s].rx
      /\ x.down = tcp[s].down /\ x.up = tcp[s].up
  BY <1>1 DEF Socket
<1> HIDE DEF x
<1> QED
  BY <1>2, <1>3, <1>4, SlotIs

LEMMA NetRecvIs ==
  ASSUME TypeOK, NEW s \in Slots, NetRecv(s)
  PROVE  /\ tcp' \in [Slots -> Socket] /\ \A n \in Slots \ {s} : tcp'[n] = tcp[n]
         /\ tcp'[s].st = tcp[s].st /\ tcp[s].st = "estab"
         /\ tcp'[s].flags = tcp[s].flags \cup {"RECV"}
         /\ tcp[s].down # <<>> /\ tcp'[s].down = Tail(tcp[s].down)
         /\ tcp'[s].rx = Append(tcp[s].rx, Head(tcp[s].down)) /\ tcp'[s].up = tcp[s].up
<1> DEFINE y == Append(tcp[s].rx, Head(tcp[s].down))
           e == Tail(tcp[s].down)
           f == tcp[s].flags \cup {"RECV"}
           x == [tcp[s] EXCEPT !.flags = f, !.rx = y, !.down = e]
<1>1. /\ tcp \in [Slots -> Socket] /\ tcp[s] \in Socket
      /\ tcp[s].down \in Seq(Packet) /\ tcp[s].rx \in Seq(Packet)
  BY DEF TypeOK, EthTypeOK, Socket
<1>2. tcp[s].st = "estab" /\ tcp[s].down # <<>>
  BY DEF NetRecv, LibRecv
<1>3. tcp' = [tcp EXCEPT ![s] = x]
  BY <1>1 DEF NetRecv, LibRecv, Raise, Socket
<1>4. y \in Seq(Packet) /\ e \in Seq(Packet)
  BY <1>1, <1>2
<1>5. f \in SUBSET SocketInt
  BY <1>1 DEF Socket, SocketInt
<1> HIDE DEF y, e, f
<1>6. x \in Socket
  BY <1>1, <1>4, <1>5 DEF Socket
<1>7. x.st = tcp[s].st /\ x.flags = f /\ x.rx = y /\ x.down = e /\ x.up = tcp[s].up
  BY <1>1 DEF Socket
<1> HIDE DEF x
<1>8. tcp' \in [Slots -> Socket] /\ tcp'[s] = x /\ \A n \in Slots \ {s} : tcp'[n] = tcp[n]
  BY <1>3, <1>6, SlotIs
<1> QED
  BY <1>2, <1>7, <1>8 DEF y, e, f

LEMMA NetEndIs ==
  ASSUME TypeOK, NEW s \in Slots, NetEnd(s)
  PROVE  /\ tcp' \in [Slots -> Socket] /\ \A n \in Slots \ {s} : tcp'[n] = tcp[n]
         /\ Merge \/ tcp[s].flags = {}
         /\ tcp'[s].st = "free" /\ ("RECV" \in tcp'[s].flags => "RECV" \in tcp[s].flags)
         /\ tcp'[s].rx = tcp[s].rx /\ tcp'[s].down = <<>> /\ tcp'[s].up = <<>>
         /\ UNCHANGED <<socketStates, recvBuf, phyStatus>>
<1>1. tcp \in [Slots -> Socket] /\ tcp[s] \in Socket /\ NewSocket("free") \in Socket
  BY NewSocketIs DEF TypeOK, EthTypeOK, PcbState
<1>2. /\ \E f \in {"DISCONNECT", "TIM_OUT"} : Lost(s, f)
      /\ Merge \/ tcp[s].flags = {}
      /\ UNCHANGED <<socketStates, recvBuf, phyStatus>>
  BY DEF NetEnd, LibFin, LibReset
<1>3. PICK f \in {"DISCONNECT", "TIM_OUT"} : Lost(s, f)
  BY <1>2
<1> DEFINE g == tcp[s].flags \cup {f}
           x == [NewSocket("free") EXCEPT !.flags = g, !.rx = tcp[s].rx]
<1>4. tcp' = [tcp EXCEPT ![s] = x]
  BY <1>3 DEF Lost
<1>5. g \in SUBSET SocketInt /\ ("RECV" \in g => "RECV" \in tcp[s].flags)
  BY <1>1 DEF Socket, SocketInt
<1> HIDE DEF g
<1>6. x \in Socket
  BY <1>1, <1>5 DEF Socket
<1>7. x.st = "free" /\ x.flags = g /\ x.rx = tcp[s].rx /\ x.down = <<>> /\ x.up = <<>>
  BY <1>1 DEF Socket, NewSocket
<1> HIDE DEF x
<1>8. tcp' \in [Slots -> Socket] /\ tcp'[s] = x /\ \A n \in Slots \ {s} : tcp'[n] = tcp[n]
  BY <1>4, <1>6, SlotIs
<1> QED
  BY <1>2, <1>5, <1>7, <1>8

\* So the types are kept.
LEMMA AcceptType ==
  ASSUME TypeInv, NEW s \in Slots, Accept(s)
  PROVE  TypeInv'
<1>1. /\ TypeOK /\ SocketInf' = SocketInf \cup {s} /\ accepted < MaxConnections
      /\ accepted' = accepted + 1 /\ conn' = [conn EXCEPT ![s] = accepted']
      /\ UNCHANGED <<socketStates, recvBuf, phyStatus, pc, socket, asker, answered>>
  BY DEF Accept, TypeInv
<1>2. /\ accepted \in Nat /\ SocketInf' \subseteq Slots /\ accepted' \in 0..MaxConnections
      /\ accepted' \in 1..accepted'
  BY <1>1, ServerAssumption DEF TypeOK
<1>3. /\ conn' \in [Slots -> 0..accepted'] /\ conn'[s] # 0
      /\ \A n \in Slots : conn[n] # 0 => conn'[n] # 0
  BY <1>1, <1>2 DEF TypeOK
<1>4. asker' \in Seq(1..accepted') /\ Len(asker) <= Len(asker') /\ Len(asker') <= MaxRequests
  <2>1. asker \in Seq(1..accepted) /\ 1..accepted \subseteq 1..accepted'
    BY <1>1, <1>2 DEF TypeOK
  <2>2. asker \in Seq(1..accepted')
    BY <2>1, WiderSeq
  <2> QED
    BY <1>1, <2>2 DEF TypeOK
<1>5. Requests(tcp'[s].down, Len(asker')) /\ Requests(tcp'[s].rx, Len(asker'))
  BY <1>1, AcceptIs DEF TypeInv, Numbered
<1> QED
  BY <1>1, <1>2, <1>3, <1>4, <1>5, AcceptIs, SlotType

LEMMA PeerSendsType ==
  ASSUME TypeInv, NEW s \in Slots, PeerSends(s)
  PROVE  TypeInv'
<1>1. /\ TypeOK /\ tcp[s].st = "estab"
      /\ UNCHANGED <<socketStates, recvBuf, phyStatus, pc, socket, SocketInf>>
      /\ UNCHANGED <<accepted, conn, answered>>
  BY DEF PeerSends, TypeInv, serverVars
<1>2. /\ asker \in Seq(1..accepted) /\ Len(asker) \in Nat /\ conn[s] \in 1..accepted
      /\ conn \in [Slots -> 0..accepted]
  BY <1>1, ServerAssumption DEF TypeOK, TypeInv, Connected
<1>3. asker' \in Seq(1..accepted') /\ Len(asker) <= Len(asker') /\ Len(asker') <= MaxRequests
  <2>1. asker' = Append(asker, conn[s]) /\ Len(asker') = Len(asker) + 1 /\ Len(asker') <= MaxRequests
    BY <1>1, PeerSendsIs
  <2>2. Append(asker, conn[s]) \in Seq(1..accepted)
    BY <1>2
  <2> QED
    BY <1>1, <1>2, <2>1, <2>2
<1>4. Requests(tcp[s].down, Len(asker)) /\ Requests(tcp[s].rx, Len(asker))
  BY DEF TypeInv, Numbered
<1>5. Requests(tcp'[s].rx, Len(asker'))
  <2>1. tcp'[s].rx = tcp[s].rx /\ Len(asker') = Len(asker) + 1
    BY <1>1, PeerSendsIs
  <2>2. Requests(tcp[s].rx, Len(asker) + 1)
    BY <1>2, <1>4 DEF Requests
  <2> QED
    BY <2>1, <2>2
<1>6. Requests(tcp'[s].down, Len(asker'))
  <2> DEFINE d == tcp[s].down
             r == Request(Len(asker) + 1)
  <2>1. d \in Seq(Packet) /\ tcp'[s].down = Append(d, r) /\ r \in Packet /\ r.id = Len(asker) + 1
    BY <1>1, PeerSendsIs DEF TypeOK, EthTypeOK, Socket
  <2> HIDE DEF d, r
  <2>2. /\ Len(d) \in Nat /\ Len(Append(d, r)) = Len(d) + 1
        /\ \A i \in 1..(Len(d) + 1) :
             (i \in 1..Len(d) /\ Append(d, r)[i] = d[i]) \/ Append(d, r)[i] = r
    BY <2>1
  <2>3. Len(asker') = Len(asker) + 1 /\ Requests(d, Len(asker))
    BY <1>1, <1>4, PeerSendsIs DEF d
  <2> QED
    BY <1>2, <2>1, <2>2, <2>3 DEF Requests
<1>7. SocketInf' \subseteq Slots /\ accepted' \in 0..MaxConnections /\ answered' = answered
  BY <1>1 DEF TypeOK
<1>8. tcp' \in [Slots -> Socket] /\ \A n \in Slots \ {s} : tcp'[n] = tcp[n]
  BY <1>1, PeerSendsIs
<1>9. /\ conn' \in [Slots -> 0..accepted'] /\ conn'[s] # 0
      /\ \A n \in Slots : conn[n] # 0 => conn'[n] # 0
  BY <1>1, <1>2
<1> QED
  BY <1>1, <1>3, <1>5, <1>6, <1>7, <1>8, <1>9, SlotType

\* The steps that add neither a connection nor a request.
LEMMA KeptType ==
  ASSUME TypeInv, NEW s \in Slots, tcp' \in [Slots -> Socket],
         \A n \in Slots \ {s} : tcp'[n] = tcp[n],
         UNCHANGED <<socketStates, recvBuf, phyStatus, pc, socket, answered, peerVars>>,
         SocketInf' \subseteq SocketInf, tcp'[s].st = "estab" => tcp[s].st = "estab",
         Requests(tcp'[s].down, Len(asker)), Requests(tcp'[s].rx, Len(asker))
  PROVE  TypeInv'
<1>1. /\ accepted' = accepted /\ conn' = conn /\ asker' = asker
      /\ UNCHANGED <<socketStates, recvBuf, phyStatus, pc, socket, answered>>
  BY DEF peerVars
<1>2. /\ TypeOK /\ SocketInf' \subseteq Slots /\ accepted \in 0..MaxConnections
      /\ conn \in [Slots -> 0..accepted] /\ asker \in Seq(1..accepted)
      /\ Len(asker) <= Len(asker) /\ Len(asker) <= MaxRequests
  BY DEF TypeInv, TypeOK
<1>3. tcp'[s].st = "estab" => conn[s] # 0
  BY DEF TypeInv, Connected
<1> QED
  BY <1>1, <1>2, <1>3, SlotType

LEMMA PeerReadsType ==
  ASSUME TypeInv, NEW s \in Slots, PeerReads(s)
  PROVE  TypeInv'
<1>1. TypeOK /\ UNCHANGED <<socketStates, recvBuf, phyStatus, pc, socket, answered, peerVars>>
  BY DEF PeerReads, TypeInv, serverVars
<1>2. SocketInf' \subseteq SocketInf
  BY DEF PeerReads, serverVars
<1>3. Requests(tcp'[s].down, Len(asker)) /\ Requests(tcp'[s].rx, Len(asker))
  BY <1>1, PeerReadsIs DEF TypeInv, Numbered
<1> QED
  BY <1>1, <1>2, <1>3, PeerReadsIs, KeptType

LEMMA PeerClosesType ==
  ASSUME TypeInv, NEW s \in Slots, PeerCloses(s)
  PROVE  TypeInv'
<1>1. TypeOK /\ UNCHANGED <<socketStates, recvBuf, phyStatus, pc, socket, answered, peerVars>>
  BY DEF PeerCloses, TypeInv, serverVars
<1>2. SocketInf' \subseteq SocketInf
  BY DEF PeerCloses, serverVars
<1>3. Requests(tcp'[s].down, Len(asker)) /\ Requests(tcp'[s].rx, Len(asker))
  BY <1>1, PeerClosesIs DEF TypeInv, Numbered
<1> QED
  BY <1>1, <1>2, <1>3, PeerClosesIs, KeptType

LEMMA NetRecvType ==
  ASSUME TypeInv, NEW s \in Slots, NetRecv(s)
  PROVE  TypeInv'
<1>1. TypeOK /\ UNCHANGED <<socketStates, recvBuf, phyStatus, pc, socket, answered, peerVars>>
  BY DEF NetRecv, LibRecv, TypeInv, serverVars
<1>2. SocketInf' \subseteq SocketInf
  BY DEF NetRecv, serverVars
<1>3. Requests(tcp'[s].down, Len(asker)) /\ Requests(tcp'[s].rx, Len(asker))
  <2> DEFINE d == tcp[s].down
             x == tcp[s].rx
  <2>1. d \in Seq(Packet) /\ x \in Seq(Packet) /\ d # <<>>
    BY <1>1, NetRecvIs DEF TypeOK, EthTypeOK, Socket
  <2>2. tcp'[s].down = Tail(d) /\ tcp'[s].rx = Append(x, Head(d))
    BY <1>1, NetRecvIs
  <2>3. Requests(d, Len(asker)) /\ Requests(x, Len(asker))
    BY DEF TypeInv, Numbered
  <2> HIDE DEF d, x
  <2>4. /\ Len(d) \in Nat /\ Len(Tail(d)) = Len(d) - 1 /\ Head(d) = d[1] /\ 1 \in 1..Len(d)
        /\ \A i \in 1..(Len(d) - 1) : i + 1 \in 1..Len(d) /\ Tail(d)[i] = d[i + 1]
    BY <2>1
  <2>5. /\ Len(x) \in Nat /\ Len(Append(x, Head(d))) = Len(x) + 1
        /\ \A i \in 1..(Len(x) + 1) : \/ i \in 1..Len(x) /\ Append(x, Head(d))[i] = x[i]
                                      \/ Append(x, Head(d))[i] = d[1]
    BY <2>1, <2>4
  <2> QED
    BY <2>2, <2>3, <2>4, <2>5 DEF Requests
<1> QED
  BY <1>1, <1>2, <1>3, NetRecvIs, KeptType

LEMMA NetEndType ==
  ASSUME TypeInv, NEW s \in Slots, NetEnd(s)
  PROVE  TypeInv'
<1>1. TypeOK /\ UNCHANGED <<socketStates, recvBuf, phyStatus, pc, socket, answered, peerVars>>
  BY NetEndIs DEF NetEnd, TypeInv
<1>2. SocketInf' \subseteq SocketInf
  BY DEF NetEnd
<1>3. Requests(tcp'[s].down, Len(asker)) /\ Requests(tcp'[s].rx, Len(asker))
  BY <1>1, NetEndIs DEF TypeInv, Numbered, Requests
<1> QED
  BY <1>1, <1>2, <1>3, NetEndIs, KeptType

LEMMA NextType ==
  ASSUME TypeInv, [Next]_vars
  PROVE  TypeInv'
<1>1. CASE UNCHANGED vars
  BY <1>1 DEF vars, ethVars, serverVars, peerVars, TypeInv, TypeOK, EthTypeOK, Numbered, Requests,
              Connected
<1>2. CASE EthStep
  BY <1>2, EthStepType
<1>3. CASE AppStep
  BY <1>3, AppStepType
<1>4. ASSUME NEW s \in Slots,
             \/ Accept(s) \/ PeerSends(s) \/ PeerReads(s) \/ PeerCloses(s)
             \/ NetRecv(s) \/ NetEnd(s)
      PROVE  TypeInv'
  BY <1>4, AcceptType, PeerSendsType, PeerReadsType, PeerClosesType, NetRecvType, NetEndType
<1> QED
  BY <1>1, <1>2, <1>3, <1>4 DEF Next

\* The server, the interface under it and the peers stay within their types: the
\* requests answered are requests that were sent, and none beyond their bound.
THEOREM TypeCorrect == Spec => []TypeOK
<1>1. TypeInv => TypeOK
  BY DEF TypeInv
<1> QED
  BY InitType, NextType, <1>1, PTL DEF Spec

-----------------------------------------------------------------------------
(* The answers.                                                            *)

LEMMA InitServer == Init => ServerInv
<1> SUFFICES ASSUME Init PROVE ServerInv
  OBVIOUS
<1>1. \A s \in Slots : /\ tcp[s].st # "estab" /\ tcp[s].flags = {} /\ tcp[s].rx = <<>>
                       /\ tcp[s].down = <<>> /\ tcp[s].up = <<>> /\ Answering(s) = <<>>
  BY NewSocketIs DEF Init, EthInit, PcbState, Answering
<1>2. DataIsLive /\ DataIsSeen
  BY <1>1 DEF DataIsLive, DataIsSeen
<1>3. InOrder
  BY <1>1, EmptyQueue DEF InOrder
<1> QED
  BY <1>2, <1>3, InitType DEF ServerInv

LEMMA EthStepServer ==
  ASSUME ServerInv, EthStep
  PROVE  ServerInv'
<1>1. /\ TypeOK /\ EthMainTask /\ pc = "eth" /\ pc' = "app" /\ TypeInv'
      /\ UNCHANGED <<socket, SocketInf, accepted, conn, asker, answered>>
  BY EthStepType DEF EthStep, ServerInv, TypeInv, serverVars, peerVars
<1>2. ASSUME NEW s \in Slots
      PROVE  /\ tcp'[s].st = tcp[s].st /\ tcp'[s].flags = {} /\ tcp'[s].rx = <<>>
             /\ tcp'[s].down = tcp[s].down /\ tcp'[s].up = tcp[s].up
             /\ Answering(s)' \in {<<>>, tcp[s].rx} /\ Answering(s) = <<>>
  <2>1. Answering(s) = <<>>
    BY <1>1 DEF ServerInv, DataIsSeen
  <2>2. CASE "RECV" \in tcp[s].flags
    BY <1>1, <2>1, <2>2, PollIs DEF Answering
  <2>3. CASE "RECV" \notin tcp[s].flags
    <3>1. tcp[s].rx = <<>>
      BY <2>3 DEF ServerInv, DataIsLive
    <3>2. Answering(s)' = Answering(s)
      BY <1>1, <2>3, PollIs DEF Answering
    <3> QED
      BY <1>1, <2>1, <2>3, <3>1, <3>2, PollIs
  <2> QED
    BY <2>2, <2>3
<1>3. DataIsLive'
  BY <1>1, <1>2 DEF ServerInv, DataIsLive
<1>4. DataIsSeen'
  BY <1>1, <1>2 DEF ServerInv, DataIsLive, DataIsSeen
<1>5. InOrder'
  <2> SUFFICES ASSUME NEW s \in Slots
               PROVE  Queue(tcp'[s].down, tcp'[s].rx, Answering(s)', tcp'[s].up, asker, conn[s])
    BY <1>1 DEF InOrder
  <2>1. Queue(tcp[s].down, tcp[s].rx, <<>>, tcp[s].up, asker, conn[s])
    BY <1>2 DEF ServerInv, InOrder
  <2> QED
    BY <1>2, <2>1, QueuePolled
<1> QED
  BY <1>1, <1>3, <1>4, <1>5 DEF ServerInv

\* The application leaves no data that it may yet answer.
LEMMA AppStepServer ==
  ASSUME ServerInv, AppStep
  PROVE  ServerInv'
<1>1. /\ TypeOK /\ tcp \in [Slots -> Socket] /\ recvBuf \in [Slots -> Seq(Packet)]
      /\ socket \in Slots \cup {NoSocket} /\ SocketInf \subseteq Slots /\ TypeInv'
      /\ pc' = "eth" /\ UNCHANGED <<socketStates, phyStatus, SocketInf, accepted, conn, asker>>
  BY AppStepType DEF AppStep, ServerInv, TypeInv, TypeOK, EthTypeOK, peerVars
<1>2. /\ socket' \in Slots \cup {NoSocket} /\ (socket # NoSocket => socket' = socket)
      /\ (socket' = NoSocket => SocketInf = {})
  <2>1. CASE socket = NoSocket
    BY <1>1, <2>1, SlotsAssumption DEF AppStep, SocketFor, Search, First
  <2>2. CASE socket # NoSocket
    BY <1>1, <2>2 DEF AppStep, SocketFor
  <2> QED
    BY <2>1, <2>2
<1>3. \A s \in Slots : s = socket' => Answering(s) = recvBuf[s]
  BY <1>2 DEF Answering
<1>4. CASE getRecvBuf(socket') = <<>>
  <2>1. UNCHANGED <<tcp, recvBuf, answered>>
    BY <1>4 DEF AppStep
  <2>2. \A s \in Slots : Answering(s)' = <<>>
    <3> SUFFICES ASSUME NEW s \in Slots, Answering(s)' # <<>> PROVE FALSE
      OBVIOUS
    <3>1. CASE socket' = NoSocket
      <4>1. Answering(s) # <<>>
        BY <1>2, <2>1, <3>1, SlotsAssumption DEF Answering
      <4> QED
        BY <1>2, <3>1, <4>1 DEF ServerInv, DataIsSeen, DataIsLive
    <3>2. CASE socket' # NoSocket
      BY <1>4, <2>1, <3>2 DEF Answering, getRecvBuf
    <3> QED
      BY <3>1, <3>2
  <2>3. DataIsLive' /\ DataIsSeen'
    BY <1>1, <2>1, <2>2 DEF ServerInv, DataIsLive, DataIsSeen
  <2>4. InOrder'
    BY <1>1, <2>1, <2>2, QueueDropped DEF ServerInv, InOrder
  <2> QED
    BY <1>1, <2>3, <2>4 DEF ServerInv
<1>5. CASE getRecvBuf(socket') # <<>>
  <2> DEFINE k == socket'
             data == recvBuf[k]
  <2>1. k \in Slots /\ getRecvBuf(k) = data /\ data \in Seq(Packet) /\ data # <<>>
    BY <1>1, <1>2, <1>5 DEF getRecvBuf
  <2>2. Answering(k) = data /\ tcp[k].st = "estab"
    BY <1>3, <2>1 DEF ServerInv, DataIsSeen
  <2>3. tcp' = SendAnswers(k, data) /\ recvBuf' = [recvBuf EXCEPT ![k] = <<>>]
    BY <1>5, <2>1 DEF AppStep, flush
  <2>4. \A n \in Slots : /\ tcp'[n].st = tcp[n].st /\ tcp'[n].flags = tcp[n].flags
                         /\ tcp'[n].rx = tcp[n].rx /\ tcp'[n].down = tcp[n].down
                         /\ n # k => tcp'[n].up = tcp[n].up
    BY <1>1, <2>1, <2>3, SentIs
  <2>5. \A n \in Slots : Answering(n)' = <<>>
    BY <1>1, <2>1, <2>3, SlotsAssumption DEF Answering
  <2>6. DataIsLive'
    <3>1. \A n \in Slots : tcp[n].st # "estab" => tcp'[n].up = tcp[n].up
      BY <2>2, <2>4
    <3> QED
      BY <1>1, <2>4, <3>1 DEF ServerInv, DataIsLive
  <2>7. DataIsSeen'
    BY <2>5 DEF DataIsSeen
  <2>8. \A n \in Slots : Queue(tcp[n].down, tcp[n].rx, Answering(n), tcp[n].up, asker, conn[n])
    BY DEF ServerInv, InOrder
  <2>9. Queue(tcp[k].down, tcp[k].rx, <<>>, tcp'[k].up, asker, conn[k])
    <3> DEFINE d == tcp[k].down
               x == tcp[k].rx
               u == tcp[k].up
               v == tcp'[k].up
    <3>1. d \in Seq(Packet) /\ x \in Seq(Packet) /\ u \in Seq(Packet)
      BY <1>1, <2>1 DEF Socket
    <3>2. PICK j \in 0..Len(data) :
            /\ Len(v) = Len(u) + j /\ \A i \in 1..Len(u) : v[i] = u[i]
            /\ \A i \in (Len(u) + 1)..(Len(u) + j) : v[i].id = data[i - Len(u)].id
      BY <1>1, <2>1, <2>3, SentIs
    <3>3. Queue(d, x, data, u, asker, conn[k])
      BY <2>1, <2>2, <2>8
    <3> HIDE DEF d, x, u, v, data, k
    <3>4. Queue(d, x, <<>>, v, asker, conn[k])
      BY <2>1, <3>1, <3>2, <3>3, QueueAnswered
    <3> QED
      BY <3>4 DEF d, x, u, v
  <2>10. InOrder'
    <3> SUFFICES ASSUME NEW n \in Slots
                 PROVE  Queue(tcp'[n].down, tcp'[n].rx, <<>>, tcp'[n].up, asker, conn[n])
      BY <1>1, <2>5 DEF InOrder
    <3>1. CASE n = k
      BY <2>1, <2>4, <2>9, <3>1
    <3>2. CASE n # k
      BY <2>4, <2>8, <3>2, QueueDropped
    <3> QED
      BY <3>1, <3>2
  <2> QED
    BY <1>1, <2>6, <2>7, <2>10 DEF ServerInv
<1> QED
  BY <1>4, <1>5

\* A step outside the program is made when the server has seen its data.
LEMMA SlotServer ==
  ASSUME ServerInv, TypeInv', NEW s \in Slots, pc = "eth", UNCHANGED <<recvBuf, socket>>,
         \A n \in Slots \ {s} :
           /\ tcp'[n] = tcp[n] /\ conn'[n] = conn[n]
           /\ Queue(tcp[n].down, tcp[n].rx, <<>>, tcp[n].up, asker', conn[n]),
         SocketInf \ {s} \subseteq SocketInf',
         /\ tcp'[s].rx # <<>> => "RECV" \in tcp'[s].flags
         /\ "RECV" \in tcp'[s].flags => tcp'[s].st = "estab"
         /\ tcp'[s].st = "estab" => s \in SocketInf'
         /\ tcp'[s].st # "estab" => tcp'[s].down = <<>> /\ tcp'[s].up = <<>>,
         Queue(tcp'[s].down, tcp'[s].rx, <<>>, tcp'[s].up, asker', conn'[s])
  PROVE  ServerInv'
<1>1. \A n \in Slots : Answering(n)' = <<>>
  BY DEF ServerInv, DataIsSeen, Answering
<1>2. DataIsLive'
  BY DEF ServerInv, DataIsLive
<1>3. DataIsSeen' /\ InOrder'
  BY <1>1 DEF DataIsSeen, InOrder
<1> QED
  BY <1>2, <1>3 DEF ServerInv

LEMMA QueuesNow ==
  ASSUME ServerInv, pc = "eth"
  PROVE  \A n \in Slots : Queue(tcp[n].down, tcp[n].rx, <<>>, tcp[n].up, asker, conn[n])
BY DEF ServerInv, DataIsSeen, InOrder

\* A new connection finds nothing of an earlier one in its slot.
LEMMA AcceptServer ==
  ASSUME ~Merge, ServerInv, NEW s \in Slots, Accept(s)
  PROVE  ServerInv'
<1>1. /\ TypeInv /\ TypeOK /\ TypeInv' /\ pc = "eth" /\ tcp[s].st = "free" /\ tcp[s].flags = {}
      /\ SocketInf' = SocketInf \cup {s} /\ conn' = [conn EXCEPT ![s] = accepted']
      /\ UNCHANGED <<recvBuf, socket, asker>>
  BY AcceptType DEF ServerInv, TypeInv, Accept
<1>2. /\ tcp'[s].st = "estab" /\ tcp'[s].flags = {"CONNECT"} /\ tcp'[s].rx = <<>>
      /\ tcp'[s].down = <<>> /\ tcp'[s].up = <<>>
  BY <1>1, AcceptIs DEF ServerInv, DataIsLive
<1>3. Queue(tcp'[s].down, tcp'[s].rx, <<>>, tcp'[s].up, asker', conn'[s])
  BY <1>2, EmptyQueue
<1>4. \A n \in Slots \ {s} :
        /\ tcp'[n] = tcp[n] /\ conn'[n] = conn[n]
        /\ Queue(tcp[n].down, tcp[n].rx, <<>>, tcp[n].up, asker', conn[n])
  BY <1>1, AcceptIs, QueuesNow DEF TypeOK
<1> QED
  BY <1>1, <1>2, <1>3, <1>4, SlotServer

LEMMA PeerSendsServer ==
  ASSUME ServerInv, NEW s \in Slots, PeerSends(s)
  PROVE  ServerInv'
<1> DEFINE r == Request(Len(asker) + 1)
           c == conn[s]
<1>1. /\ TypeInv /\ TypeOK /\ TypeInv' /\ pc = "eth" /\ tcp[s].st = "estab"
      /\ UNCHANGED <<recvBuf, socket, SocketInf, conn>>
  BY PeerSendsType DEF ServerInv, TypeInv, PeerSends, serverVars
<1>2. /\ asker' = Append(asker, c) /\ r \in Packet /\ r.id = Len(asker) + 1
      /\ tcp'[s].st = tcp[s].st /\ tcp'[s].flags = tcp[s].flags /\ tcp'[s].rx = tcp[s].rx
      /\ tcp'[s].up = tcp[s].up /\ tcp'[s].down = Append(tcp[s].down, r)
      /\ \A n \in Slots \ {s} : tcp'[n] = tcp[n]
  BY <1>1, PeerSendsIs
<1>3. /\ asker \in Seq(1..accepted) /\ c \in 1..accepted /\ tcp[s].down \in Seq(Packet)
  <2>1. asker \in Seq(1..accepted) /\ accepted \in Nat /\ c \in 0..accepted
    BY <1>1, ServerAssumption DEF TypeOK
  <2>2. c # 0
    BY <1>1 DEF TypeInv, Connected
  <2>3. tcp[s].down \in Seq(Packet)
    BY <1>1 DEF TypeOK, EthTypeOK, Socket
  <2> QED
    BY <2>1, <2>2, <2>3
<1> HIDE DEF r, c
<1>4. Queue(tcp[s].down, tcp[s].rx, <<>>, tcp[s].up, asker, c)
  BY <1>1, QueuesNow DEF c
<1>5. Queue(tcp'[s].down, tcp'[s].rx, <<>>, tcp'[s].up, asker', conn'[s])
  <2>1. Queue(Append(tcp[s].down, r), tcp[s].rx, <<>>, tcp[s].up, Append(asker, c), c)
    BY <1>2, <1>3, <1>4, QueueSent
  <2> QED
    BY <1>1, <1>2, <2>1 DEF c
<1>6. ASSUME NEW n \in Slots \ {s}
      PROVE  /\ tcp'[n] = tcp[n] /\ conn'[n] = conn[n]
             /\ Queue(tcp[n].down, tcp[n].rx, <<>>, tcp[n].up, asker', conn[n])
  <2>1. Queue(tcp[n].down, tcp[n].rx, <<>>, tcp[n].up, asker, conn[n])
    BY <1>1, QueuesNow
  <2>2. Queue(tcp[n].down, tcp[n].rx, <<>>, tcp[n].up, Append(asker, c), conn[n])
    BY <1>3, <2>1, QueueLater
  <2> QED
    BY <1>1, <1>2, <2>2
<1>7. /\ tcp'[s].rx # <<>> => "RECV" \in tcp'[s].flags
      /\ "RECV" \in tcp'[s].flags => tcp'[s].st = "estab"
      /\ tcp'[s].st = "estab" => s \in SocketInf'
      /\ tcp'[s].st # "estab" => tcp'[s].down = <<>> /\ tcp'[s].up = <<>>
  BY <1>1, <1>2 DEF ServerInv, DataIsLive
<1> QED
  BY <1>1, <1>5, <1>6, <1>7, SlotServer

\* The steps that add neither a connection nor a request.
LEMMA KeptServer ==
  ASSUME ServerInv, TypeInv', NEW s \in Slots, pc = "eth",
         UNCHANGED <<recvBuf, socket, peerVars>>,
         \A n \in Slots \ {s} : tcp'[n] = tcp[n],
         SocketInf \ {s} \subseteq SocketInf',
         /\ tcp'[s].rx # <<>> => "RECV" \in tcp'[s].flags
         /\ "RECV" \in tcp'[s].flags => tcp'[s].st = "estab"
         /\ tcp'[s].st = "estab" => s \in SocketInf'
         /\ tcp'[s].st # "estab" => tcp'[s].down = <<>> /\ tcp'[s].up = <<>>,
         Queue(tcp'[s].down, tcp'[s].rx, <<>>, tcp'[s].up, asker, conn[s])
  PROVE  ServerInv'
<1>1. conn' = conn /\ asker' = asker
  BY DEF peerVars
<1>2. \A n \in Slots \ {s} :
        /\ tcp'[n] = tcp[n] /\ conn'[n] = conn[n]
        /\ Queue(tcp[n].down, tcp[n].rx, <<>>, tcp[n].up, asker', conn[n])
  BY <1>1, QueuesNow
<1> QED
  BY <1>1, <1>2, SlotServer

LEMMA PeerReadsServer ==
  ASSUME ServerInv, NEW s \in Slots, PeerReads(s)
  PROVE  ServerInv'
<1>1. /\ TypeInv /\ TypeOK /\ TypeInv' /\ pc = "eth" /\ tcp[s].up \in Seq(Packet)
      /\ tcp[s].st = "estab" /\ SocketInf' = SocketInf /\ UNCHANGED <<recvBuf, socket, peerVars>>
  BY PeerReadsType
     DEF ServerInv, TypeInv, TypeOK, EthTypeOK, Socket, PeerReads, serverVars
<1>2. Queue(tcp[s].down, tcp[s].rx, <<>>, Tail(tcp[s].up), asker, conn[s])
  BY <1>1, PeerReadsIs, QueuesNow, QueueRead
<1>3. Queue(tcp'[s].down, tcp'[s].rx, <<>>, tcp'[s].up, asker, conn[s])
  BY <1>1, <1>2, PeerReadsIs
<1>4. /\ tcp'[s].rx # <<>> => "RECV" \in tcp'[s].flags
      /\ tcp'[s].st = "estab" /\ s \in SocketInf'
  BY <1>1, PeerReadsIs DEF ServerInv, DataIsLive
<1> QED
  BY <1>1, <1>3, <1>4, PeerReadsIs, KeptServer

LEMMA PeerClosesServer ==
  ASSUME ServerInv, NEW s \in Slots, PeerCloses(s)
  PROVE  ServerInv'
<1>1. /\ TypeInv /\ TypeOK /\ TypeInv' /\ pc = "eth" /\ tcp[s].st = "estab"
      /\ SocketInf' = SocketInf /\ UNCHANGED <<recvBuf, socket, peerVars>>
  BY PeerClosesType DEF ServerInv, TypeInv, PeerCloses, serverVars
<1>2. Queue(tcp'[s].down, tcp'[s].rx, <<>>, tcp'[s].up, asker, conn[s])
  BY <1>1, PeerClosesIs, QueuesNow
<1>3. /\ tcp'[s].rx # <<>> => "RECV" \in tcp'[s].flags
      /\ tcp'[s].st = "estab" /\ s \in SocketInf'
  BY <1>1, PeerClosesIs DEF ServerInv, DataIsLive
<1> QED
  BY <1>1, <1>2, <1>3, PeerClosesIs, KeptServer

LEMMA NetRecvServer ==
  ASSUME ServerInv, NEW s \in Slots, NetRecv(s)
  PROVE  ServerInv'
<1>1. /\ TypeInv /\ TypeOK /\ TypeInv' /\ pc = "eth" /\ tcp[s].st = "estab"
      /\ tcp[s].down \in Seq(Packet) /\ tcp[s].rx \in Seq(Packet)
      /\ SocketInf' = SocketInf /\ UNCHANGED <<recvBuf, socket, peerVars>>
  BY NetRecvType
     DEF ServerInv, TypeInv, TypeOK, EthTypeOK, Socket, NetRecv, LibRecv, serverVars
<1>2. Queue(Tail(tcp[s].down), Append(tcp[s].rx, Head(tcp[s].down)), <<>>, tcp[s].up,
            asker, conn[s])
  BY <1>1, NetRecvIs, QueuesNow, QueueRecv
<1>3. Queue(tcp'[s].down, tcp'[s].rx, <<>>, tcp'[s].up, asker, conn[s])
  BY <1>1, <1>2, NetRecvIs
<1>4. "RECV" \in tcp'[s].flags /\ tcp'[s].st = "estab" /\ s \in SocketInf'
  BY <1>1, NetRecvIs DEF ServerInv, DataIsLive
<1> QED
  BY <1>1, <1>3, <1>4, NetRecvIs, KeptServer

\* A connection that ends leaves no data in its slot: the library has reported
\* all of it before.
LEMMA NetEndServer ==
  ASSUME ~Merge, ServerInv, NEW s \in Slots, NetEnd(s)
  PROVE  ServerInv'
<1>1. /\ TypeInv /\ TypeOK /\ TypeInv' /\ pc = "eth" /\ SocketInf \ {s} \subseteq SocketInf'
      /\ UNCHANGED <<socket, peerVars>>
  BY NetEndType DEF ServerInv, TypeInv, NetEnd
<1>2. /\ tcp[s].flags = {} /\ tcp[s].rx = <<>> /\ recvBuf' = recvBuf
  BY <1>1, NetEndIs DEF ServerInv, DataIsLive
<1>3. /\ tcp'[s].st = "free" /\ "RECV" \notin tcp'[s].flags /\ tcp'[s].rx = <<>>
      /\ tcp'[s].down = <<>> /\ tcp'[s].up = <<>>
      /\ \A n \in Slots \ {s} : tcp'[n] = tcp[n]
  BY <1>1, <1>2, NetEndIs
<1>4. Queue(tcp'[s].down, tcp'[s].rx, <<>>, tcp'[s].up, asker, conn[s])
  BY <1>3, EmptyQueue
<1> QED
  BY <1>1, <1>2, <1>3, <1>4, KeptServer

LEMMA NextServer ==
  ASSUME ~Merge, ServerInv, [Next]_vars
  PROVE  ServerInv'
<1>1. CASE UNCHANGED vars
  <2>1. TypeInv'
    BY <1>1, NextType DEF ServerInv
  <2>2. UNCHANGED <<tcp, recvBuf, pc, socket, SocketInf, conn, asker>>
    BY <1>1 DEF vars, ethVars, serverVars, peerVars
  <2> QED
    BY <2>1, <2>2 DEF ServerInv, DataIsLive, DataIsSeen, InOrder, Answering
<1>2. CASE EthStep
  BY <1>2, EthStepServer
<1>3. CASE AppStep
  BY <1>3, AppStepServer
<1>4. ASSUME NEW s \in Slots,
             \/ Accept(s) \/ PeerSends(s) \/ PeerReads(s) \/ PeerCloses(s)
             \/ NetRecv(s) \/ NetEnd(s)
      PROVE  ServerInv'
  BY <1>4, AcceptServer, PeerSendsServer, PeerReadsServer, PeerClosesServer, NetRecvServer,
     NetEndServer
<1> QED
  BY <1>1, <1>2, <1>3, <1>4 DEF Next

\* With any number of slots, and any number of connections and requests, the
\* server's answers go to the peers that asked, in the order in which they asked:
\* no data of a connection that is over, of another slot or of an earlier poll is
\* answered on a connection.  It is so if the library reports the loss of a
\* connection in a poll of its own and gives its slot away after that.
THEOREM AnswersGoBack == ASSUME ~Merge PROVE Spec => []AnswersAsker
<1>1. ServerInv => AnswersAsker
  BY DEF ServerInv, InOrder, Queue, AnswersAsker, Rising, AskedOn, Asked
<1>2. Init => ServerInv
  BY InitServer
<1>3. ServerInv /\ [Next]_vars => ServerInv'
  BY NextServer
<1> QED
  BY <1>1, <1>2, <1>3, PTL DEF Spec

=============================================================================
