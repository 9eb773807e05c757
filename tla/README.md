# funny_MQTT: models, checks and proofs

TLA+ modules beside the Ethernet and MQTT library for the ch32v208
microcontroller. They model its MQTT client down to the sockets of the TCP/IP
library, the client's timers on a clock that starts over, its packets byte by
byte with both readers of them, the TCP server, both directions of the Ethernet
driver between the MAC, the interrupt handler and the library, and the driver's
search for an Ethernet link.
Paths are relative to the repository.

## 1. The system

| component | state | operations | interacts with |
|---|---|---|---|
| MQTT client, `include/MQTTClient.h` | `MQTTStatus`, the fields of the last PUBLISH, `MQTTPackedID`, two timers, topics | `mainTask`, the calls of the application, constructor and setters | calls the TCP client, calls back the application |
| TCP client, `src/tcpClient.cpp` | the socket id | thin: `connect`, `disconnect`, `sendPacket`, `getRecvBuf`, `flushRecvBuf` | the Ethernet interface |
| Ethernet interface, `src/ethIF.cpp` | per socket a status and a receive buffer; `phyStatus` | `mainTask`, the interrupt flags of the library, the socket calls, DHCP | the TCP/IP library |
| TCP/IP library, `libwchnet.a` | sockets, TCP connections | everything inside `WCHNET_MainTask` | a binary without source |
| Ethernet driver, `src/eth_driver.c` | receive and transmit descriptors, the state of the search for a link | `WCHNET_ETHIsr`, `ETH_TxPktChainMode`, `WCHNET_LinkProcess` | the MAC, the PHY, called by the library |
| packet codec, `MQTT/` | the decoder's `bufptr`; `MQTTTransport` of the reader | (de)serializers and two readers, vendored from Eclipse Paho | called by the client |
| TCP server, `src/tcpServer.cpp` | a socket id found once | `getRecvBuf` | the Ethernet interface |
| example, `src/example.cpp` | a message buffer and a flag | the main loop, `topicCallback` | all of the above |

There is one thread, `while(1) { eth.mainTask(); client.mainTask(); application }`,
and two interrupts, the Ethernet one and TIM2. So there are three kinds of hard
behaviour: the network and the broker, whose events the loop sees in lumps,
once per turn and as flags rather than as a sequence; the interrupt, which may
fall between any two steps of the library on shared descriptors; and time, on a
32-bit clock. What makes each part correct:

- client: it acknowledges what it received and nothing else; what it believes
  of its connection is true; it speaks only in a session; it recovers.
- interface: data is not written over before it is read; no event is lost.
- timers: they fire neither early nor much too late, the start-over included.
- receive ring: a bounded queue of whole frames.
- transmit descriptor: no frame is changed while it is sent.
- link search: it comes to every setting and does not drop a good link.
- codec: what is written is what is read back, in however many parts it
  arrives, and the computed length is enough.
- server: an answer goes to the peer that asked, and a peer that reads its
  answers gets one to every request.

`PROJECT.json` lists the hazards line by line with the properties that cover them.

## 2. Modules

```
Packets ── EthIF ─┬─ MQTTClient ── MQTTClient_proofs ── MQTTClientAcks_proofs
                  │      ¦ ages                     ClientAcks, ClientSession, ...
                  │  AgeTimer ◄─ MillisTimer ── MillisTimer_proofs    MillisTimer
                  └─ TcpServer ── TcpServer_proofs                    TcpServer
RemainingLength ── PacketCodec ─┬─ PacketReader ── MCPacketReader     PacketReader
                                │   │   └─► PacketStream
                                │   └─── PacketReader_proofs
                                └─ PacketCodec_proofs ──┘
FrameQueue ◄─ RxRing ── EthDriver ── EthDriver_proofs                 EthDriver
PhyLink ── PhyLink_proofs                                             PhyLink
```

A line is `EXTENDS`, an arrow a refinement (`INSTANCE ... WITH`).

**Packets.** A packet is its type, its quality and its id. Topics, payloads and
bytes are left out. A packet may be cut by a read: `FirstParts` are what its first
bytes may be, for a PUBLISH with an id also without it (`MQTTDeserialize_publish`
goes by the remaining length and not by what was received, so it then reads
whatever the buffer held); `FRAGMENT` is the rest.

**EthIF.** `socketStates`, `recvBuf` and `phyStatus` are the fields of the class
`ethIF`. `tcp` is the library's side: each slot has the state of a TCP
connection, the pending interrupt flags, the data received and not yet read, and
the packets under way in both directions. The library is external, and where its
behaviour cannot be known from `src/` a constant leaves it open: whether it
queues data for a connecting socket (`SynSend`), whether it closes such a socket
at once (`SlowClose`), whether a packet may come in two reads (`Split`; if the
first part is still unread when the rest arrives, the packet is whole), whether
data and the loss of the connection may be reported by one poll (`Merge`). A
call of the program is an operator from slots to slots, so that one step of the
client composes several calls in the code's order (`UnknownTimer` is
`disconnect(); connect(); MQTTConnect()` and the ping after them). `EthMainTask`
is all of `ethIF::mainTask`.

**MQTTClient.** Extends EthIF. `pc` follows the main loop:

| `pc` | action | code |
|---|---|---|
| `eth` | `EthStep` | `ethIF::mainTask`; time passes here |
| `recv` | `RecvStep`: `RecvConnack`, `RecvPublish`, ... | `mainTask`, the switch over the packet type, then `flushRecvBuf` |
| `sock` | `SockStep`: `SockNone`, `SockLost`, `SockConnected` | `mainTask`, the switch over the socket's status |
| `timers` | `TimerStep` | `mainTask`, both timers |
| `app` | `AppStep` | the application's calls of MQTTPublish, MQTTUnsubscribe, MQTTDisconnect |

The network and the broker act only at `pc = "eth"`. Nothing is lost by that:
the program sees what they do only in `WCHNET_MainTask`, so any sequence of
their steps during the other parts can be moved there, and what the program
sends is only queued. The broker is a correct MQTT 3.1.1 server that is free in
what it publishes and when, may refuse a CONNECT by the return code of its
CONNACK, upon which it closes (`BrokerRefuses`), and closes on a violation. It is
part of the specification because most of the properties relate the client to it.
It publishes only in sessions of its own connection: nothing is sent again after
a reconnection, as the client asks for a clean session.
The first byte of a fragment is contents, so the client may take it for any type
of `TailLooks` with any quality (`Looks`). It then finds no id there (0): the
bytes that follow could hold one too, which the model leaves out, as an
acknowledgement of a packet that was never sent is wrong with any id.
`lastTopicPacketID` has no initializer, so `Init` lets it be any id. A timer is
its age, cut at the first value past its limit.

**MillisTimer** is one timer of `mainTask`, PINGREQ's (`alwaysOn`) or the
unknown timer, with the clock modulo `Clock`, the "fix millis32 rollup" and, for
the unknown timer, a status that changes at any time. It implements
**AgeTimer**, which is the timer of MQTTClient (`EthStep` ages it, `Rollover`
makes it smaller, `RecvOther` restarts it, `UnknownTimer` and the ping fire it).
This is what justifies the ages and `Rollover` there.

**RxRing** has the `OWN` bits, `DMARxDescToGet`, `ERXST` and the library's
`pDMARxSet`. The handler is one step, as it runs with the library stopped; the
library's reading of a frame is two, so that it falls between them, and so may a
frame's arrival. It implements **FrameQueue**, a bounded queue that drops a frame
only if it is full. *Assumption*, in the guard of `ArriveStart`: the handler is
done with a frame before the next one begins. The code depends on it (there is
one `ERXST`, and it is moved by the handler); at 10 Mbit/s the next frame is
there 9.6 us after the last one at the earliest and writes its first bytes
after its preamble, so the assumption is about the latency of the interrupt.

**EthDriver** adds to RxRing the transmit descriptor (there is one,
`ETH_TXBUFNB`), the MAC's own bit `TXRTS`, and `ETH_TxPktChainMode` in four
steps (`txpc`), between any two of which the MAC may be done and the handler may
run. The handler is that of both directions: `TxInterrupts` is its second half,
which a received frame with an error skips (`Returns`), so that the flags stay up
for its next entry. That entry follows at once, before the library goes on,
hence `txFlags = {}` in `ETH_TxPktChainMode`. *Assumption*, as for
RxRing and for the same reason: the handler has dealt with all flags before the
next frame begins to arrive.

**PhyLink.** A unit of time is 50 ms, the period of the search. `pc` is the main
loop within `WCHNET_HandlePhyNegotiation`, with a value for each place where it
has read what the interrupt handler may change under it: `phyLinkReset`
(`reset`), `LocalTime - phyLinkTime` (`waited`), `phyStatus` (`task`, `polarity`),
the PHY's registers (`search`). `WCHNET_LinkProcess` is split by what it has read
(`Heard`, `NoLinkYet`, `Silence`, ...). The handler's `ETH_PHYLink` and the
clearing of `LINKIF` after it are two steps, with the PHY free to change between
them if `LateChange`; the main loop waits for the handler, the PHY does not. The
PHY is external. With a right setting it hears its peer within 50 ms and has a
link after `NegTicks`; a cable may be pulled, and a glitch may show it a peer or
a link that is not there. *Assumptions*: `NegTicks` is at most 6, as the search
gives a peer up that it has heard for longer; frames with the wrong polarity are
all bad and do not number 240 in 100 ms (`CRCErrPktCnt` is a byte); without its
clock the PHY has no link and no interrupt.

**RemainingLength** and **PacketCodec** are the packets as sequences of bytes.
Every serializer checks its buffer with `MQTTPacket_len` of a length computed
from the arguments, then writes the fields one after the other, and so do the
definitions: nothing but the agreement of the two makes a packet end where its
header says. The loops of the length code run at most four times and are
written out by digit, which keeps them within reach of the provers. `Message` is
the set of all records of arguments that a serializer may be called with.

**PacketReader** is `MQTTPacket_readnb` on a connection. Its state is what the code
keeps between two calls, `MQTTTransport` and the buffer. A step is one successful
call of the transport's `getfn`, so a call of the reader is any number of steps.
`getfn` may return any of the sizes of the set `Parts` of what it is asked for; the
runs give it two, the theorems hold for any set. As in the code the multiplier
grows after every byte of a length, the last one included, so it reaches 128^4.
The far end serializes messages with PacketCodec, may stretch a remaining
length with leading zero digits (legal in the code), may use a larger buffer
than the reader's, and may send a length that does not end; the last two and an
error of the transport are faults. `MQTTPacket_read`, the reader that waits, is
an operator on bytes. PacketReader implements **PacketStream**: packets come out
whole, one by one and in order, until the connection is given up. *Assumption*
(`MessageAssumption`): a SUBACK grants no more than `maxcount` qualities (with
more, the deserializer fails, or writes one place behind its array), and the
loops over the strings of a CONNECT, SUBSCRIBE or UNSUBSCRIBE write as many
bytes as the loop before has counted. The latter is true of every message, but
is an induction over the strings, which tlapm cannot do. TLC evaluates it on the
messages of the run.

**TcpServer** puts the server on EthIF beside the slot of its listening socket.
Nothing in the repository uses the class, so the application is an external one
that does what the MQTT client does: ask for data in every turn of the loop,
answer it, flush it. The library takes the answers while it has room for them
and the rest is lost, as `ethIF::sendPacket` ignores the result of the call
(`Taken`); only a request whose answer was taken is in `answered`. `Patient` are
the connections whose peers have at most `MaxQueue` requests and unread answers
outstanding; the others send what they like and may never read. `SocketFor` is
the search of the table: the first entry that names the port and a peer.
Connections (`accepted`) and requests (`asker`) are numbered as they come, so
that the properties can say whose an answer is.

Definitions with "Wrong:" in their comment are used by nothing: each is a
plausible mistake in the code that the properties are tested against
(`mutants` in `PROJECT.json`).

## 3. Runs

The runs of MQTTClient have one TCP slot, as `net_config.h` configures
(`WCHNET_NUM_TCP 1`), and at most two packets under way in each direction.

| run | bounds | shows |
|---|---|---|
| ClientAcks | 2 messages of quality 0, 1 or 2, both timers firing at will, `Merge`, packets in one piece, 1 fault | `TypeOK`, `AckOwed`, `PubcompMatchesAlone`, `BufferDrained`, `TimerSparesLive` |
| ClientPubcomp | the constants of ClientAcks | `PubcompMatches` is violated |
| ClientSession | an application that publishes once and sends anything else; no messages of the broker; packets cut in two, the rest looks like DISCONNECT, CONNACK, PUBLISH or PUBREL; 1 fault; `Merge` off | `SubscribeAfterConnack`, `ConnectedIsAnswered`, `CorrectStatus` |
| ClientRefused | no messages, 1 fault | `NoPhantomSession` is violated |
| ClientRecovers | no messages, an application that waits; timers of 1 and 2 ticks, 2 faults, the global interrupts | `Recovers` |
| ClientStatusMerged | 1 message, `Merge` | `CorrectStatus` is violated |
| ClientTopics | 2 messages | `EveryTopicSeen` is violated |
| MillisTimer | a clock of 16 ticks, limit 3, up to 2 ticks a turn | `TypeOK`, `FiresInTime`, `NeverEarly`, `Implements` |
| EthDriver | 4 descriptors (`ETH_RXBUFNB`), 8 good frames, any number of bad ones and of frames sent | `DriverTypeOK`, `HandedOverIsWhole`, `HandedIsARun`, `Implements`, `Delivered`; `OwnedWhileSending`, `OneFrameAtATime`, `Accepted` |
| PhyLink | the 500 ms, a negotiation of 300 ms, any right setting, with and without hearing the wrong polarity, `LateChange`, 1 fault | `TypeOK`, `ClockRests`, `LinkFound` |
| PacketReader | 2 packets of 13 messages (`MCPacketReader`) in buffers of 130 and 131 bytes, lengths in 1 or 4 bytes, parts of 2, of 64 or all of the rest, 1 fault | `TypeOK`, `FitsBuffer`, `OnlyFaultsFail`, `Understood`, `ReadersAgree`, `Implements`, `Delivered` |
| TcpServer | the listening slot and one more, 3 connections, the last two of patient peers, 6 requests | `TypeOK`, `AnswersAsker`, `Served` |

Why the bounds are enough. In the safety runs the limits of the timers are 0, so
that either may fire in any turn in which a tick has passed: every timing that a
larger limit allows is among them. One fault is a loss, a refusal of a socket or
of a CONNECT, a close or a start-over; the second connection after it is where
the old one's ids, flags, data and status could leak. Two messages are needed
for the wrong id, two packets in a direction for merged reads. ClientAcks has an
application that is silent and ClientSession a broker that sends
acknowledgements only: the ids of the one and the calls of the other are
independent, and both together with faults are more states than a run can have.
ClientAcks has no cut packets, as `AckOwed` fails with them (section 4), and
ClientSession has nothing else that could be cut but acknowledgements, whose
rest may be taken for a PUBLISH all the same. `PubcompMatchesAlone` is about
connections on which no message with an id was sent between one of quality 2 and
its PUBCOMP; about all of them it fails (ClientPubcomp). Eight frames go twice
around the ring, which can be full, and empty again. The clock is a little
longer than `2 * (Limit + MaxTick)`, which is all that the argument needs
(`TimerAssumption`); the real one is longer by far. In PhyLink one fault of any
kind in any state is what disturbs the search; its counters run to their limits
by themselves. 300 ms is the longest negotiation that it waits for: with 350
(`NegTicks = 7`, which `PhyAssumption` excludes) it gives up a peer that it
hears and starts the negotiation over, again and again, and `LinkFound` fails.

The remaining length changes its form at 128, 16384 and 2097152; PacketReader has
packets on both sides of the first one, with a reader's buffer that just holds
them, and the proofs cover all lengths. Two packets on a connection show what
one leaves behind for the next; a second connection is what a fault leads to.
The server's id is found on its first connection and matters on the second.

EthDriver and PacketReader switch the deadlock check off: a bound (`MaxFrame`,
`MaxPackets`) ends them with everything delivered.

Fairness. `Recovers` is checked under `Fairness`: the main loop never stops, in
infinitely many turns time passes, and the network and the broker do what they
have to do if they can again and again (strong, as they can do it only at one
point of the loop). Nothing is assumed of the faults (a refused CONNECT is one),
which are finite in number, nor of the application. It is checked with
`SlowClose`, `SynSend` and `Merge` off. With any of them on, the property fails:
a lost disconnect is never noticed (see below), a socket that closes slowly can
be raced by the stale unknown timer for ever, and data queued for a connecting
socket makes two CONNECTs, upon which the broker closes, again and again. Which
of them the binary library does cannot be told from the repository. It also
fails if the application may send DISCONNECT for ever. In EthDriver, `Delivered`
needs only that the main loop calls the library (`WF` of `Library`). `Accepted`
says that a caller that found the descriptor taken gets it for its own frame, in
this call or, if it was refused, in a later one. It needs that the library calls
again, that the handler runs when a flag is up and that the MAC ends what it
sends. In PacketReader the reader is called again and the transport delivers
(`WF_vars(Read)`). `Served` in TcpServer assumes that the loop never stops and
that data under way arrives, strongly, as the network acts at one point of the
loop only. It speaks of requests of patient peers: an answer for which the
library has no room is lost without notice, and only a peer that does not read,
or asks for more than fits, makes that happen. An impatient peer comes first in
the run, so that what it leaves behind is seen not to stand in the way of the
next. `Served` holds for one slot beside the listening one; with two, a peer in
the other slot waits for ever, as the server never looks for its socket again.
`AnswersAsker` needs `Merge` off: nothing clears the buffer of a connection that
has ended, so if one poll reported data, the end and the next connection, the
next peer would get the answer. `LinkFound` assumes that the processor runs,
that time passes and that a cable pulled is plugged in again. With two faults it
fails, in two ways. A loss of the link between `ETH_PHYLink` and the clearing of
`LINKIF` is forgotten and leaves `phyStatus` set; if the setting was a wrong one
(a glitch gave the link), no search is ever run. And one glitch may hide the
peer from `WCHNET_LinkProcess` and the other give a link and a good frame before
it has finished; it then turns the polarity of a PHY whose polarity is no longer
in doubt. Both need two glitches in as many microseconds. They are listed as
hazards.

## 4. Where code and comments disagree

Each is a run whose property TLC refutes, and a finding in `PROJECT.json`.

1. *ClientStatusMerged*: `flushRecvBuf` ends with `socketBufIsRead`, which sets the
   socket's status to connected. If one poll reported data and the loss of the
   connection, the loss is overwritten before `mainTask` looks at it.
2. *ClientTopics*: `mainTask` parses the first packet in the buffer and flushes it
   all; the callback is not called for a second PUBLISH in the same read.
3. *ClientRefused*: on any CONNACK `mainTask` sets `MQTTConnected` and subscribes; the
   return code is never looked at. After a refusal the client says that it is
   connected, without a session, until it sees the connection closed.
4. *ClientPubcomp*: PUBREL is answered with the id of the last PUBLISH that had one,
   not with its own. If another message with an id came between PUBREC and PUBREL,
   the wrong message is completed and the released one never is.

Three more were met on the way and have no run of their own.

- A PUBLISH that arrives in two reads is parsed from the first one
  (`MQTTDeserializePublish.c:45` goes by the remaining length). If that ends
  before the id, `MQTTClient.h:504` acknowledges it with what the buffer held.
  ClientAcks with `Split = TRUE` and some `TailLooks` shows it: `AckOwed` is
  violated. So is it by a rest that looks like a PUBLISH.
- `unknownTmr` (`MQTTClient.h:608`) is not set when the client becomes unknown by the
  status of its socket, so the time allowed in that status may be none. The timer
  of MillisTimer has this behaviour (`Status` leaves `tmr` alone), AgeTimer and
  MQTTClient have it too, and `TimerSparesLive` is the property that it puts at risk.
- The count in `addSubTopic` (`MQTTClient.h:217`) is a static of the template's member
  function. A second client with the same parameters continues where the first
  stopped, and subscribes to empty topics.

## 5. Proofs

`TypeOK` of every checked system is proved for all values of the constants under
the assumptions named in the modules.

**MQTTClient_proofs**: `TypeCorrect`; and, with one TCP socket (`OneSlot`),
`BufferDrained`, `ConnectedIsAnswered`, `SubscribeAfterConnack` and
`TimerSparesLive`, for any number of packets under way, messages, faults,
refused CONNECTs, splits, merges and timer periods. That an answer need not be a
session is the point of ClientRefused; what the theorems exclude is an answer
that belongs to an earlier connection. None of them is inductive. What carries
them is `IInv`: a socket that has not connected has nothing of an earlier
connection to show and its client says that it is not connected
(`FreshIsClean`); an established connection is known to the program or is about
to be, and by the time the timers are looked at the client is not unknown
(`ConnectedIsKnown`); and whatever came from the broker, or was made of it, came
after it had answered this connection's CONNECT (`DataIsAnswered`). The fact
that makes it inductive is that a slot changes hands only when it is free, and
that the one slot is free only after the program has drained it. With two slots
this breaks down (data of an old slot may wait while the client goes on with the
other), which is why `OneSlot` is an assumption of the theorems. Preservation is
one lemma per step of the loop and per event outside it.

**MQTTClientAcks_proofs** adds three results under `OneSlot`. `AckOwed`, for any
number of messages and faults and for merged reads, if TCP delivers every packet
in one piece (`~Split`): what reaches the client are then whole packets
(`WholeInv`), and a message and its
acknowledgement are one token (`AckInv`) that is in one place only, on the way to
the client, in the received data, in the client's buffer or, as an
acknowledgement, on the way back, and while it is anywhere the broker waits for
it. Once a new connection begins, all of these places are empty (`FreshIsClean`).
With `Split` the hypothesis is needed: a first part without its id is acknowledged
with an id that is not its own (section 4), and a rest may look like a PUBLISH.
`PubcompMatchesAlone`, under the same hypotheses. The client answers
PUBREL with `lastTopicPacketID`, so what has to be shown is that this variable
still holds the id of the exchange. `ExchangeInv` says it of a connection on which
every message of quality 2 was in flight alone so far (`alone`): the exchange is
the only one, its PUBREL, or the PUBCOMP for it, is in one place, and
as long as its PUBREC or PUBREL is anywhere `lastTopicPacketID` is its id. Once
`alone` is lost nothing is claimed of the connection, and ClientPubcomp shows that
nothing could be.
`CorrectStatus`, without `Merge`: a lost connection that the client has not
noticed has left its flag and then its status (`LossIsTold`), and the only thing
that writes over that status, the flush of received data, happens on a live
connection only (`DataIsLive`). With `Merge` the second half is false, which is
what ClientStatusMerged shows.

**TcpServer_proofs**: `AnswersAsker`, without `Merge`, for any number of slots,
connections and requests (the client's theorems need one slot, this one does not).
In every slot the answers under way, the data that the server may yet answer, the
data the library has read and the data under way are one queue (`InOrder`):
requests of the slot's present connection only, in the order of their
numbers. Each step moves packets from one part of the queue to the next or drops
some, which is a lemma about sequences each (`QueueSent`, `QueueRecv`,
`QueuePolled`, `QueueAnswered`, `QueueRead`); Accept and the end of a connection
find the queue empty. What the server may yet answer (`Answering`) is not the
buffer: once it has a socket, data of the other slots stays in theirs for ever,
across connections, and is harmless only because it is never looked at. Before
it has one, every buffer counts, and `DataIsSeen` says that none has data outside
of the server's own turn, as data implies an entry in SocketInf.

**MillisTimer_proofs**: the invariant `WaitInv` distinguishes a timer that has not
seen the clock start over, one that has (its `tmr` is then so small that it fires
before the clock can do so again) and the moment in between. From it:
`FiresInTime`, `NeverEarly` for PINGREQ's timer, and `Implements`: every step is
a step of AgeTimer or leaves its variables alone.

**EthDriver_proofs**, first the ring, for any number of descriptors. `MacInv` says
that the handler's descriptor is the MAC's and the one in `ERXST`;
`HandedIsARun`, itself part of the invariant, that the descriptors handed over are
those between the two indices, by distance along the ring. `HandOver` lengthens
the run by one and cannot reach the library's descriptor, as that one's `OWN` bit
would be clear; `ReadEnd` shortens it. `HandedOverIsWhole` follows, and so does
the refinement: `Queued` reads the buffers along that run, `HandOver` appends the
MAC's frame to it, `ReadEnd` takes its head, and a frame is given up only if the
next descriptor is the library's, which is when the run has `ETH_RXBUFNB - 1`
members. The rest of the driver inherits all of it by one lemma (`RxStep`: every
step of the driver is a step of the ring or leaves it alone) and has `TxInv` for
the other direction: a MAC that sends has no flag up, and a caller past its tests
holds the descriptor of an idle MAC. From it, `OneFrameAtATime` and
`OwnedWhileSending`.

**PacketCodec_proofs**: for every length up to 268,435,455, decoding what was
encoded gives the length and the number of its bytes, whatever follows
(`DecodesWhatIsEncoded`); `MQTTPacket_len` is the size that is written or one
more (`LenIsEnough`: it compares the length with the header's byte already
added, so a packet of 127 bytes asks for a buffer one byte larger than it
needs); two-byte integers read back (`IntsReadBack`). From these,
`DeserializesWhatIsSerialized`: what a serializer writes of a PUBLISH, an
acknowledgement, a CONNACK or a SUBACK, with any arguments and into any buffer
that holds it, the deserializer reads as the same arguments. Each serializer is
first shown to write a header, the length `n` and `n` bytes of contents
(`FrameIs`), which is all that the reader relies on.

**PacketReader_proofs**: all its safety properties and the refinement, for any
messages, buffers, stretched lengths, sets `Parts` and faults. `TypeOK` and
`FitsBuffer` need the reader only (`IInv`). In the middle of a length the value is
below the place of the next digit, which bounds it and the multiplier, by 128^4,
(`LengthInv`, `OneMoreDigit`); in the contents, what is in the buffer and what will
be asked for add up to the length that was compared with the buffer once.
The rest needs the connection (`StreamInv`). There is a sequence of all bytes
sent on it and the packets lie on it end to end (`Laid`), one for each message
up to a length that does not end (`Match`, `Ends`). What has not been read is
the end of the bytes (`Shows`). And the reader's state is its place on them
(`Place`): at the start of the packet after those it has returned; in its length,
with the digits so far added up in `rem_len` (`Value`); or in its contents, with
what it has read of them in the buffer behind the length in its shortest form.
Neither the bytes nor the places are variables of the reader, so `ConnInv` says
that they exist: a send makes them longer and no step of the reader changes them.
While nothing has gone wrong every packet fits the reader's buffer in its
shortest form, hence `OnlyFaultsFail`: nothing is refused. What is returned is what
the serializer wrote (`GotInv`), hence `Understood`, by the theorem about the codec.
`ReadersAgree` looks at the packet that lies where the reader stands, and
`ReaderIsAStream` maps a send to `Send`, the last part of a packet to `Receive`, a
reconnection to `GiveUp`, and every other step to none.

**PhyLink_proofs**: `ClockRests`, for any waiting time and number of faults.
`ClockInv` says that `phyLinkReset` is set exactly while the clock is off; that
the time since `phyLinkTime` is then at most the time without clock, as the main
loop's own steps only set it back; and that a main loop past its tests of the
two is not overtaken by another loss, as there is no link to lose.

Checked by TLC only are the liveness properties (`Recovers`, `Delivered`, `Accepted`,
`Served`, `LinkFound`), which are outside of what tlapm can prove. The hypotheses
of theorems are named above: `OneSlot`, `~Split`, `~Merge` and, for the codec,
the inductions of `MessageAssumption`.

## 6. Not modelled

The set-up before the main loop (`addSubTopic` and the like), the clock set-up,
LEDs and register writes, keep-alive, `MQTTFormat.c` (debug output, never
called), UDP, ARP and DHCP inside the library, and the contents of topics and
payloads in MQTTClient. `MQTTPackedID` has no width there, so its start over at
0 is not seen; neither is what the library does with a negative result of a
serializer taken for a length. After a PUBLISH that was cut inside its topic
`parsePublishedTopic` reads contents and an id left by earlier packets; only
that the id is not the packet's own (0) is modelled. The hazards without a
property say why.

What a further step could take up: two TCP slots in MQTTClient, and what remains
of the theorems without `OneSlot`.
