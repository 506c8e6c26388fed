# A TLA+ development of LL-DLEP and of the EMANE parts around it

This directory specifies the DLEP library of the repository (`src/LL-DLEP`) and the
parts of the radio emulator (`src/emane`) that feed it and that carry a router's
packets: the DLEP shim, token flow control, and the queues and fragmentation of the
TDMA radio model. TLC checks the specifications on small instances, and TLAPS proves
part of what is checked for every value of the constants.

DLEP (RFC 8175) is the protocol by which a *modem* tells its *router* which
destinations the radio reaches and with what quality. The library runs on both
sides. A client (a radio, a routing daemon) links it, calls `DlepService` from its
own threads and gets callbacks through `DlepClient`. One thread runs the
boost::asio `io_service`, that is, all timers and socket handlers. `dlep->mutex`,
a recursive mutex, is held by every session handler and every service call;
`dest_advert_mutex` guards the destination advertisement table.

## 1. Inventory

| Part of the system | State | Operations that change it | What makes it hard |
|---|---|---|---|
| `Peer` (Peer.cpp) | `state_`, `peer_pdp`, `responses_pending`, `not_interested_destinations`, acktivity and heartbeat timers, receive buffer | one handler per message, `terminate`, `send_message_expecting_response`, timers, end of file | both sides act at once; retransmission, late answers; termination with messages under way |
| `InfoBaseMgr` | `local_pdp`, the peers' info bases, `needs_response` | `addPeer`, `addDestination`, `removeDestination`, updates | who may take a destination down; null `peer_pdp` before initialization |
| `DlepServiceImpl` | none of its own | `destination_up/down/update`, `peer_update`, `linkchar_request/reply`, `terminate` | client threads against the io thread |
| `DestAdvert` | `dest_advert_db`, `destinations` | client calls, `handle_message`, `handle_purge_advert_timeout`, `add_destination`, `clear_destinations` | lost, duplicated, reordered multicast; expiry against late advertisements |
| `PeerDiscovery`, `PeriodicMcastSendRcv` | periodic send timer | `get_message_to_send`, `handle_discovery`, `handle_peer_offer` | an offer while a connection is being made |
| `Dlep` | `peers`, acceptors, clean-up timer | `start_async_connect`, `handle_async_make_peer`, `cleanup_ex_peers`, `peer_state` | replaced map entries, restarts |
| `ProtocolMessage`, `ProtocolConfigImpl`, `DataItem` | immutable after parsing | parsing, validation, building | lengths, sub data items |
| EMANE DLEP shim (`ModemService`), `NeighborMetricManager` | `currentNeighbors_`, `r2riMetricTable_` | a report of neighbours, a received frame | the library's thread runs between the calls of one report |
| EMANE flow control (`FlowControlManager`, `FlowControlClient`), virtual transport, RF Pipe queue | token counts at both ends, a shadow count, the pending echo | start, stop, add and remove a token, control messages, a packet sent, queued, dropped | two ends with their own mutexes count the same tokens; restarts; a shim that drops packets |
| EMANE TDMA model (`Queue`, `BasicQueueManager`, `ReceiveManager`) | queues with partly sent packets, pending message, fragment store | enqueue, dequeue in a slot, receive, process | fragments over slots that are lost; timer against arrival; exact fits |
| Example client, SNMP agent, scripts, the rest of EMANE | | | not modelled (section 6) |

`PROJECT.json` lists the components with their sources, what is left out of each
and why, and the hazards, each at the line where it bites.

## 2. Modules

| Module | Models | Depends on |
|---|---|---|
| `DestAdvert` | one modem's advertisement table, its client, its neighbours, the multicast network | |
| `DestAdvertProofs` | theorems about `DestAdvert` | `DestAdvert` |
| `Peer` | one end of a session: a record, and one operator per method of class `Peer` and per service call | |
| `DlepSession` | the two ends, the TCP streams between them, clients, timers, clean-up | `Peer` |
| `Discovery` | discovery signals, connections, the `peers` maps of one modem and its routers | |
| `DiscoveryProofs` | theorems about `Discovery` | `Discovery` |
| `ModemService` | EMANE's shim as the client of `DestAdvert`, with the age table that feeds it | `DestAdvert` |
| `ModemServiceProofs` | theorems about `ModemService` | `ModemService`, `DestAdvertProofs` |
| `FlowControl` | transport, flow control client and manager, RF Pipe's queue, the messages between them | `Semaphore` |
| `Semaphore` | the counting semaphore that `FlowControl` implements | |
| `FlowControlProofs` | theorems about `FlowControl` | `FlowControl` |
| `TdmaQueue` | `Queue` and `BasicQueueManager` as operators on their state | |
| `TdmaLink` | a sender and a receiver over slots | `TdmaQueue` |
| `MCDestAdvert`, `MCModemService`, `MCDlepSession`, `MCDiscovery`, `MCFlowControl`, `MCTdmaLink` | the instances TLC checks | |

### DestAdvert

`db[r]` is the entry of `dest_advert_db` for RF ID `r`; `estate = "absent"` means
there is none. The entry's timestamp appears as its `age`, which `Tick` increases
up to `MaxAge`. That bound is at least as large as both thresholds that the purge
compares ages with, so ages beyond it are not told apart by any guard. `local` is
the destination set of `local_pdp`. `declared` is a history variable.
`destination_up`/`destination_down` are the branches of `DlepServiceImpl` for an RF
ID; `handle_message` is the receipt of an advertisement including the calls that
translate it into Destination Up and Down; `handle_purge_advert_timeout` is the
whole pass of the timer over the table. `adv[r]` is the `destinations` set of the
`DestAdvert` object of neighbour `r`, changed when its sessions come and go. `net`
is a set of advertisements: `Deliver`, `Duplicate` and `Lose` give all orders, repetitions
and losses. `NetCap` bounds the advertisements on the air.

### Peer and DlepSession

An end is a record (`End`). Every method of class `Peer` is an operator from the
record before the call to the record after it, so a handler with all the calls it
makes is one term, as it is one critical section of `dlep->mutex` in the code. A
message is its type, its destination and its status; `SessionQueue` stands for the
default `DlepMac` under which session-level messages are queued. `pend[k]` is the
queue of requests of destination `k`; only its head is sent, and its `tries` is the
`send_tries` of `ResponsePending`. What the code decides by configuration is a
constant (`SendTries`, `CreditWindow`, `LoseAcks`: ack-probability below 100). What the client
decides is an environment record `e`: the status it returns, whether a response is
suppressed, whether a Link Characteristics Request has metrics.

Not every outcome of a handler is a normal one. An access through a null
`peer_pdp` and an exception that leaves the io thread are outcomes, too: the end
is then `crashed`.

`DlepSession` has `Receive` (one message of the stream), `Eof`, `Cleanup` (the
clean-up timer of `Dlep`), one disjunct of `Client` per service call, and the
acktivity timer in two steps: it expires, and its handler runs later, after
whatever came in between, a `cancel` included. Which responses are overdue when the handler
runs is a choice (`late`), as the model has no clock. `Eager` says whether
clients call the service before they were told `peer_up`. `MaxCalls` bounds the
service calls in a behaviour. `PromptSpec` leaves the timers out: it describes the system
when no response is late.

### Discovery

`conn[c]` has the state of the two `Peer` objects of a TCP connection;
`rpeers[r]` is the entry that router `r` has for the modem in its `peers` map, and
`mpeers` the modem's map. A map entry and a `Peer` are different things: a second
connection to the same modem replaces the entry and leaves the first `Peer` to its
pending read. `patient`, chosen once in `Init`, restricts the environment when it is true: a router's signals and
connections are settled before it sends again, as they are when the network is
faster than discovery-interval. `sending` is the set of routers whose send timer is set, or whose
send is under way: `handle_send` sets the timer only after a send without error, so the
error branch of `start_send` takes the router out of the set for good. `Failures` bounds such errors in
behaviours without patience; with it there is no bound. `restart_modem` is a crash and restart of the
modem's process.

### ModemService

The composition of the shim with the library. `rx[r]` is the age of the last frame
from neighbour `r`; `getNeighborMetrics` is what `NeighborMetricManager` reports.
The shim's handler is three actions, since each of its service calls takes the
library's locks and releases them: `Report` computes the two sets of work,
`Metric(r)` deals with a reported neighbour and calls `destination_up` of `DestAdvert`
for a new one, `Deleted(r)` calls `destination_down` for one that is no longer
reported. The steps of the library (`Library`) and frames come between them. `Client`
of `DestAdvert`, an arbitrary client, is no step of this module: the shim takes its place.

### FlowControl

`mgr` is the `FlowControlManager` in the MAC layer, `cl` the virtual transport with
its `FlowControlClient`; `mgr.out` and `cl.out` are the queues between the two. Each
method of the manager is an operator on its record; an action is one handler of a
layer with all its calls. `held` is the number of packets in RF Pipe's downstream queue,
its pending one included. The reader thread takes a token in one step and sends the packet
in another, as it does not hold the client's mutex in between. `ShimDrops` is a
filter in a shim. Start-up in either order, `MacStop`, `client_stop` and
`TransportRestart` (the process ends, and what was sent to it is lost) are actions.
Counters are modulo `Width`, which stands for 2^16.

`VirtualTransport::start` starts the reader thread before `postStart` asks for tokens, and
`removeToken` of the client waits only for a count that is not zero. So the reader may take a token
from the first count it is sent, while further counts of the start-up are under way. The fields `use`, `early` and
`lost` of `cl` are history that no guard reads. `use` says how the transport took its first token: `"settled"` when
the counts of both ends agreed (no count under way but the acknowledgement that the manager waits for), `"early"` otherwise. `early` says
that this transport or one before it was early, `lost` that a shim dropped one of its packets.

### TdmaQueue and TdmaLink

A packet is its length and its origin (`of`: queue, sequence number and life of the
sender); its bytes are the numbers below the length, so a fragment is an offset and a
length. `TdmaQueue` has `enqueue` (with the overflow rule that prefers whole packets) and
`dequeue` (aggregation, fragmentation, the rule for packets that are too big) of one queue,
and the choice among queues of `BasicQueueManager`. The field `cut` is a history field:
a fragment without bytes was made of the packet. `TdmaLink` adds time in slots: at most
one transmission in a slot, a message that arrives within its slot or is lost, the
timer that processes the pending message when its slot is over, the arrival of the next
message, which does the same, the fragment store, and assemblies that are abandoned after a while.
`process` returns the set of its outcomes: whether the message is lost in noise and which
old assemblies are abandoned are free choices. `mode` is the configuration, fixed in `Init`.

## 3. Runs

Constants are in the `.cfg` files.

| Run | Checks | States |
|---|---|---|
| `MCDestAdvert_adverts` | `TypeOK`, `NoStaleDestination`, `UpDestinationsAreLocal`, `StateReflectsClient`, `PurgeTakesDestinationsDown`, `AdvertisedBecomesLocal`, `SilentNeighbourIsWithdrawn` | 28,880 |
| `MCModemService_radio` | `ServiceTypeOK`, `DestinationsHaveNeighbours`, `HeardIsDeclared`, `LostIsWithdrawn` | 131,220 |
| `MCDlepSession_declare` | `OneInFlight`, `Agreement`, `SessionSurvives` | 5,539 |
| `MCDlepSession_any` | `TypeOK`, `OneInFlight`, `NoCrash` | 40,377 |
| `MCDlepSession_live` | `QueueDiscipline`, `NoCrash`, `TerminationSpreads`, `RequestSettles` | 7,308 |
| `MCDiscovery_maps` | `TypeOK`, `OnePeerEach`, `PeersAreMapped`, `Rediscovery`, `TerminatingIsRemoved` | 34,018 |
| `MCFlowControl_settled` | `TypeOK`, `TokensAreConserved`, `PacketsFindTokens`, `ShadowIsExact`, `IsSemaphore`, `WaitingIsServed`, `HandshakeEnds` | 202,356 |
| `MCTdmaLink_slots` | `TypeOK`, `BytesAreExact`, `TokensAreConserved`, `NoMixing`, `CompleteUnlessCut`, `InOrder` | 754,766 |

Four more runs check a statement of the documentation or of a comment that the
code does not keep; TLC finds a counterexample in each:

| Run | Statement | What happens |
|---|---|---|
| `MCDestAdvert_hold` | `PurgeTakesDestinationsDown` | The placeholder flag of an entry stays set when its advertisement arrives, so with a hold interval the purge later removes the live entry and forgets its destinations, which stay up. |
| `MCDlepSession_connecting` | `NoCrash` | `destination_up` between the TCP connection and Session Initialization finds the peer in the map and follows its null `peer_pdp`. EMANE's shim makes its calls whether or not it was told `peer_up`. |
| `MCFlowControl_filter` | `AvailableIsServed` | A shim drops a packet for which the transport took a token. The manager's shadow count never reaches zero, so it never announces the tokens it has, and the transport waits for ever. |
| `MCTdmaLink_full` | `AllFragmentsReceived` | A slot is filled exactly, and the loop of `dequeue` makes an empty fragment of the next packet. The following fragment has the same offset, its bytes are left out of the assembly, and the packet is delivered without them. |

### What the passing runs show

*Destination advertisement.* The destinations of `local_pdp` are computed by
differences between an advertisement and the one stored before it. Under loss,
duplication and reordering, this keeps them equal to the advertised destinations of linked
neighbours, in both directions (`NoStaleDestination`,
`UpDestinationsAreLocal`). The second direction needs routers that attach to one
modem each; with a shared router the first neighbour that drops it takes it down
for both. `StateReflectsClient` says that an entry is up only by the client's word, and that only
one that was purged is down against it. The two liveness properties say that information
spreads and decays: what a linked neighbour keeps advertising becomes a
destination, and routers behind a neighbour that is silent for good are withdrawn.

*The shim over the library.* A router is told of what the radio hears:
`DestinationsHaveNeighbours` bounds `local_pdp` by the shim's current neighbours at every
moment, in the middle of a report as well. `HeardIsDeclared` and `LostIsWithdrawn` carry this through
three tables (ages, the shim's neighbours, advertisements) that are updated at different
times; a neighbour may come and go any number of times before it stays.

*Sessions.* `OneInFlight` relates the two ends: a request, its response and a put-off
response are never in the streams together for one destination and side, and there is
always a pending request to match. `Agreement` is the purpose of the protocol: when nothing is under way, each side's
view of the other one's destinations is right, those left out that it refused. In this run the modem declares, and the
router's client takes a destination or is not interested in it. `SessionSurvives` adds that its messages never end
the session, with one exception: a Destination_Down that waited in the queue when the refusal of its destination arrived is
sent, and the router knows no such destination. `TerminationSpreads` and `RequestSettles`
are the liveness counterparts, with late answers, retransmission, inactivity
and a modem client that never answers a Destination_Announce.

*Discovery.* With patient signals a modem has one `Peer` for each router at most,
no `Peer` of a router is lost from its map, and when no router has a
peer some router gets one, in spite of restarts, loss and failed attempts, unless the sends of
all routers have failed: nothing sends discoveries then (`Rediscovery`). Without
patience, two peers and unmapped peers are possible, but when one end of a connection is
terminating, both `Peer` objects are removed in the end (`TerminatingIsRemoved`).

*Flow control.* The manager counts tokens by what it has handed out, the client by
what it was told; the shadow count is how the manager guesses the client's. `ShadowIsExact` says
that the guess is right whenever no echo is due, counting the packet whose token is
taken and that is not sent yet. It is why `PacketsFindTokens` (no packet is dropped for
flow control) and `WaitingIsServed` (the reader thread does not sleep for ever) hold. `IsSemaphore` is the
refinement: however the tokens are counted, never more than `Tokens` packets are between the
device and the air, up to the first token that is taken early. The other three speak of a transport whose
first token was taken when the counts agreed; the transports before it may have been early, and left packets and
counts in the queues. `TokensAreConserved` has no such condition. `HandshakeEnds` covers starts in either order, restarts, and messages
of an earlier life that arrive in the handshake of the next one. What happens to a transport that is early is in section 5.

*TDMA.* `CompleteUnlessCut` and `NoMixing` compare what the receiver delivers with what the sender
queued, with slots lost, assemblies abandoned, two queues that share sequence
numbers, and packets dropped by overflow while partly sent. `InOrder` needs that a pending
message is processed once, by the timer or by the next arrival. `TokensAreConserved` counts
the tokens of packets that were too big for every slot as lost, as the code does (section 5).

### Bounds

- Two neighbours and two MAC addresses: the table treats entries independently
  but for shared destinations, which needs two. The theorems drop the bound.
- `NetCap = 1` is one advertisement on the air; with `Duplicate` it still arrives
  late and many times, after the neighbour's state has changed.
- `DeleteTime = 1`: a neighbour can be heard in one report, be silent and still reported in the
  next, and be lost. Nothing expires in this run (`ExpireCount = 0`): with expiry `HeardIsDeclared` does not hold.
- `Tokens = 3`, `Depth = 2`: fewer places in the queue than tokens, so the queue overflows and
  the tokens run out. One restart: an earlier life with its messages and packets, early or not. The theorems drop these bounds.
- TDMA: packets of 1 and 3 bytes, slots of 2: a packet fits with room, is sent in two parts, or follows another one in the same slot.
  Three packets in two queues of depth 2, four slots: an overflow during fragmentation, a lost slot in
  the middle, and a late one. Four of the eight configurations of aggregation, fragmentation and
  strict dequeue, each switch in both positions.
- Thresholds of two ticks: an entry can be younger than, exactly at, and refreshed
  before its limit.
- `SendTries = 2`: a first transmission, a retransmission, and giving up.
- Two destinations in `declare`: queues of different destinations interleave. One
  in the other session runs, since all queue state is per destination, apart from
  session-level messages, which have a queue of their own.
- `MaxCalls` 2 to 4: enough for up, down and up again before the first answer,
  and for one call of each side to cross in the streams.
- Two routers and two connections: one being made while another one is ending. `Failures = 0`: sends fail
  only in patient behaviours, the ones `Rediscovery` speaks of. With `Failures = 2` the same properties hold as well, in 126,178 states.

`CHECK_DEADLOCK FALSE` in the session runs: when both ends are gone, or all calls
are made and nothing is under way, the model stops, as a connection does. In the flow control
and TDMA runs: when everything has been stopped, or the last slot is used.

### Fairness

- `TimerFairness` of `DestAdvert`: both timers are rearmed at the end of their handlers.
- `AdvertFairness`: a datagram that is sent again and again is not lost for ever (strong
  fairness of its delivery). Nothing is assumed of the neighbours' sending; the
  properties that need it say so in their hypothesis.
- `ServiceFairness`: the MAC layer's report timer is periodic, and a handler that has begun goes
  on (weak fairness). `ArrivalFairness` is `AdvertFairness` for the composition. Nothing is assumed of the radio.
- `IoFairness`: the io thread runs every ready handler, and the clean-up timer is
  always set again. No fairness is assumed of clients.
- `TimerFairness` of `DlepSession`: the acktivity handler runs once a second, and a
  request that stays unanswered is overdue in one of its passes.
- `Fairness` of `Discovery`: a router whose timer is set sends again (and its send may fail, after which nothing is
  assumed of it); signals and connection attempts that
  are repeated for ever succeed at some time (strong fairness); an end that is made learns
  that the other one has stopped. The last is what `TerminationSpreads` says of a session.
- `Fairness` of `FlowControl`: each layer works off its queue, transmissions end, `postStart` is called
  after the start, and the reader sends the packet for which it took a token (weak fairness). Nothing is
  assumed of the device, of stops or of restarts.
- `TdmaLink` has safety properties only.

## 4. Proofs

`DestAdvertProofs` proves, for any sets of neighbours and MAC addresses and any
values of the parameters that satisfy `ConstantsAssumption`:

| Theorem | States | Assumes |
|---|---|---|
| `TypeCorrect` | `TypeOK` | |
| `NoStale` | `NoStaleDestination` | `HoldInterval = 0` |
| `PurgeIsComplete` | `PurgeTakesDestinationsDown` | `HoldInterval = 0` |
| `Complete` | `UpDestinationsAreLocal` | each router attaches to one modem |
| `ClientIsRemembered` | `StateReflectsClient` | |

`TypeOK` is inductive, and `NoStaleDestination` is inductive relative to it: the
proof follows one destination through each action. The receipt of an
advertisement is the interesting case: what stays local and is not in the new
advertisement was not in the stored one either, so another entry accounts for it.
`UpDestinationsAreLocal` is not inductive: an entry could drop a destination that
another one has. `OwnAdverts` strengthens it: every advertisement, in a table entry,
at its sender or on the air, names only routers of the modem it is about. With
disjoint sets of routers, no other entry has the dropped destination. `StateReflectsClient` rests on `UpIsDeclared`, which
is inductive as it stands, and on the step lemma `DownIsDeclaredStep`.

`DiscoveryProofs` proves, for any sets of routers and connections that satisfy
`DiscoveryAssumption`:

| Theorem | States |
|---|---|
| `TypeCorrect` | `TypeOK` |
| `OnePeerForEachRouter` | `OnePeerEach` |
| `NoPeerIsLost` | `PeersAreMapped` |

The last two speak of behaviours with `patient`. Neither is inductive: nothing in the state that they speak of says that a second
connection is not under way. The inductive invariant `IInv` adds what patience
gives: a router has one signal on its way at most (`SignalAlone`), and while it has
one, none of its connections is being made (`SignalMeansMade`); an offer on its way
means that the modem has no `Peer` for that router (`OfferMeansNoPeer`), because
only a connection that is being made could give it one. So a router that takes an
offer with an empty map has no connection left at all, and the new one is alone
until both ends are made (`UnmadeIsAlone`). `ModemMap` and `EndsMatch` tie the maps
to the states of the ends. The steps by which connections end share one lemma,
`EndingStep`. TLC checked `IInv` for two routers and three connections before it was proved.

`FlowControlProofs` proves, for any number of tokens, any queue depth, counter width and
number of restarts that satisfy `FlowAssumption`, and for a reader that takes tokens at any time:

| Theorem | States |
|---|---|
| `Conservation` | `TypeOK`, `TokensAreConserved` |
| `NoFlowControlDrop` | `PacketsFindTokens` |
| `ShadowFollowsClient` | `ShadowIsExact` |
| `Refinement` | `IsSemaphore` |

The inductive invariant `IInv` says what the queues between the ends can contain. When the first token was taken with counts that agreed, the pair
is in one of three phases (`Settled`): `Counting`, when nothing but packets is under way; `Updating`, a count
is on its way to a client that has nothing left; `Answering`, the echo is on its way, ahead of the packets
that use the new tokens. In each of them the client's tokens and its packets under way are at most the shadow
count, and equal to it unless a shim dropped one. Before the first token (`Starting`) the last message of the
client tells its count, so the exchange cannot end with different counts. `Tight` (the tokens in use fit in the shadow count, and
that in what is available) holds as long as no token was early, and again in every settled life. That it is restored after an early life
is the delicate part: packets of the dead transport may still be on their way. `Behind` says that they are ahead of the
counts that the new transport has sent itself, and `Announced` that the last count sent is the one it has or will get. So when the
counts agree, the packets before them have been taken off. The lemmas `AddKeeps`, `RemoveKeeps`, `DropKeeps`,
`ControlKeeps` and their likes show that each operation moves between the phases. The refinement
follows from `IInv`: the load of the semaphore grows only where the client takes a token, and is then below `Tokens`.

`ModemServiceProofs` proves, for any neighbours, routers, intervals and delete time:

| Theorem | States | Assumes |
|---|---|---|
| `ShimIsClient` | `ServiceSpec => Spec` | |
| `ServiceTypeCorrect` | `ServiceTypeOK` | |
| `RouterSeesNeighbours` | `DestinationsHaveNeighbours` | `HoldInterval = 0` |

`ShimIsClient` is a refinement with the identity as the mapping: every step of the shim is a call that
any client may make, or none. So the theorems of `DestAdvertProofs` hold for the composition, and
`RouterSeesNeighbours` uses three of them: a destination is in the entry of an RF ID that is up (`NoStale`), such an RF ID
was declared (`UpIsDeclared`), and the entry names routers of that modem only (`OwnAdverts`). What is new is
`CurrentIsDeclared`: an RF ID that was last declared up is among the shim's current neighbours.

Only model-checked: all liveness, everything about `Peer` and `DlepSession`, and `TdmaQueue` and
`TdmaLink`, whose `dequeue` is a recursive operator.

## 5. Other observations

The following do not hold in configurations that no run includes. Each was seen as a
counterexample of TLC, except where a line says that it was read in the code.

- `HeadIsSent`: when a destination is refused as not interesting while another message for
  it is queued, the next head is dropped by `send_message_expecting_response` before it is sent; the
  queue of that destination then stands still (Peer.cpp:219).
- `TerminationIsSent`: Session_Termination is queued behind an unanswered session
  message and `terminate` stops the timers that would send it; the peer learns of
  the end by end of file.
- `GivesUpAfterSendTries` with `LoseAcks`: a request that is repeated because its response was suppressed
  meets the state its first copy made, is refused as invalid, and
  the session ends after one loss, with tries left (Peer.cpp:1460).
- `NoCrash` with `LoseAcks`: when the Session_Initialization_Response is suppressed, the modem's
  Destination_Up reaches a router without `peer_pdp`.
- `NoCrash` without the credit extension: Destination_Update for a destination that
  the receiver declared itself throws in `get_credit_request` (Peer.cpp:1711).
- `SessionSurvives` with link characteristics: a reply without a status data item
  is invalid for the router, which ends the session (Peer.cpp:722), and a request that crosses the Destination_Down of
  its destination ends it, too.
- `Agreement` when the router's client answers Request_Denied: the destination stays with the modem, and the router does not have it.
- `PendingWaitsForHoldInterval` with `ExpireCount > 0`: a placeholder has report interval zero, so
  the next purge finds it expired (DestAdvert.cpp:508).
- Expiry forgets that the client declared an RF ID up. The entry that the next advertisement makes is down and stays so
  until the client declares it again. EMANE's shim declares only neighbours that are new to it, so
  `HeardIsDeclared` of `ModemService` does not hold with `ExpireCount > 0` (dlepmodemservice.cc:501).
- `Agreement` when both clients declare the same destination and answers are put off: a
  Destination_Announce_Response is written past a queued Destination_Down; the router handles the Down last and
  lacks a destination that is up (Peer.cpp:581).
- `TerminatingIsFinal` with timers: a Session_Initialization_Response that arrives after the router gave up puts the
  terminating peer in session again (Peer.cpp:1298), although Peer.cpp:848 says that it will be removed.
- `OnePeer` of `Discovery`: two offers that cross a connection attempt give two connections, both of which the
  modem accepts, although Dlep.cpp:602 says that modems have one peer.
- `TerminationSpreads` with `LoseAcks`: both ends can be revived after their timers were stopped;
  such a session has no timer that could end it.
- `Rediscovery` without `patient`: an unmapped `Peer` that the modem counts as its peer blocks discovery.
- `PacketsFindTokens`, `ShadowIsExact`, `WaitingIsServed` and `IsSemaphore` of `FlowControl` without their conditions. A transport that takes its first token early
  uses tokens of a count that is then announced again. The manager takes off more than it announced, its
  shadow count wraps below zero (in the instance of `MCFlowControl_settled`, after twenty steps), and the client gets no further token. The
  window is between `VirtualTransport::start` and the answer to the request of `postStart`, and frames have to come in it.
- `DroppedTokensAreReplaced` of `TdmaLink`: the token of a packet that is dropped because it is too big for the slot
  (fragmentation off) is not returned (basicqueuemanager.cc:328); after `Tokens` such packets nothing is sent any more.
- `NoMixing` under `RestartSpec`: a sender that restarts numbers its packets from zero, and the receiver may join a
  fragment of each life in one packet.
- Read in the code: `lastFragmentCheckTime_` (receivemanager.cc:466) is compared and never set, so that old
  assemblies are looked for in every call of `process`, not at the configured interval. The model allows both.

## 6. Not modelled

- *Lifetime of `Peer` and `Dlep`*: the heartbeat timer, handlers queued before `cancel`, the shared pointers that
  keep objects, `initialize` and its hand-over between two threads, `terminate` of the service against
  concurrent calls. Each is about C++ objects below the level of a handler, which is the step of these models.
  Heartbeats as such only keep a peer active, and whether it is found inactive is a free choice in `DlepSession`.
- *Races inside one handler*: `handle_message` and the purge of `DestAdvert` hold `dest_advert_mutex` only. The calls that
  change destinations take both mutexes, in one order, so they exclude these handlers and cannot deadlock with them;
  `peer_update`, the queries and `terminate` take `dlep->mutex` only and could meet one of them half way.
- *Data*: values of data items and metrics, IP data items and their owners, byte layout and the receive buffer
  (`handle_session_receive` on lengths), sub data items in `parse_and_validate`.
- *Retransmission together with declarations*: a run with the modem's declarations and the timers does not end in
  reasonable time; `MCDlepSession_live` has the router's only.
- *A failed multicast send of an advertisement*, which ends a neighbour's periodic sending for good (PeriodicMcastSendRcv.cpp:238), is no step of
  `DestAdvert`, but nothing is assumed of the neighbours' sending, so the properties hold when it stops.
- *Of the shim*: metrics, configuration, and operation without destination advertisement, in which the shim declares
  Ethernet addresses; the session then sees its calls as `DlepSession`'s client calls. An exception of a data item in the
  middle of a report ends the handler early; the model has no such exception.
- *Of the TDMA model*: the schedule and its events, other transmitters (collisions in `ReceiveManager::enqueue`), the control
  queue, promiscuous mode, statistics. *Of RF Pipe*: the upstream path.
- *The rest of EMANE* (other radio models, the PHY layer, events, OTA transport, XML configuration), the *SNMP agent* (vendored
  net-snmp with generated handlers), the *example client* and the *deployment scripts*. They are numeric, I/O, or generated code,
  and by far the greatest part of the repository's lines: the code that the definitions
  translate is some 6,000 lines, about one per cent of all.
