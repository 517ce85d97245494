# A verification of sing-quic

This directory models `github.com/sagernet/sing-quic` in TLA+, above all the concurrent core
of its queqiao transport, checks it with TLC on small instances, and proves its central claims
with TLAPS for every value of the constants. File names below are relative to `src/`; `pep/`, `stripe/`,
`multipath/`, `memlimit/` stand for `queqiao/internal/pep/` and so on.

The repository holds several QUIC-based proxies. Hysteria, Hysteria2 and TUIC share one
shape: a shared connection that is dialed, counted and closed when idle, a session map, a
datagram defragmenter, a hopping socket, a rendezvous. Queqiao is larger. One
proxied TCP connection is a *flow*; a flow is striped over several *lanes* (QUIC streams
on several connections, or coded datagrams), any of which can stall, die and be replaced
while the flow goes on. The goroutines that make that work share a mutex-protected
scheduler, an acknowledgement tracker, a reassembly window, endpoint-wide budgets, and
pools of connections. That is where orders nobody tested live, and it is what is modelled
first and proved about; the parts under and beside it are modelled and checked.

- [Inventory](#inventory)
- [Modules](#modules): which models what, and how its state and actions correspond to the code
- [Runs](#runs): what TLC checks, bounds, fairness
- [Findings](#findings) and [observations](#observations-without-a-run)
- [Proofs](#proofs): what is proved, from which invariants
- [What is not modelled](#what-is-not-modelled) and [Plan](#plan)

## Inventory

| Part | State it keeps | Operations | Talks to |
|---|---|---|---|
| Stripe scheduler, `stripe/stripe.go` | canonical chunks with their attempts; the ready set; per-lane load, bytes and queued bytes; totals; EOF, error, closed, done | read ahead (`produce`), `Next`, `Wrote`, `Complete`, `Fail`, `RetireLane`, `ReissueExpired`, `ReissueUnacknowledgedBelow`, `Close` | producer and pullers by two condition variables; the endpoint's memory budget |
| Striped send path, `pep/stripedsend.go` | outstanding chunks by range; highest sequence sent | one puller per lane, `trackChunk`, watcher, supervisor of deadlines, `sendFinal` | scheduler; tracker; lane writers |
| Acknowledgement tracking, `pep/acktrack.go` | cumulative point, disjoint spans, a change channel | `Advance`, `Add`, `Touch`, `Snapshot`, `WaitChange` | receive loop writes, the watcher reads |
| Inbound queue, `pep/inbound_queue.go` | event channel, backlog, one pump | `enqueueInbound`, `pumpInbound` | lane readers; receive loop; memory budget |
| Reassembly, `multipath/reassembly.go` | cursor, buffered segments, final offset, charges | `Insert`, `ReceivedRanges`, `Close` | receive loop; memory budget |
| Multipath flow, `pep/mpflow.go` | lanes, FIN flags, ACK coalescer, progress clocks | `run`, `ackLoop`, `acknowledgeArrival`, `receiveProgressACK`, `completionWatchdog`, `addLane`, `closeAll` | everything above, at both endpoints |
| Client pools and rescue, `pep/client.go` | control connection with its generation, one background dial, an epoch; bulk connections with busy flags and idle timers; the race for a replacement lane | acquire, publish, retire, reset, idle close, stop; reserve, release, expire; race, take, install, drain | flows; sockets; the server |
| Server sessions, `pep/server.go`, `pep/laneadmission.go` | session registry; lanes of a session, staged or ready; tombstones | JOIN lookup, admission, eviction, activation, completion watcher | the client's race; the flow |
| UDP associations, `pep/udp.go` | the client's packet queue, context and close-once; the relay's replay window, timers, socket | `WriteTo`, `ReadFrom`, `Close`, read loop; relay loop with its readers | one lane's stream and its connection's datagrams |
| Datagram demultiplexer, `pep/codedlane.go` | one table entry per connection; subscriptions by flow, held frames | subscribe, release, route, hold; the cleaner | lanes; UDP associations; the coded path |
| Opening of flows, `pep/client.go`, `pep/server.go` | session slots, pending opens, retries; the server's semaphore and registry | `DialConn`, `openFlowWithRetries`, `handleQUIC`, `handleSession` | destination, tombstones |
| Lanes of a flow, `pep/mpflow.go`, `pep/frameconn.go` | lanes, the outage and its deadline, the manager; write slots and two queues; the write lock | fail, suspect, wait for a lane, rescue, isolate, drain; enqueue, write, interrupt | the race, the flow's writers |
| Budgets, `memlimit/`, `limiter/`, `pep/memory.go` | used units, waiters; two token buckets | acquire, try, release; wait | every flow of an endpoint |
| Port hopping, `portmux/` | walk, detection window; merged queue, reply routes | poll, hop; read, remember a route, pick | QUIC's packet connection |
| Coded lanes, `coded/`, `fec/` | packed symbols, encoder and decoder windows, fragment groups | send, repair, flush; source, repair, assemble | lanes, the carrier's datagrams |
| Uplinks, `pep/uplink.go` | local address, prewarms, probes | poll, reset, probe, judge | the control pool, the gateway's echo |
| Congestion control, `congestion_*` | windows, modes, rounds, samples; shared path nodes and groups | packet sent, acknowledged, lost; timeout; join, report | QUIC; the tree of a path |
| Proxies, `hysteria/`, `hysteria2/`, `tuic/` | the shared connection with its count, the dial under way; session tables; fragments | offer, acquire, close, reset; authenticate, look up, dissociate; cut, put together | sing interfaces |
| Hopping and obfuscation, `hysteria/hop.go`, `hysteria2/gecko.go` | two sockets with a loop each; packets being put together | hop, deadline, close; cut, collect, sweep | QUIC's packet connection |
| Realm, `hysteria2/realm/` | registration, discovered addresses, a flight; punch race, port mapping | register, heartbeat, reset; punch, respond | the control, STUN |
| Classifier, telemetry, `pathseg/` | estimates and counters | | advisory to the rest |

`PROJECT.json` lists every part with its sources, what is modelled of it, and why the rest is not.
Its "map" gives the lines of each definition; a one-line abbreviation has no row beside the definition that uses it.

### What is hard in this code

* The scheduler gives up its mutex in `produce` around `Acquire` and `Read`, so the decision
  to read and its consequence are separate steps; its two conditions must be signalled by
  whoever changes what their waiters test.
* A chunk may be on two lanes at once, may come back by failure, timer or evidence, and may
  be acknowledged at any of those moments. Attempts carry admission charges that must be
  returned exactly once.
* Acknowledgements are the clock of the sender. They overtake each other, are coalesced by a
  loop that works from atomics it reads at different moments, and can die with a lane.
* Ownership of memory charges moves from the backlog to the reassembler to the application
  while the flow may end at any step.
* A flow's end is decided by FINs, final acknowledgements, a watchdog and lane failures, on
  both endpoints, and each decision must still mean "delivered".
* Connections are dialled in the background for several waiters, and come back after the
  network changed, after a newer attempt began, or after the client stopped.
* A rescue race starts several joins; the server may admit, evict, refuse, or have ended.
* A UDP packet may arrive over a stream or a datagram, again and out of order; its association
  ends by a handshake on one channel of a `select` whose error channel may be ready too.
* The datagrams of a connection are shared by flows that come and go, through a global table
  that a cleaner empties while they still use it.
* A flow without a lane waits in several goroutines for one outage with one grace, while a
  manager, a rescue, an isolation join and the peer each may end it.
* The proxies' shared connection is dialed for whoever asks, while askers leave, it idles out,
  the network resets and the client closes; their tables are read and written under locks
  taken one after the other.
* Codes, fragments and rings see losses, repetitions and wraps in any order.

The `hazards` of `PROJECT.json` name such places by line, with the property
that would fail if the code got them wrong, or the reason none covers them yet.

### What makes each part correct

* **Scheduler**: no byte between its reading and its acknowledgement is outside the retained
  chunks; nothing is re-offered twice or lost; the ledger is what is in flight; nobody
  sleeps through work; a teardown returns everything.
* **Acknowledgements**: what the tracker claims, the peer holds; no honest report is refused;
  what was delivered is eventually completed.
* **Receiving**: accepted frames are neither dropped nor overtaken; the application gets the
  stream in order and once; each charge goes back.
* **Flow**: one direction is a reliable byte stream, and success means delivery.
* **Pools**: every open connection has an owner that will close it; no flow inherits a path
  from before a network change; a late failure retires only its own generation.
* **Joins**: losers are closed, limits hold, a refusal that is final is true.
* **UDP**: no packet is relayed twice; a clean close is not a failure; both ends let go.
* **Opening and lanes**: every slot comes back to where it came from; nobody gives up before
  the outage's grace; a lane's queue loses no slot, its stream carries whole frames.
* **Budgets**: used is what is held, nobody sleeps beside what it could have; no rate is
  overspent, no chunk refused for ever.
* **Proxies**: whatever is open is owned; counts are exact; a number leads to its session; no
  payload is put together from two.
* **Hopping and realm**: no socket, mapping or registration outlives its owner; replies go where
  the peer was last heard.
* **Coding and congestion**: what is decoded is what was sent; windows stay within bounds and
  recoveries last as long as they must.
* **Demultiplexer**: a frame goes to its flow or is dropped for want of room or for age; a lane
  that leaves takes the queue from no other and leaves none behind.

## Modules

```
ByteStream      <== implemented by ==  FlowDelivery           (end to end, one direction)
                                        |  composes, each reduced to what the others see
             StripeScheduler        AckPath        ReceivePath
             (sender's chunks)   (its clock)   (receiver's memory)

MCEndpoints   ControlPool   BulkPool   LaneJoin   BulkDemux
MCLanes       AckPath   FlowOpen   LaneLife   LaneWriter   LaneWire   PathProbe
MCSessions    ReceivePath   UDPAssociation   FlowDelivery
MCServices    MemoryBudget  RateBudget | ProxyClient  ProxyServer  ProxyStream  ProxyDatagram
              RealmServer  RealmPunch | PortMux | PortHop  Gecko
              FecWindow  CodedSend  Assembler
              PathModel  TuicBBR  CubicSender  PacketQueue

Theorems      SumTheorems (sums over finite sets, which the others cite)
              StripeScheduler_proofs
              Sessions_proofs  (ReceivePath, FlowDelivery, UDPAssociation, PathProbe)
              Lanes_proofs     (LaneWriter, FlowOpen, LaneLife, LaneWire, AckPath)
              Endpoints_proofs (ControlPool, BulkPool, LaneJoin, BulkDemux)
              Proxies_proofs   (ProxyClient, ProxyServer, ProxyStream, ProxyDatagram,
                                CodedSend, Assembler, FecWindow)
              Paths_proofs     (RealmServer, RealmPunch, PortHop, Gecko, PathModel, TuicBBR,
                                CubicSender, PacketQueue)
              Services_proofs  (MemoryBudget, RateBudget, PortMux; MCServices as a whole)
```

The modules on a line of an `MC` composite share no state. The composite moves one of them in
each behaviour: the rigid variable `side` chooses it initially, `Only(s)` (or the moves written
out) leaves the variables of the others alone, and `Fixed` starts a part that does not move in
one of its configurations, so that the sides' state spaces add up and do not multiply.

`MC*` modules give the model values of their configurations. Definitions named `Mut...` are faulty variants
of the definition that follows them; no specification uses them. They record, for every
property, one plausible bug that breaks it (`mutants` of `PROJECT.json`).

### StripeScheduler: `stripe/stripe.go`, pullers and supervisor of `pep/stripedsend.go`

A chunk is named by its byte offset. The slice `pending`, which the code keeps in ascending
offset order, is the set of its offsets; `live` is the set of canonical chunks; an attempt
is a record with its id, lane and flags; `laneLoad`, `laneBytes`, `laneQueued`, `totalBytes`
and `liveBytes` are the code's counters, kept as counters so that they can disagree.
`reserved` is what the flow holds of the shared memory budget. `copies` are the chunk copies
that left `Next`, up to the peer.

| Action | Code |
|---|---|
| `ProducerChecks`, `ProducerAcquires`, `ProducerRefused`, `ProducerReads`, `ProducerDiscards` | the loop of `produce`, cut where it releases the mutex |
| `NextReturns`, `NextTakes`, `NextDecidesToWait`, `NextWaits` | `Next`: the context test, `takeReadyLocked`, `Wait`, with the gap between test and `Wait` where `AfterFunc` may broadcast unheard |
| `SendSucceeds`, `SendFails`, `PullerRetires`, `LaneFails` | a puller's `sendChunk`, with `Fail` and `RetireLane` |
| `Wrote` | the transport's callback, stale ones included: it names an attempt, which a timeout may have retired |
| `Complete` | an acknowledgement, first or repeated |
| `ReissueExpired`, `EvidenceArrives` | the supervisor's timer, and the watcher's evidence through `ReissueUnacknowledgedBelow` |
| `Close`, `Cancel` | teardown of the flow |
| `Deliver`, `DeadlinePasses` | the path: a copy reaches the peer, which acknowledges it; an attempt's deadline passes |

Every operation the code runs under `Scheduler.mu` is one action, with the trailing
`Signal`/`Broadcast` in it: a broadcast wakes the sleepers inside the same action. The
configuration values the code computes (`Windows`, `RetransmitAfter`) are constants.

### AckPath: `pep/acktrack.go`, `trackChunk`, `watchChunkCompletion`, `ackLoop`

The sender's tracker is a cumulative point and a set of spans, merged and compacted as the
code merges and compacts: each loop over sorted spans is a recursive function over byte
positions (`t[n]` in `Merge`, `Compact`, `Covered`), which takes the longest span that begins
at each position (`SpanAt`); a shorter one at the same start adds nothing to any of the three. A puller's dispatch is four steps: raise `highestSent`
(`NoteSent`), queue the frame (`Enqueue`), register the range under `chunkMu`
(`TrackChunk`), and look at the tracker again (`Reconcile`). The watcher is four as well
(snapshot, scan, complete, wake), because the code releases `chunkMu` between them. On the
receiver the loop reads the cursor, takes its flags, and writes, as three steps that
arrivals come between. Reports are a set: they arrive in any order and a lane's death takes
them along (`LaneReplaced`, which is also `startLane` with its repeated acknowledgement).

`receiveProgressACK` fails the flow on an acknowledgement beyond what was sent; `rejected`
records that, and `OwnAcksAccepted` says no report the peer writes provokes it.

### ReceivePath: `pep/inbound_queue.go`, `multipath/reassembly.go`, `memlimit` as they use it

`events` is the Go channel with its capacity, `queue` the backlog, `inHand` the event the
pump holds between `queue` and `events`, `pumping` whether a pump runs. `ReadFrame` is
`enqueueInbound` with all its exits; `PumpTakes`, `PumpPublishes`, `PumpRetires`,
`PumpCleansUp` the pump; `ReceiveEvent` the receive loop with `Insert`, `consumeContiguous`
and the charges; `FlowEnds` and `LoopReturns` the two halves of the end. `others` are the
other flows of the endpoint, which make the budget run out at inconvenient moments.

### FlowDelivery and ByteStream: one direction, end to end

`FlowDelivery` composes the three: scheduler (any retained chunk may be dispatched at any
time, again too), acknowledgement path (any part of what is held may be left out of a
report, and a report may be received late and repeatedly), receive path (bounded buffer),
and adds what only the composition has: FIN, final acknowledgement, their replay on a
replacement lane, the completion watchdog, applications that leave, flows that stop. It
over-approximates the detailed modules, so that it can be proved about.

`ByteStream` is the promise: the sink gets a prefix of what the source gave, closes only at
the source's end, and the sender reports success only when everything was handed over.

### ControlPool: the control connection of `pep/client.go`

An attempt is named by its epoch (`quicEpoch`), and so is the connection it makes.
`generation`, `dial`, `epoch` are the fields under `quicMu`; `attempt` is the state of each
background dial, up to its publication; `control` each connection with its socket;
`closing` those a goroutine took out under the mutex and closes behind it; `opener` the
goroutines in `dialPooledQUICLane`; `streams` the count of pooled streams; `idler` the gap in
`CloseIdleConnections`. `ControlPublish` and `ControlSupersede` decide as the code does whether
an attempt that ended is still the pool's; `ControlReset` is what a network change and
`CloseWithError` share, and `stoppedAt` tells them apart.

### BulkPool: the bulk connections of `pep/client.go`

`pool`, `busy`, `armed`, `firing`: the slice, the busy flags, the idle timers that run, and the
timers that fired and wait for the mutex, which is the race `expireBulkConn` has to survive.
Handshakes run outside the mutex, so `BulkAdmit` looks at a pool that has changed.

### LaneJoin: `raceRescueAttempts`, `handleLaneJoinOpen`, the end of a session

One session. On the client: a race of `JoinWidth` attempts, each of which dials, joins, and
hands its result to a channel; the race takes results until one decides it, then drains the
rest (`RaceDrains`); the winner is installed unless the flow ended. On the server: a handler
per JOIN, cut where the code takes and releases locks: look up the session (`JoinLooksUp`),
read `completed` (`JoinChecks`), `addLane` with its eviction (`JoinAdmits`), write the answer
(`JoinAnswers`), activate (`JoinActivates`). Independently the flow ends (`ServerSweeps`,
`ServerSignals`), the watcher sees both FINs (`WatcherRetains`), `handleSession` settles
(`RunSettles`), the tombstone expires.

### BulkDemux: `pep/codedlane.go`, the claims of `pep/frameconn.go`

`entry` is the connection's demultiplexer in the global table, `flows` and `held` the two maps
of each, `chans` the queues ever made with the lanes counted on them, `using` and `reads` what
a lane's goroutine holds of them. `FindDemux` (`connBulkDemux`) and `Subscribe` are two steps,
as the code takes the table's mutex and then the demultiplexer's; `Leave` looks the table up
again, as `releaseBulk` does. `Receive` and `RunEnds` are `run`; `ConnectionEnds` and
`CleanerRuns` the goroutine of `connBulkPath`; `Age` lets held frames grow too old.

### FlowOpen: `DialConn` and retries of `pep/client.go`, `handleQUIC`, `handleSession` of `pep/server.go`

A flow takes a session slot from its client's reservation or the shared pool (`TakesSlot`), a
pending place, and opens sessions, one an attempt, until one is answered or the caller is
refused (`DialBegins`, `DialSendsOpen`, `DialFails`, `DialProceeds`, `FlowFinishes`). The server's
handler runs independently and past the client's patience (`ServerAccepts` to `ServerFinishes`,
`ServerForgets`). Semaphores are kept as the counts they hold, so that `OpenInv` can compare
them with who took a place.

### LaneLife: the lanes of a flow in `pep/mpflow.go`, `manageQUICLanes` of `pep/client.go`

Lanes fail, are suspected, join and settle; the flow's writers wait for a healthy one
(`WaitBegins`, `WaitBudget`, `WaitTicks`, `WaitExpires`, `WaitStops`) under the outage's `deadline`;
the client's manager hears a stall, runs a rescue round with any of its outcomes, recovers,
forgets, isolates and drains; the server's flow is served by the peer's JOINs. `lifeClock`
counts in the grace; `lastSeen`, a history variable, is when a lane was last healthy as time
moved on.

### LaneWriter, LaneWire: a lane's queue in `pep/mpflow.go`, its stream in `pep/frameconn.go`

`LaneWriter` keeps the three channel lengths and cuts an enqueue where it may block: take a
slot, put the frame, or give the slot back. `WriterLooks` prefers the interactive queue,
`WriterChooses` is the blocking `select`. In `LaneWire` a frame is two halves on the stream; a write
holds `writeMu`, may be interrupted before or between the halves, and the interrupted writer
fails the lane a step later (`WireFails`); `PeerReads` decodes by length alone, as `ReadFrame` does.

### MemoryBudget, RateBudget: `memlimit/budget.go`, `pep/memory.go`, `limiter/budget.go`

`MemAcquire`, `MemWakes`, `MemLeaves` are `Acquire` cut at its `select`; `MemRelease` closes the
generation's channel and so empties `asleep`; `Resolve` is the resolution of the operator's
limits, `Refused` an error. `RateTries` is one round of `Wait` with its refill; time is counted in
bursts, deadlines are rounded up as the code rounds them; `Accepted` is what `NewClient` accepts and
the chunk size it derives.

### ProxyClient, ProxyServer, ProxyStream, ProxyDatagram: Hysteria, Hysteria2, TUIC

One machine in three packages. `proto` (or `svc`, `streamProtocol`, `dproto`) says which; the
shared actions are mapped to `hysteria2/` and a wrapper of each names the copy in the other
package. `ProxyClient`: one offer at a time (`pending`), completed, discarded or failed; the shared
connection with the count of its streams and its UDP numbers, closed when idle, lost or reset.
`ProxyServer`: authentication, the UDP table read and written in two steps, handlers that end,
Dissociate, the connection's end; `strays` are handles another's end took off the table.
`ProxyStream`: the request on the first write, the answer once. `ProxyDatagram`: a payload cut,
cut again when the path shrinks, put together in any order; `PacketIds` wraps.

### RealmServer, RealmPunch, PortMux, PortHop, Gecko

`RealmServer`: the run loop (`runner`), one discovery shared by its askers (`flight`), the control's
table, answers that are lost, `Close` beside all of it; an address list is the network it was
discovered in. `RealmPunch`: two families race, each with its socket, one port mapping, hellos and
acks that are lost; the server's `Respond`. `PortMux`: a reader per socket, the merged queue, the
two generations of routes; `heard` and `newer` are history. `PortHop`: the walk shared by all
dials, each dial's window of samples, hop by drawing until the port differs; in its second half, current and
previous socket with a receive loop each, `hop` cut around its dial, deadlines that end loops.
`Gecko`: chunks, entries, limits, sweeps; `GeckoConn` is the client's with one source.

### FecWindow, CodedSend, Assembler: `fec/window.go`, `coded/coded.go`

`FecWindow` is the encoder's window and the decoder's slots and linear system, over the field of
a small prime with any coefficients; `taken` says that a source came which a held row had for its
pivot. `CodedSend` is the send loop from packing to emission, with the running repairs
and those of a burst's end, a carrier whose limit moves, and identifiers taken back for what it
refuses. `Assembler` takes symbols in any order, recovered or told lost, in fragment groups.

### PathProbe: `pep/uplink.go`; PathModel, TuicBBR, CubicSender, PacketQueue

`PathProbe`: the poll of the local address, prewarms that acquire, send, read and judge, the
gateway's echo loop with its limit, connections that end for a cause. `PathModel` keeps what lanes
reported, by age, the exchange of a lane with each node of its chain, and the aliases that merges of
groups add. `TuicBBR` is `OnCongestionEventEx` as one action in the order of the code:
rounds, startup's end, mode, recovery, windows; the bandwidth estimate is any of a small set.
`compensationFor` comes after it in the same module. `CubicSender` is meta1's window; `PacketQueue` the
indexed queue over the growing ring, against the set `kept` as its reference.

### UDPAssociation: `pep/udp.go`

The open association at both ends. The stream (`up`, `down`) is in order until it breaks; the
datagrams (`air`, `airDown`) are sets, from which a packet may be taken without being removed
(`repeats`). On the client: `WriteTo`, `ReadFrom`, `Close` in the four steps that others may
come between (`CloseBegins` to `CloseEnds`), the two readers of `udpFrames`, the read loop
with its wait for room (`parked`) and the moment between closing and telling (`clean`,
`error`). On the server: the readers, and one action per case of the relay loop's `select`,
which takes any case that is ready. The replay window is `highest` and the set `seen` of the
offsets below it whose bit is set; `relayed` counts what was handed to the socket.

## Runs

Bounds are named in the modules with "bound:".

| Run | Instance | States | What it shows |
|---|---|---|---|
| `stripe_reliable` | 2 self-retransmitting lanes, one may die; 2 source bytes in chunks of 1, and an empty final chunk; window 2, at most 3 chunks, memory for 2, 3 dispatches; reads that fail | 1.5 M | no byte is lost or duplicated; no sleeper has work; a teardown at any moment returns everything |
| `stripe_coded` | a stream lane, which may die, and one that switches between stream and coded datagrams; 2 source bytes in chunks of 1 or 2, a window of 1; 3 dispatches; losses, spurious expiries, stale callbacks | 1.1 M | nothing is stranded; the ledger is what is in flight; read-ahead is bounded |
| `stripe_drains` | 2 source bytes in chunks of 1 or 2, window 1, 2 lost copies, a lane death, 9 dispatches | 0.3 M | a fair system delivers the whole stream |
| `lanes` | acknowledgements: 4 chunks and an empty final one, 2 pullers, 2 dispatches, 1 range per report, one lane death; opening: 2 clients, 3 flows, one with 2 attempts, limits 2 and 4, a server of 1; lanes: 3, two waiters, grace 1, clock 3; a queue of 4 slots, 2 reserved; a stream with 3 frames of 2 writers; 2 addresses, 2 prewarms of 2 frames, one move of the uplink | 1.0 M | the tracker is exact and completes what was delivered; slots come back; an outage has its grace; a lane's queue and stream keep their frames; who echoes is not accused |
| `sessions` | 3 units and FIN, 2 event slots, 5 frames read, window 2 bytes / 3 frames, budget 3 with another flow holding up to 1; an association with 2 packets, 2 replies, together 3, 1 repetition, width 2, channels of 1, `readChan` of 1; a flow of 3 units, window 2, buffer 1, one loss, both sides may leave | 0.3 M | nothing accepted is lost or overtaken; charges; no packet is relayed twice; a clean close is no failure; both ends let go; a flow implements `ByteStream`, its success is delivery, and it completes |
| `endpoints` | 2 flows and 3 epochs; 2 bulk lanes, a pool of 1, 3 dials; one race of 2 attempts, lane limit 1, one lane that grows old, symmetric in the attempts; 2 lanes of one flow, 3 frames for two flows, queues of 1, 2 held | 1.6 M | nothing leaks or is shared, inherited, wrongly refused, or lost between arrival and subscription |
| `services` | 21 parts, each alone; the constants are in `MCServices.cfg` | 0.8 M | `MemInv`, `RateInv`, `ProxiesInv`, `MuxInv`, `HopsInv`, `CodingInv`, `CongestionInv` |
| `stripe_wakeup`, `flow_overflow`, `endpoints_stop`, `endpoints_join`, `coded_pivot` | as the runs above, or a part of them | | findings |

**Why these bounds are enough.** Each is the least at which every mechanism of the module
meets every other. Two lanes are what a re-offer needs (a chunk is on at most two); two source
bytes give a chunk ready, one in flight and an end still unread at once, and chunks of one or
two bytes a chunk beyond a window; a re-offered chunk counts twice in the producer's bound, so
three outstanding chunks make it sleep; a memory of two chunks makes it wait for a completion before it can learn of EOF. Three
dispatches reach a second copy of a re-offered chunk; evidence needs one chunk above the
suspect (`LostEvidence` 1). In `lanes`, two chunks that arrive apart above a gap, with one range per report, make a report
that must leave a range out, for which the stream has four; one place at the server and a second attempt of one flow make a session its client
gave up stand in another's way; a grace of one and a clock of three leave room for an outage, its
end and a second one within the first one's deadline; four slots of which two are reserved let
bulk frames fill what is theirs; three frames are one cut off, one written behind it by the
other writer, and one more. In `sessions`, five reads over four frames give a repeat;
budget 3 and window 2 run out separately; the flow's window of two and three units
slide the window, and one unit held above a gap leaves no room for another. In `endpoints`, three epochs are a dial, the reset that supersedes it
and the dial that replaces it; a pool of one makes every second handshake surplus; a limit
of one makes every JOIN an eviction where the lane is old, and one old lane is either of the two; a queue of one and two held frames overflow separately. The
association's two packets out of order, one of them twice, shift the window and fill it; two replies park the read loop behind an
unread one, and a packet in each direction beside one more is the most at once; a channel of
one blocks every reader; with three packets, which also leave the window, the same properties
hold. In `services` each part has the least of everything it can run out of: three flows for a
memory of two chunks, a second and third offer of a client, packet numbers that wrap at once, three networks and two registrations, one
route a generation, a pool of two ports for two dials, a hop past the previous socket while the one before it closes, a field of three with a
window of two symbols so that rows of two unknowns meet, windows and rings that wrap and grow twice, and three
groups to merge in any order. Where larger values were affordable they gave the same
result; the invariants proved below do not depend on them.

**Deadlock** is checked in every run but `services`, whose parts really stop: a closed mux, a
client that is over, a path that ended, a controller at its last packet. The modules that can finish have a last action (`Terminated`,
`ReceiveEnded`, `Over`, `Quiet`, `JoinOver`, `Rests`, `DemuxRests`, `OthersEnd`) that stutters when everything is finished, or when the bound on
dispatches is reached, and nowhere else.

**Liveness and fairness.**

* `StreamDrains` (stripe): goroutines run, the source yields, a live lane's writer reaches
  every queued frame, what a live reliable lane wrote arrives and so does an unreliable copy
  beyond the bounded losses, deadlines pass for copies that will not arrive, the supervisor's
  ticker runs. All weak: Go schedules every runnable goroutine, TCP and QUIC streams deliver
  or fail, and timers fire. Nothing is assumed of cancellation or lane deaths.
* `AcceptedIsProcessed` (sessions): the pump and the receive loop run. Nothing is assumed of
  readers or other flows.
* `FlowCompletes` (sessions), `StreamCompletes` of `FlowDelivery`: sender and receiver goroutines run; a retained chunk is
  dispatched until acknowledged (`ReissueExpired` runs on a timer); reports arrive, as losses
  are bounded.
* `EndsReachTheOther` (sessions): the loops and the readers run, and a `Close`
  once begun; each is one goroutine or one `select`, which Go schedules while it can run. The
  disjunction of a goroutine's steps is fair, not the single step: Go's `select` picks at
  random, and nothing forces it to take a case while others stay ready. Nothing is assumed of
  the application, the network, the timers or the relay's socket.
* Two liveness questions are asked as invariants of the states where nothing is left to do,
  which needs no fairness: `NothingLeftAtRest` (`AtRest`: every
  goroutine waits for another and the path is empty) and `TeardownReleasesAll`, in
  `NobodyWaitsInVain` (`~ENABLED Work`). A lost wake-up shows as such a state.

## Findings

Five runs are expected to end in a counterexample. Each states what a comment or a test of
the repository says.

1. **A lane sleeps beside work** (`stripe_wakeup`). `ReissueExpired` and
   `ReissueUnacknowledgedBelow` retire speculative copies, which frees their lane's window,
   and broadcast only if they re-offered something. The condition's comment says "a lane may
   have work, or space freed" (stripe.go:262). The next broadcast repairs it, so
   `StreamDrains` still holds.
2. **A last connection** (`endpoints_stop`). A flow that waits for a dial when the client stops
   goes round the loop of `acquireControlQUICGeneration` and dials again: `DialConn` hands
   down its caller's context, which `CloseWithError` does not cancel. client.go:1147 says the
   test of the context closes that race.
3. **A completed flow is refused** (`endpoints_join`). A JOIN that read `completed` before the
   watcher set it is refused by `addLane` with a protocol reset, which the client treats as
   permanent, although server.go:546 keeps the tombstone for exactly this client.
4. **The receive buffer can overflow** (`flow_overflow`). Ranges release the sender's retention
   for bytes the receiver still holds out of order, so a gap that persists lets the sender run
   past a buffer of the size of its own window; mpflow.go:30 says that is impossible.
5. **A wrong symbol is delivered as recovered** (`coded_pivot`). `harvest` (fec/window.go:548)
   takes a row's constant term for its last unknown without looking at the coefficient. Rows
   are scaled to a pivot of one (:526); but when the source that *is* the pivot comes after the
   repair, `substitute` (:574) takes it out of the row and what is left has any coefficient: a
   repair over two symbols, then the first of them, and the decoder hands up the second times a
   constant. window.go:264 calls a row "with a single unknown left" a recovered symbol. Until
   such a source comes, `FecInv` holds: every row is a true equation, every symbol the one sent.

### Observations without a run

Met while modelling. Those with a definition named are stated in the module, next to its
invariant, and TLC finds them violated when they are checked; the invariant says what holds.

*Stated in a module*

* `BurstEnds` of `CodedSend`: when the window is dropped for its size (coded.go:411), the burst's
  bookkeeping survives it, against the comment at :429.
* `JoinedLaneIsOwned` of `LaneLife`: the goroutine of an isolation join may put its lane into the
  buffered `joins` when the manager has left (client.go:1857); nobody closes it before its
  connection ends, and its bulk connection stays reserved.
* `ExtensionIsFelt` of `LaneLife`: a JOIN extends the outage's deadline (mpflow.go:2329), but a writer
  already waiting holds a timer of the old one (:2243) and gives up under the handshake,
  as the comment at :2320 says must not happen.
* `FramesArriveWhole` of `LaneWire`: a writer whose context ends between the bytes of a frame
  releases the lock before it fails the lane (frameconn.go:410); the next writer's frame follows the torn one.
* `OnlyViolatorsAreAccused` of `PathProbe`: the client's own reset, or another prewarm's verdict,
  closes the connection under a probe, and the gateway is accused of ending the echo
  (uplink.go:288, comment at :262).
* `ResetRediscovers` of `RealmServer`: a reset that joins a discovery begun earlier takes its
  addresses for new ones (realm/server.go:316, comment at :391).

*Queqiao*

* The `AfterFunc` of `Next` broadcasts without the mutex (stripe.go:434); between the test of
  the context (:441) and `Wait` (:454) nobody hears it, and `Next` sleeps on, although
  `TestNextRespectsContext` expects it to return. In a flow, `Close` follows and repairs it,
  which `TeardownReleasesAll` checks with that gap in the model.
* `EndsReachTheOther` exempts a parked read loop: with `readChan` full, it holds the session's
  slot and the stream until the application reads or closes. The comment at udp.go:191 says a
  raw caller that stops reading without closing does not hold them; that is so only while
  fewer than 64 packets are unread.
* `releaseBulk` does not recreate a demultiplexer the cleaner has deleted ("What is gone stays
  gone", frameconn.go:265), but `bulkFrames` does: a lane that starts on a dying connection
  stores an entry for the closed path that nothing deletes. `SharesAreHeld` is stated up to the
  cleaner, since a lane of the old demultiplexer may then release a share of the new one.
* A subscription is given what was held for it however old it is (codedlane.go:195): only the
  next frame to be held applies `heldFrameLifetime`.
* The comment on `packetWindowWidth` counts "one word per direction" (udp.go:61), but the client
  has no window: a reply datagram that arrives twice is delivered twice.
* `takeReadyLocked` admits a lane beyond its window because the head of the ready set is
  urgent, also when that lane already carries the head and must skip it, and then takes a
  fresh chunk (stripe.go:470, :475); the comment at :83 speaks of recovery only.
* `CloseIdleConnections` tests the stream count under the mutex and retires the generation
  after it (client.go:617); a flow may have acquired it in between.
* The bulk pool has no epoch: a connection dialled before a network change or a stop is pooled
  after it (client.go:1458).
* `addLane` of the client tests the end of the flow before it takes the mutex
  (mpflow.go:506), so a lane installed behind `closeAll`'s sweep (:3260) stays open.
* `suspectDataLanes` marks `dataLane` of all healthy lanes (mpflow.go:1971, :1975), while new writes
  take `dataLane` of the unsuspected ones (:1372, :1387): in a second stall it marks again the lane
  that writes already avoid, not, as the comment at :1966 has it, those "currently carrying the flow's data".
* A retried OPEN may open a second connection to the destination, since the server goes on with
  the session the client gave up; tombstones count against `MaxSessions`, and JOIN streams
  occupy the session semaphore.
* The interactive reserve of a lane (mpflow.go:49) is one slot less while the puller holds a slot
  and waits for its full queue.
* The local address is polled: a change and its return within two seconds are not noticed.
* A gateway that ends the echo at its own session limit (server.go:411) is accused.

*Coding and hopping*

* A source that comes after its recovery gives its frames a second time; identifiers the
  decoder's window jumps over are not reported lost.
* Any datagram counts as heard (portmux.go:194), not only the gateway's. Two dials drawing from
  one walk may give each other the same ports for a round.
* A read deadline on a hopping socket ends its receive loop; nothing reads that socket until the
  hop after next, although the deadline was lifted (hop.go:111). A socket being dialed misses the deadline.
* Gecko: as many incomplete packets as a source may have block its further ones until the sweep.

*Proxies and realm*

* A connection dialed for askers who all gave up stays open until the next use or idle close.
* A session that ends after its number was taken again deletes the new session's entry; TUIC's
  handlers race on creation; sessions created after the connection's end live on without it
  (`strays` and `late` of `ProxyServer` count them).
* A datagram for a session Hysteria has ended closes its connection.
* Hysteria2: a first authentication that is masqueraded after the user was set answers the next
  request with success and no message loop; two requests at once start two loops.
* A read deadline inside the client's reading of the answer loses its place in the stream; an
  interrupted first write sends the request again.
* Two cuts of one payload with as many fragments are put together as one
  (`CutTwiceAlike`; a wrap of the packet number is told apart only by the total).
* Realm: a heartbeat whose answer is lost, and a return to the addresses before it, leave the
  control with wrong ones; Close beside a registration leaves a session; `NewPortMapper` leaks a
  mapping it cannot describe (portmap.go:78); the server stops sending after one hello, so a
  lost ack fails the client's punch.

*Congestion*

* Regrouping does not act in production: transport.go:999 names no group, so
  `recordCongestion` returns early (tree.go:147). `SplitGroup` of a merge root does nothing;
  names beyond 16 aliases resolve to a group that is none.
* Two lanes joining at once are each sized for one more than the lanes before them.
* `compensationFor` re-arms its baseline when it holds (erasure.go:324), so an unsuccessful step
  is measured against itself afterwards.
* `peakBandwidth` of the BBR sender never decreases (bbr_tuic.go:530).
* meta1: a window between the old and the new minimum stays below the new one when datagrams
  grow (cubic_sender.go:286); slow start may pass the maximum by less than a datagram.
* meta2: `extraAckedEvent.round` is never set (bandwidth_sampler.go:202).

## Proofs

Eight modules hold theorems; tlapm checks every leaf. Only the library's facts about finite sets
and well-founded orders are cited from outside. The assumptions are the named `ASSUME`s of the
modules: constants are naturals (or what a configuration may contain), and the sets of lanes, flows and
peers are finite where they are counted. The runs check what the theorems
conclude; the strengthenings are named in the component's module, or before the proof that needs them.

**`SumTheorems`.** Budgets, ledgers and queues are sums, and the library has no facts about
`SumFunctionOnSet` (a fold over a set, each element chosen). They are proved here: the recursion has a
solution on every finite set (`SumsUnfold`), so a sum is one element's weight and the rest's,
whichever element is taken (`SumRemove`), and from that `SumAdd`, `SumUnion`, `SumSame`, and what a change of one
weight does (`SumChange`).
Induction principles that take a predicate are beyond the provers, so the inductions
go through sets: the sizes of the counterexamples are naturals and have a least one (`LeastNatural`,
`SetInduction`).

**`StripeScheduler_proofs`.** Four facts need a part of the state each. `Shape` is the part of
`TypeOK` that no sum enters. `Tracking`: attempts belong to live chunks, without which retiring an
attempt says nothing about its chunk. `Order` is what `RecoveryWorkFirst` lacks to be inductive: fresh
chunks lie above *every* live one, ready or not, since any live chunk may come back; and the
producer's cursor is above all of them, acknowledged ones and copies on the path included, since a
late acknowledgement must not find its offset fresh. `Identity`: ids tell attempts apart.

* `NoChunkStranded`: a chunk whose last attempt ended is in the ready set.
* `RecoveryStandsFirst`: what came back precedes fresh work, which is why `takeReadyLocked`
  may stop its scan at the first chunk without room.
* `AcknowledgedStaysDone`: no step dispatches an acknowledged chunk as new work.
* `CallbacksAreTheirOwn`: an attempt ends or is written by its own events only; a late callback
  finds its own attempt or none.

The two that say most need all of it at once. `SchedulerInv` is inductive:

| Part | What it says | Why it is needed |
|---|---|---|
| `Shape`, `Kinds` | types | |
| `Tracking`, `Order`, `Identity` | as above | which chunk an attempt is of |
| `Pairs` | of three attempts of a chunk two are the same, of two on a lane too; a ready chunk has one at most, a reliable one | `OneSpeculativeCopy` counts them; a dispatch must find room for one more |
| `Future`, `Covered`, `Ending` | nothing beyond the cursor has a size; the chunks held or acknowledged tile what was read; the end is the cursor's | a byte read is in one chunk, before and after a read of any size |
| `Ledger`, `LiveLedger` | `laneLoad`, `laneBytes`, `laneQueued`, `totalBytes` are the sums over the attempts that carry them, `liveBytes` over the live chunks | a release takes what an admission gave, in every order of the events that release |
| `Custody` | one reservation per retained data chunk, and one in the producer's hand | the producer releases the mutex between reserving and reading |
| `Bounds` | retained chunks and bytes, and that they are less when more may be read | the decision to read is taken before the read |

From it: `LedgersAreExact` (`LedgersInv`) and `NoByteIsLost` (`StripeInv`), for every set of lanes,
window, memory budget and length of the stream.

**`Sessions_proofs`.** A flow, end to end (`FlowDelivery`): the invariant is `IInv == TypeOK /\ Ledger /\
Closing`. `Ledger` says where each unit is: what the sender's record or a report *still on the path* claims is
held, what is buffered, retained or travelling was read, what was read is retained or held. Without the claim
about reports on the path, an old report could release a unit nobody holds, which is why `NothingForgotten` is
not inductive by itself. `Closing` ties every sign of the end (FIN, final acknowledgement, a closed sink,
success) to a source that ended with nothing retained. The run `sessions` checks `IInv`, too. From it:
`FlowInvariant`, `NoUnitForgotten`, `FINAfterDelivery`, `CompletionIsDelivery`, and `FlowIsAByteStream`: initial
states map to initial states and each action to a step of `ByteStream` or a stutter.

The receiver's memory (`ReceivePath`): `ReceiveIInv` adds `ReceiveShape` to `ReceiveInv`: what is buffered lies
beyond the cursor, a pump that is gone left nothing, a FIN taken is buffered while the loop runs, a loop that
returned let go. The weight of the queues is a sum over positions (`WeightOfAppend`, `WeightOfTail`); what a
contiguous run consumes is bounded by its end (`ReachStops`). From it `ReceivePathIsSafe`: charges are exact, an
accepted frame is held or delivered, and in order; and `ReadOrderIsKept` for every step.

The association (`UDPAssociation`): `WindowInv` is inductive, and the run `sessions` checks it, too: the types,
and `RelayedOnce` in three parts. That nothing relayed is above `highest` makes a new highest number fresh; that
the bits are exact within the width makes a clear bit mean a number never relayed. The bits stay exact when a
gap moves them (`ShiftKeepsTheWindow`), by cases on an offset: zero, inside the gap, or moved from where it was.
From it: `WindowInvariant` and `NothingRelayedTwice`, for every width and every number of packets. `EndingIInv`
is about the end: a farewell is the last frame of its stream and a reader reports an error only if it has not
read it (`ReadersStopThere`), and an end was told by somebody, but for a broken line or the server's own
(`EndsHaveGrounds`). `EndsAreToldTruly`: a close is not taken for a failure, and the end is told.

`ProbeIInv` of `PathProbe`: who holds an open connection at each step of a prewarm, that it is its own
generation's, and what a gateway has answered; it assumes natural bounds only (`ProbeConstants`).
`EchoersAreNotAccused`.

**`Endpoints_proofs`.** The control pool: `ControlInv`, which the run `endpoints` also checks, is the
types; `NoConnectionForgotten` (every open connection is the generation, in an attempt's
hands, or about to be closed); `OneAtATime` (the pool's dial is the newest attempt, and there
is none beside a living generation); `Newer` (whatever a flow holds is not older than what it
remembers of the last reset). `OneAtATime` is what makes publication safe: without it an
attempt could replace a generation that then has no owner. `Newer` is what makes
`NothingInherited` inductive. From it: `ControlInvariant`, `ConnectionsAreOwned`, `PathsAreNotInherited`,
`FailuresRetireTheirOwn`, `StreamsAreCounted` (the count moves with one flow's step).
The bulk pool: `BulkIInv` adds to who holds a connection that one just dialled is in no table and what is
pooled is not about to be closed; `BulkPoolIsSafe`, `ExpiryIsHarmless`. Joins: `JoinIInv` adds that
nobody but the installing step holds a winner, that the server hears of attempts whose dial succeeded, and
that a session leaves the table before a final refusal (`WordsHaveGrounds`); `JoiningIsSafe`,
`NoYoungLaneIsEvicted`. The demultiplexer: `DemuxIInv` says to whom each share belongs between two
look-ups of the table (`LanesBelong`) and that a frame is in one place; counts move with one lane
(`SumTheorems`), and what a lane hands over is chosen among what it took (`Among`). `FramesFindTheirLanes`.

**`Lanes_proofs`.** `WriterIInv` of `LaneWriter`: the slots balance, counting the producers between slot and
queue and the frame just taken out; the bulk queue's bound keeps the reserve; and after one
overtaking the writer looks before it chooses. `LaneQueueIsSafe`. `OpenIInv` of `FlowOpen`: every count
is that of a finite set of holders (`SlotsCounted`, `PendingCounted`, `PlacesCounted`), the limit divides into
natural parts (`LimitParts`), and only the attempt a flow is at has an open stream. Taking and returning are
lemmas of their own (`TakingCounts`, `ReturningCounts`, `PendingGrows`, `PlaceReturned`...), which the steps of the
two ends cite. `EveryPlaceComesBack`. `LifeIInv` of `LaneLife`: as long as the flow lives a pending deadline has a
waiter (`OutagesHaveWaiters`), so time does not move on beside a healthy lane while one is pending, and
whoever waits or would join the outage is granted a grace since a lane was last seen
(`OutagesLastAGrace`). `NobodyGivesUpEarly`. `WireIInv` of `LaneWire`: a frame is one writer's until it is done
(`PensAreTheirs`), the stream has each half once (`HalvesAreWritten`), and until a frame is cut off the stream
is pairs of halves with the lock's holder inside the last (`FramesAreWhole`); a frame that is cut off stays cut
off, which carries the rest. `FramesStayWhole`. `AckIInv` of `AckPath` rests on lemmas about the three passes for
every set of spans: merging keeps the bytes and leaves spans apart (`MergeIsExact`), compacting keeps the claim and
leaves spans above the point (`CompactIsExact`), coverage is membership (`CoveredIsExact`), each by the least
position at which it would fail, after the recursive function is shown to exist (`MergeUnfolds`). Then: what is
claimed, copied by the watcher, waits to be reported or is reported is held (`ClaimsAreHeld`), and nothing is held that
was not noted as sent (`HeldWasSent`). `SenderKnowsWhatIsHeld`. That nothing is forgotten adds that an unreported
cursor is due (`CursorIsDue`: awake or not waiting, and something to say) and that a chunk that can be completed
has somebody who will look (`ChunksAreDue`). `NothingIsForgotten`, without fairness, as it says what holds at rest.

**`Proxies_proofs`.** `ProxyIInv` of `ProxyClient`: the offer under way is the one the client knows of, and
there is one only while what is shared is of no use (`OneDial`), which is why an installed connection replaces
none that would be left open; a connection is shared, doomed, lost or in its offer's hands (`LinksAreOwned`);
until its counter wraps the sessions on a connection have numbers below the counter, so that the next is free,
and after that the table may name another (`UsersAreCounted`). The invariant speaks of each connection's own
users, so a caller's step is one lemma about its connection (`LeavingIsCounted`, `ListeningIsCounted`...) and
one about all the others (`OthersAreKept`). `TheSharedConnectionIsSound`, for each of the three packages.

`ServerIInv` is about `ProxyServer`: a number leads to the newest session that has it (`TableIsTrue`), a reader
is about to enter a session only after authentication, and to delete what has ended (`ReadersKnow`), a session
under way is on the table unless an end of its number came between (`NoneIsLost`), and with one loop nothing is
entered between its look and its entry (`OneReader`). `SessionsHaveOwners`.

`RelayIInv` is about `ProxyStream`: a direction carries consecutive data, headed at most once by the request or
by the answer (`UpInOrder`, `DownInOrder`), and the client has read nothing while the answer is on its way.
`RelaysKeepOrder`. `DatagramIInv` of `ProxyDatagram`: a fragment under way is a piece of a payload that was
written, under one of its cuts (`AllKnown`), which covers it without gap or overlap (`CutIsWhole`); two pieces
of one payload and one total join unless it was cut twice alike (`AllJoin`); a number names one payload as long
as a fragment of it is under way (`OneNumber`), and what is gathered under a number has one total
(`GatheredApart`). That as many parts as the total are all of them is a count of distinct indices
(`EveryPartIsThere`). `PayloadsAreWhole`; it rests on a packet number coming back only after what it named has
gone (`NumberIsFree`).

`CodedIInv` of `CodedSend`: every frame that was taken was refused or is somewhere (`HasPlace`): packed with
others, in what is to be emitted, or carried, whole or as every one of its fragments; nothing but the rest of a
frame stands behind its fragment, so that a fragment refused for its size takes all that follow it along and no
other frame's (`Places`); and each place of the loop leaves nothing behind (`Stages`): a sender that waits has
packed nothing and has nothing left to emit. That the numbers of the symbols have no gap is a type: the next one
is that of the last one sent. `FramesGoOutWhole`. `Assembler` assumes of a sender what `CodedSend` does: the
fragments of a frame follow one another (`AssemblerConstants`). Its invariant says that what is gathered under a
first symbol are fragments of that frame, fewer than all, and that there is one group for a first symbol
(`TableOK`); and that a group has begun and its last symbol may still come (`Waits`). `FramesAreAssembledWhole`.

`FecIInv` of `FecWindow` says of a repair that was sent that it is a true equation over consecutive symbols, of
a decoder that has begun that its window has its full width (`Stands`), of its slots that each holds the symbol
of the window that belongs there, of its rows that they are over what the window lacks (`DecFits`) and have two
unknowns at least (`Wide`); and, until a source has come that a row had for its pivot, that every row is true,
the rows are in reduced form and each slot has the value that was sent (`DecTrue`). Its steps rest on a little
linear algebra over the remainders of a prime. Taking one row out of another leaves a row, without the pivot of
the first (`LessIsRow`, `PivotLeaves`), that whatever solves both solves (`LessHolds`: sums are linear, and
numbers that are a multiple apart have one remainder); making a row lead with one changes no solution
(`ScaledIsRow`, for which each coefficient has an inverse: `FecConstants`). So a repair reduced by what is held
and by the rows is a true row over what is missing, without any row's pivot (`ReducedIsRow`), and clearing its
pivot from the others keeps the reduced form (`ClearedAreReduced`); in that form a row with one unknown is that
symbol (`OneUnknown`). A pass of `harvest` takes a row away or finds none to take, so as many passes as there
were rows leave none of one unknown (`HarvestedFits`). The folds and passes are recursive functions, followed
by the least number or smallest set for which the claim would fail. `RowsStaySolved`. Without the condition on
pivots the claim is false: that is finding 5.

**`Paths_proofs`.** How a peer is reached. `RealmIInv` of `RealmServer`: a request carries the loop's own
session, and a registration replaces nothing that lives (`RequestsAreItsOwn`); what the control has when its
answer is under way (`AnswersAreTrue`); a discovery that is to answer a reset began no earlier
(`DiscoveredSince`); and whatever lives once the server closes is what it deregisters, or was lost
(`CloseKnows`). `RegistrationsAreKnown`. `PunchIInv` of `RealmPunch`: a family races over its open socket, once
the control introduced the two sides (`RacersHaveSockets`), and who sends was told of the attempt
(`PacketsHaveSenders`). `TheRaceIsCleanedUp`. `HopIInv` of `PortHop`: a port that is left in the round was drawn
at the earliest when the last one began (`AgesAreRounds`), and a dial's window of samples is since its last hop
(`WindowsAreSince`). `EveryPortComesAround`. `HopSocketIInv`: an older socket gives way to a younger one only
(`YoungerReplace`), and a close has both sockets it found to close (`CloseFound`). `NoSocketIsLeftBehind`.
`GeckoIInv` of `Gecko`: the chunks gathered for a packet are apart, of one number and one total, so that as many
as the total are all of them (`EveryChunkIsThere`). `PacketsAreTheirOwnChunks`.

How fast a sender may be. `CubicSender`: what was sent since the last cut is of flights no loss was blamed on
(`FlightsAreApart`), and until one of them is acknowledged the window is no larger than its threshold
(`CutStands`). `LossesCutOnce`. `BBRIInv` of `TuicBBR`: its parts of the same names, over bounds of the windows
as stored (`WindowsHold`). `RecoveriesLast`. `ErasureIInv`: what was paid for was paid by the round of the last
step (`paidRound`). `CompensationIsSlow`. `PathIInv` of `PathModel`: what a node keeps (`NodeFits`), and that a
share a lane was told comes from nodes that had measured enough and had another lane, and is from each one's
part of what it carried (`ToldFits`). `NobodyIsHeldBackAlone`. `GroupsIInv`: aliases lead down to a group of its
own (`Leads`), the same for groups that were merged (`Together`), and no set of groups that keeps the merged
together parts a group from its alias or from what its chains cross; so the end is the least of those joined,
and crossed are no others. Aliases are followed 16 times at most (`tree.go:299`), and past that the code stops
short of the end; so the theorem is about at most 17 groups (`GroupConstants`). `MergedGroupsMeet`. `QueueIInv`
of `PacketQueue`: the ring's head and tail fit its slots, before and after it grows (`RingFits`), and it holds
each packet kept at its offset and nothing elsewhere (`Shows`). `PacketsAreFound`.

**`Services_proofs`.** `MemIInv`: the configuration is resolved within the budget (`MemLimits`) and a waiter
asks for something; the sum moves with one holding (`HeldMoves`). `NobodySleepsBesideRoom`. `RateIInv`: what was
granted *and what is left in the buckets* was earned until the last refill (`Earned`); `RateInv` alone says
nothing of the tokens a request may take next. `NoRateIsOverspent`. `MuxIInv`: who has no route in the current
generation was read before everybody who has one (`RoutesAreRecent`), so that whoever falls out of both has a
generation's worth of peers read since. `RepliesFollowTheirPeers`.

What a server and its peers promise as a whole is proved of `MCServices` itself. `side` does not change, and the
part that moves starts in its own initial states (`PartsStart`) and takes its own steps (`OnePartMoves`,
`PartsStep`), so a behaviour of `MCServices` on a side is one of that part, and the part's theorem applies.
`ProxiesAreSound`, from `TheSharedConnectionIsSound`, `SessionsHaveOwners`, `RelaysKeepOrder`,
`PayloadsAreWhole`; `PeersAreReachedSoundly`, from `RegistrationsAreKnown`, `TheRaceIsCleanedUp`,
`EveryPortComesAround`, `NoSocketIsLeftBehind`, `PacketsAreTheirOwnChunks`; `CodedFramesAreWhole`, from
`FramesGoOutWhole`, `RowsStaySolved`, `FramesAreAssembledWhole`; `SendersAreHeldToTheirPath`, from the six of
`Paths_proofs` above.

**Only model-checked**: all liveness (`StreamDrains`, `AcceptedIsProcessed`, `EndsReachTheOther`,
`FlowCompletes`), and everything with `ENABLED`, which is `NobodyWaitsInVain`: both beyond the prover. What
`TeardownReleasesAll` says is of states where everybody waits, at the instance's size. Every other property of
the passing runs is a theorem's.

## What is not modelled

* Time as a quantity, but where a property is about it: the grace of an outage (`LaneLife`), the
  budget's refill (`RateBudget`), ages of reports (`PathModel`), expiry in halves of a lifetime
  (`Gecko`), cooldown in polls (`PortHop`). Elsewhere deadlines and backoff are "has passed" flags
  or steps that may happen; which of two timers is first is always open.
* Sizes of real frames, encoding, encryption, authentication: a JOIN that reaches the model is
  authentic. `session.go`, `open.go`, `protocol/frame.go`, the codecs of the proxies, STUN.
* The choice of lanes and paths by measured quality (`pathseg`, `classifier`): wherever the code
  chooses, the models leave the choice open, so what is shown holds for any.
* GF(256) and the rate arithmetic of `fec/gf.go`, `fec/rate.go`: algebra, not behaviour. The
  window is modelled over another field.
* Estimators over real values: the filters and pacers of the congestion controllers,
  `adaptive.go`, `brutal.go`, `lossmodel`, Cubic's growth curve. What they decide is a value of a small
  set, and the control around them is modelled.
* `congestion_meta2/bbr_sender.go` and `bandwidth_sampler.go`, a port of a third-party sender,
  but for the queue and ring under it.
* Metrics, logging, platform glue, the sing adapters, the HTTP masquerade of Hysteria2.
* The stop of a whole queqiao server, which ends every session.
* Composition beyond a flow: the parts of a composite share no state in the model. In the code
  they meet by calls whose outcomes the parts leave open (a dial succeeds or not, a lane is
  granted or not).

## Plan

The order is by what a failure costs a user: first data, then connections, then admission and
memory, then the rest.

1. Done: `StripeScheduler`, `AckPath`, `ReceivePath`, `FlowDelivery` implementing `ByteStream`;
   `ControlPool`, `BulkPool`, `LaneJoin`, `BulkDemux`; `UDPAssociation`; their first theorems.
2. Done: `FlowOpen`, `LaneLife`, `LaneWriter`, `LaneWire`; the budgets; the proxies with their
   sessions and datagrams; realm, hopping and obfuscation; coded datagrams; path probes, the
   path model and the congestion controllers.
3. Done: theorems about every safety invariant and action property of the runs, but for what needs
   `ENABLED`: see the section on the proofs.
4. What is left to model is listed above; what is left to prove is beyond the prover.

To repeat the checks: `tlc -config MCX.cfg MCX` for each configuration, `tlapm X_proofs.tla` for
each proof module.
