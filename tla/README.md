# Verification of MiniSFU

MiniSFU is a selective forwarding unit for WebRTC written in Go.  Clients
connect by JSON-RPC over a WebSocket, join a *session*, send their audio and
video on one PeerConnection (the *publisher*) and receive everybody else's on a
second one (the *subscriber*).  The SFU forwards RTP packets, answers NACKs from
a cache, and moves each receiver of a simulcast track between quality layers.

This directory holds TLA+ modules for the parts of MiniSFU whose correctness
depends on the order in which things happen, TLC configurations that check them
on small instances, and TLAPS proofs of their main invariants.  `PROJECT.json`
lists the components, the runs, the source lines behind every definition, the
hazards of the code and the theorems.

## 1. Inventory of the system

| Component | State | Operations | Talks to |
|---|---|---|---|
| Signalling (`signal/signal.go`, `internal/sfu/peer.go`) | `Peer.closed`, `remoteAnswerPending`, `negotiationPending`, queued ICE candidates | `join`, `offer`, `answer`, `trickle`; `Peer.Close` after the connection is gone | client, Publisher, Subscriber, Session |
| Subscriber (`subscriber.go`) | PeerConnection, `tracks` per stream, data channels, debounced `negotiate` | `AddDownTrack`, `RemoveDownTrack`, `CreateOffer`, `SetRemoteDescription`, `Close` | Peer by the negotiate callback, routers by AddDownTracks |
| Publisher (`publisher.go`) | PeerConnection, router, candidates | `Answer`, `OnTrack`, `Close` | router, Session |
| Session (`session.go`) | `peers`, data channel labels, `closed` | `AddPeer`, `RemovePeer`, `Publish`, `Subscribe`, `AddDatachannel` | routers and subscribers of all peers |
| SFU (`sfu.go`) | `sessions` | `GetSession`, `newSession`, deletion by the close handler | sessions |
| Router (`router.go`) | `receivers`, `stats`, `rtcpCh` | `AddReceiver`, `AddDownTracks`, `sendRTCP`, `Stop` | receivers, buffers, publisher's PeerConnection |
| Receiver (`receiver.go`) | `upTracks`, `buffers`, `downTracks`, `locks` per layer | `AddUpTrack`, `AddDownTrack`, `SubDownTrack`, `DeleteDownTrack`, `writeRTP`, `closeTracks`, `RetransmitPackets` | buffers, down tracks, router |
| Down track (`downtrack.go`, `sequencer.go`) | layers, `reSync`, offsets of SN and timestamp, ring of sent packets | `WriteRTP`, `handleRTCP`, `handlerLayerChange`, `SwitchSpatialLayer`, `Bind`, `Close` | receiver, pacer |
| Buffer (`buffer.go`, `bucket.go`, `nack.go`) | ring of packets, NACK queue, counters of the reports | `Write`, `Bind`, `calc`, `GetPacket`, `Close` | receiver by `PacketChan`, router by feedback callbacks |
| TWCC (`twcc.go`) | arrival times | `Push`, `buildTransportCCPacket` | router |
| Pacer (`pacer.go`) | queue | `Enqueue`, its goroutine, `Stop` | down track |
| Buffer factory (`factory.go`, `rtcpreader.go`) | buffers and readers per SSRC | `GetOrNew`, `GetBufferPair` | pion |

What is hard in it: almost every callback runs in a goroutine of its own, and
the goroutines of one peer work on the state of all others.  No lock spans a
whole operation; Join and Publish copy the list of peers, `closeTracks` the list
of down tracks, and go on with the copy.  Connections fail at any time, with a
close path that bypasses the Peer's lock.  Writers take a layer's lock, and
sometimes a second one.  Sequence numbers wrap around.

What makes each part correct:

* **Negotiation**: at most one offer is outstanding, an answer is applied to its
  own offer, and no change of the tracks is forgotten while one is.
* **Fan-out**: a peer that joins while a track is published gets it exactly
  once; a track that ends disappears everywhere.
* **Sessions**: peers of one id meet in one session; empty sessions go away,
  and none that is closed is offered.
* **Layers**: a down track always has one source, changes it on key frames only,
  every switch ends, and another one may follow.
* **Buffer**: a recent packet is found under its number and no other one is;
  what is missing is asked for, within limits, and what arrived is not.
* **Retransmission**: no number names two packets, and the number the client
  saw leads back to the packet that was sent.
* **Reports**: the counters and what is computed from them agree with what was
  sent and received, over a wrap-around too.
* **TWCC**: a client that decodes the feedback learns what arrived and, as
  precisely as the format allows, when; every number is told once.
* **RTCP and teardown**: nobody waits for a channel whose reader waits for him;
  no channel is used after it was closed; ended tracks are forgotten.
* **Data channels**: a label that one peer opens reaches all the others, whenever
  they join.

## 2. Modules

| Module | Models | Checked by | Proved in |
|---|---|---|---|
| `OfferAnswer` | the promise: versions are offered one at a time | refinement | `NegotiationProofs` |
| `Negotiation` | the callback of `Join`, `SetRemoteDescription`, `negotiate`, closing | `negotiation` | `NegotiationProofs` |
| `Subscription` | `Session.Subscribe`/`Publish`, `AddDownTracks`, `closeTracks`, `Peer.Close` | `subscription`, `subscription_orphan` | `SubscriptionProofs` |
| `SessionRegistry` | `GetSession`, `AddPeer`, `RemovePeer`, close handler | `registry`, `registry_split` | `SessionRegistryProofs` |
| `LayerSwitch` | per-layer lists, locks, writers, `SwitchSpatialLayer` | `layers` | `LayerSwitchProofs` |
| `NackQueue` | `nack.go`, as operators from queue to queue | with `PacketBuffer` | `BufferProofs` |
| `PacketBuffer` | `Buffer.calc`'s order of packets, `Bucket` | `packets` | `BufferProofs` |
| `Retransmit` | sequence number offsets, `sequencer.go`, `RetransmitPackets` | `retransmit` | `RetransmitProofs` |
| `Teardown` | `rtcpCh`, `sendRTCP`, `Buffer.Write`/`Bind`/`Close`, `AddReceiver`, `Publisher.Close` | `teardown` | `TeardownProofs` |
| `ReceptionReport` | counters of `calc`, `buildReceptionReport`, `buildREMBPacket` | `reports` | `BufferProofs` |
| `Twcc` | `Responder.Push`, `buildTransportCCPacket` | `twcc` | `BufferProofs` |
| `DataChannels` | `AddDatachannel`, the labels in `Subscribe`, `getDataChannels` | `datachannels` | `DataChannelsProofs` |

The `MC*` modules instantiate a module for its runs and name symmetries.
Definitions commented with *Variant:* are the model with a plausible mistake in
it (a dropped guard, a missing reset); no specification uses them.  They serve
to show that a property notices the mistake.
Every module has a `TypeOK`; where no run lists it, it documents the variables.

### Negotiation

State: the three flags of `Peer`, the signaling state of the subscriber's
PeerConnection, the debounce timer, callbacks that wait for the Peer's lock,
the messages on the wire.  The content of an offer is abstracted to the version
of the media sections it was made from.  Every critical section of the Peer's
lock is one action (`OnNegotiationNeeded`, `SetRemoteDescription`, `Close`);
`ChangeTracks` and the later `Negotiate` are two, because no lock spans them;
`IceFailed` closes the PeerConnection without the lock.  The client and the
PeerConnection are external: a closed PeerConnection refuses offers and answers,
one with an outstanding offer refuses another.

### Subscription

State: `Session.peers`, per peer the progress of Join and Close and the copied
list it still has to visit, per track its receiver's life, the progress of
OnTrack and the copied list of peers, and both lists of down tracks (the
receiver's and the subscriber's), as counts.  Actions are critical sections of
the session's and the receiver's lock.  The router's lock is held longer: `call`
is the AddDownTracks that has it.  `Lock` takes it for Subscribe (all receivers)
or Publish (one), `AddDownTrack` puts a down track on the subscriber's list,
`HandOver` on the receiver's, under another lock, and `Unlock` ends the call.
Writers and `closeTracks` do not take the router's lock and may run between any
two of these.  A track has one layer and is published once.  `Peer.Close`
follows `Join` because the handlers of one connection run one after another; ICE
failures come at any time after Join, for the peers in `Fragile`.  A data race
on the peers map (written under a read lock) is not modelled: it ends the
process.

### SessionRegistry

State: the SFU's map at one session id, the Session each peer holds, the members
and the `closed` flag of each Session, and the progress of Join and Close.
Lookup and creation, removal, the emptiness test, the setting of `closed` and
the deletion are separate actions, as they are in the code.  A peer joins once.

### LayerSwitch

State: per layer the list of down tracks, the holder of the lock and the
writer's position; per down track the current and the target layer, `reSync` and
`lastSSRC`, and the RTCP handler's position.  A packet is a key frame or not.
The bitrate thresholds and the delay of 5 s between two switches are replaced by
a free choice of the target among the layers the code can choose
(`Choices`).  What the word stored at `downtrack.go:341` decodes to is modelled
(`StoreLayer`).  `EarlyReports` says whether an RTCP report may come before the
first key frame.  The run excludes it: with it, a switch may begin while `reSync`
is set, and then a key frame of the current layer makes that layer's writer,
which holds the lock, wait for the same lock in `DeleteDownTrack`
(`downtrack.go:338`), for ever; `OneSource` and `SwitchCompletes` then fail.

### PacketBuffer and NackQueue

State: the ring and its head, `maxSeqNo`, the NACK queue with its cycle counter.
The sender's packets are numbered without bound, their sequence numbers are
taken modulo `Modulus`, so one can ask whether the right packet is found.
`received` and `asked` are history variables.  The ring is memory from a pool:
`Buffer.Close` puts it back uncleared, so the slots begin empty or with a packet
of an earlier stream (`PoolMemory`), which `get`, comparing the sequence number
alone, may find.  `Leftover` holds the numbers such packets have.  The network
loses, delays and reorders.  Duplicates do not occur: pion's SRTP replay
protection drops them (external).  The two loops, that of `addPacket` over the
missing numbers and that of `pairs` over the entries, are recursive functions
(`PushBefore`, `VisitAll`).  A NACK names a sequence number; `OnLost` counts it
for the newest packet that has it.  `counter` is a byte in the code; it is at
most two more than what is lost at once and does not wrap around below 254
losses in a row.  `BufferProofs` extends this module, `Twcc` and
`ReceptionReport` together, so each has its own names for the specification
(`BucketSpec`, `TwccSpec`, `Spec`), the modulus and the bounds.

### Retransmit

State: the offset and the last sequence number of a down track, the sequencer's
ring, and the request its worker is to serve.  It rests on two other modules:
one writer at a time sends to a down track (`LayerSwitch`), so forwarding a
packet is one action, and a Bucket yields the wanted packet or none
(`PacketBuffer`).  A down track switches once, from layer 0 to layer 1, which is
what the code can do (`StoreLayer` in `LayerSwitch`: the word stored after the
switch has target 0 and looks like a switch that has not ended); a track that is
not simulcast never switches.  `sent` and `resent` are history variables.  A
late packet is stored at the ring's step, not at its own place, as
`sequencer.go:82` has it; the packets before it are then no longer found.
`SentIsFound` therefore speaks of packets that no late one followed.

Two more history variables give every packet a *place* in what the client gets,
which is its number without the wrap-around: packet `i` of layer `l` has place
`shift[l] + i`, and `reach` is the place of the packet with number `lastSN`.
`NumbersAreUnique` has two exceptions, both of which the code has.  A late packet
of the new layer from before its key frame gets a number of the old layer.  And
`lastSN` follows only packets that are the newest of their layer
(`downtrack.go:370`): if the key frame that starts the stream is itself late and
only late packets follow it, the new layer begins among their numbers.

### Teardown

State: how many elements `rtcpCh` and each `packetChan` hold, the stage of every
goroutine (SRTP reader, `calc`, OnTrack callback, writer, RTCP handler,
nackWorker, a joining peer, `Publisher.Close`) and, through the stages, who has
which lock: the Buffer's, the layer's, `rtcpMu`, the router's, the Responder's.
Every send on a channel that may block is an action of its own, taken while the
sender's locks are held.  `calc` is run by `Write` and, for the packets that
waited, by `Bind`, which does not ask whether the Buffer is closed.  Two
goroutines have a stage `"panic"`.  The OnTrack callback gets there when it uses
a nil Buffer or a nil RTCP reader, or when Bind sends on a closed `packetChan`.
The RTCP handler gets there when `closeTracks` stops the nackWorker between the
test of `Stopped` (`Retransmit`) and `Submit`, which then sends on a closed
channel.  pion is external: one goroutine reads SRTP packets and closing waits
for it; stopping the receiver of a track closes its RTCP stream first and then
its Buffer (`CloseStreams`), so for a while there is a Buffer without a reader.
Whether a packet leads to NACKs, a TWCC feedback, a report or a PLI is left
open, so the model has every combination of full and empty channels.

### ReceptionReport

State: the counters of a `Buffer` at their widths (`Mod` for 16, `Big` for 32
bits) and the last report; history variables hold what the sender sent and what
arrived.  `Count`, `ProbePacket` and the functions of `buildReceptionReport`
follow the code in its order, and the products and differences of 32 bits wrap
around at `Big`; a packet that does not parse is counted but does
not probe.  The float arithmetic of `LostRate` is replaced by exact fractions;
the conversion of a negative number to `uint64` yields 0 or a huge number.

### Twcc

State: the `Responder`.  The clock is finer than the 250 us in which differences
are told: `Tick` of its units are one of those.  `InTicks` truncates, as the
division in the code does, and the next difference is taken to the exact time, so
what is dropped adds up over the packets of a feedback.  The arrays for chunks and
differences have `ChunkRoom` and `DeltaRoom` places; a feedback that does not fit
ends the process (`Panicked`).  `TccPkts` is the list
with the missing numbers filled in, `AddStatus` one turn of the loop over it,
`WriteRest` what follows the loop.  A chunk is the sequence of its symbols, so
decoding is concatenation; the properties are stated over what a client decodes.
The byte layout, the padding and the header's constant fields are left out.

### DataChannels

State: the peers of the session, the labels that are fanned out, each
subscriber's channels, and the progress of Subscribe and AddDatachannel over the
lists they copied.  `AddDataChannel` of the subscriber is two steps: the
look-up, and the creation and store of a new channel (`SubscribeMakes`,
`AddToMakes`).  The subscriber's lock is held in between, but `AddDatachannel`
of the session writes the same map without it (`OpenChannel`), so the client's
own channel may be overwritten.  A channel may be closed by a client in
`Closers`; messages are sent only on open ones.  A client opens a label once.  A
pointer to a channel is abstracted to who made it (the SFU or the client), which
is enough to see a handler set on a channel that has been replaced.  A channel
made by the SFU opens after it was offered; negotiation is that of
`Negotiation`, abstracted to `Offer`.  A channel that opens after its owner has
left ends the process (`OpenChannelPanics`).

## 3. Runs

| Run | Expected | What it shows |
|---|---|---|
| `negotiation` | pass | Up to four changes or requests, one refused answer, any loss of the connection, any close: the pending flag mirrors the PeerConnection, exchanges do not overlap, no change is forgotten, and under fairness the client catches up.  The whole is an `OfferAnswer`, liveness included. |
| `subscription` | pass | One publisher and two watchers that join and leave in any order, one of whom may fail: nobody gets a track twice or his own, the two lists agree but for a down track that is being handed over, nobody is forgotten, and under fairness who stays is served. |
| `subscription_orphan` | violation | A down track added between the copy and the emptying in `closeTracks` stays with its subscriber. |
| `registry` | pass | Four peers under one id: no dead session stays in the map, none leaks. |
| `registry_split` | violation | Two peers that join together get two sessions. |
| `layers` | pass | Two down tracks, three writers: always a source, never two, changes on key frames only; no deadlock; a switch that began is completed. |
| `packets` | pass | Recent packets are found, across a wrap-around, and no other in place of one that arrived; the number of a lost packet may yield one that is a whole cycle old, or one of an earlier stream in recycled memory, until its slot is used; in the first cycle exactly the missing ones are asked for, `MaxNackTimes` times. |
| `retransmit` | pass | Two layers under loss and reordering and a switch between them: no number is used twice (but for stragglers of the new layer, and after a stream of late packets only), what was sent in order is found again, nothing else is sent in its place. |
| `teardown` | pass | Packets, NACKs, reports, PLIs, a joining peer, removed tracks and `Publisher.Close` over channels that are full: `Write` never meets a closed channel; the goroutines of the model panic only for a track that is ending (a late OnTrack callback, a retransmission after `closeTracks` has stopped the nackWorker); and until one of them does, or `rtcpCh` is full after its reader stopped, Close returns, joins get through and ended tracks are deleted. |
| `reports` | pass | Loss, reordering and unparsable packets around a wrap-around: newest number, total and fraction of lost packets are right, REMB follows them. |
| `twcc` | pass | What a client decodes from each feedback is what arrived, except that the second half of a mixed rest reads as lost, and no arrival is made up; the times are right up to less than 250 us for each packet since the reference time, as long as no difference leaves 16 bits; no number is left out or told twice; the arrays overflow only if a feedback tells of very many lost numbers or almost all its differences are large. |
| `datachannels` | pass | Three peers, of which two open channels, one closes a channel, one leaves and one fails: nobody is forgotten, and who stays reaches the others on channels that stay open. |

The `violation` runs each state what a comment of the code says; TLC's
counterexample shows that the code does otherwise.  `PROJECT.json` quotes the
comments under `findings`.

Other disagreements between code and comments that the models have in them, so
that the properties hold with them, are recorded as hazards: the layer word at
`downtrack.go:341`, the writer that waits for its own lock (`downtrack.go:338`),
the key frame request that is dropped with an empty list of packets
(`bucket.go:71`), the half-written rest at `twcc.go:261`, the drift of the told
times (`twcc.go:177`), the overflow of the arrays of a feedback (`twcc.go:330`),
the uncleared memory in the pool (`buffer.go:245`), the panics of a late OnTrack
callback (`router.go:73`, `buffer.go:179`) and of a late retransmission
(`receiver.go:247`), and `Publisher.Close` hanging when `rtcpCh` fills up after
`sendRTCP` has ended (`router.go:169`).  Where a property excuses such a case,
the hazard says so.

**Bounds.**  `MaxRequests = 4`: the longest pattern of the protocol needs three
(one offered, one deferred, one that arrives while the deferred one is being
started).  One refused answer suffices since a refusal leaves no trace. Three
peers and one track in `subscription`: every race is between one subscriber and
one track; the third peer is there because a failing peer in Publish's loop may
harm the next.  The publisher's own failure is left out of the run (`Fragile`):
the end of its track and its Close give the same states of the lists.  Four
peers in `registry`: two that create, one that finds, one that enters while
another deletes.  Two down tracks and three layers in `layers`: lists of length
two are the first on which `DeleteDownTrack`'s swap with the last element
matters, three layers are all the code has.  `Modulus = 12`, a ring of 4 and 14
packets in `packets`: the sequence numbers wrap around, the ring does so three
times, gaps of 3 and reordering of 3 reach its whole length, and a slot can keep
a packet for a whole cycle of the numbers.  Two numbers in `Leftover`, in any
slots, put packets of an earlier stream where they are found and where they are
not (both are exceptions of `NeverAnotherPacket`). A queue of `MaxNackCache = 6`
is just long enough for two rounds with gaps of 3: it drops entries, but only
zeros and those that are given up.  With one place less and a longer cycle
(`Modulus = 26`) a packet is dropped before it has been asked for twice, and TLC
finds `MissingIsAskedFor` violated; in the code three rounds fit into 100 places
as long as no more than 32 packets are lost in a row. `MaxLate` is below
`MaxSteps`; a packet exactly `MaxSteps` behind overwrites the newest one
(`bucket.go:80` compares with `maxSteps + 1`), which is recorded as a hazard. A
ring of 4, numbers below 18 and five packets on each layer in `retransmit`: the
ring is filled and overwritten, numbers wrap around before and after the switch,
the key frame of a switch, or of the beginning, may itself be late, and gaps of
3 let a layer run ahead by more than what is late. One track with channels of
one place in `teardown`: all locks and channels are those of one track and the
router, a channel with one place is full and empty equally often, and one
pending packet suffices for Bind to go through `calc`; what several tracks could
add (invariants only) is proved for any number. `Mod = 16` and 14 positions in
`reports`: one wrap-around, with `MaxReorder` and `MaxLoss` of 2 on both sides
of it, and `Probe` above `MaxReorder` as 25 is above what a network reorders;
two bitrates, below and above the floor of REMB; with `Big = 2048` the product
with 256 wraps around from 8 lost packets on. Vectors of 4 and 2 symbols, 2
packets to allow and 5 to force a feedback and nine positions in `twcc`: runs,
one-bit and two-bit vectors, a rest of each kind and a wrap-around all occur;
two units of the clock to a `Tick` and steps of 1 and 6 of them make the
division truncate and differences small, large and out of range of `Int16`;
three chunks and ten bytes of differences both overflow; the media SSRC is set
or not yet (`SSRCs`).  Three peers and one label besides the SFU's own in
`datachannels`: labels do not interact, and a third peer is needed because a
failing one in the loop may harm the next; all three join at any time, so a
label may be opened before, during or after a join; one client that closes a
channel suffices, as channels do not interact.

**Symmetry.**  Only in the runs of the registry, which have no liveness
properties: the model uses the peers without order or choice.

**Deadlock** is checked where the system should go on for ever (`layers`).
Elsewhere everybody may have left, or the bound on requests or packets is used up.

**Fairness.**  Weak fairness for goroutines that can go on, for armed timers and
for the reading of messages: the Go scheduler, `time.AfterFunc` and the
sequential JSON-RPC handler give that.  Weak fairness for a connected client's
answer to a valid offer; `ClientCatchesUp` is about such clients.  Strong
fairness in `LayerSwitch` for taking a lock: `sync.Mutex` hands a lock to a
waiter after 1 ms, so a lock that is free again and again is got.  Strong
fairness for key frames: a publisher is asked for them by PLI until one comes.
Strong fairness in `Teardown`
for locks and channels, for the same reason (waiters at a channel are served in
order); weak fairness for `sendRTCP`, which is its channel's only reader.  In
`DataChannels` weak fairness for goroutines and for a connected client that
answers an offer.  No fairness for joining, publishing, opening, leaving, failing
and for packets.

## 4. Proofs

All theorems hold for every value of the constants that satisfies the named
assumptions.

* `NegotiationProofs`, from `BoundsAssumption`: `TypeCorrect`,
  `PendingFlagSound`, `ExchangesDoNotOverlap`, `NothingForgotten`,
  `RefinesOfferAnswer`.  The inductive invariant `IInv` adds to the properties
  that a deferred renegotiation has an answer to wait for (`negotiationPending
  => remoteAnswerPending`; otherwise it would be started by nobody), that a
  closed peer's PeerConnection is closed (otherwise an offer could be made and
  not be sent) and that a lost connection delivers nothing. The refinement maps
  the unanswered offer to `offered` while `remoteAnswerPending`; it uses that
  the answer on the wire carries just that version.
* `SubscriptionProofs`, from `OwnerAssumption` and `FragileAssumption`:
  `TypeCorrect`, `NoDuplicateDownTracks`, `LiveListsAgree`, `RaceIsCovered`.
  `NobodyForgotten` is the heart: AddPeer precedes the copy of the peers in
  Subscribe, AddReceiver precedes the copy in Publish, so whichever copy is
  later sees the other side.  The strengthening says that tracks arrive after
  their owner's Join, that the router lists a receiver while it is live, that
  nobody has himself on his list, and that the two lists agree until one is
  emptied and `closeTracks` closes nothing that is not there (so that counts
  stay natural numbers).  All of it is up to the down track that is `InHand`,
  given to the subscriber and not yet to the receiver, and the strengthening
  says that a router's calls are for its own tracks and for other peers.
* `SessionRegistryProofs`, from `NoneAssumption`: `TypeCorrect`,
  `EmptySessionsPass`, `NoDeadSession`, `NoSessionLeak`, for any set of peers,
  finite or not.  `IInv` adds that the members of a session are the peers that
  are in it, and that only sessions some Join created are stored, held or
  closed.

* `TeardownProofs`, from `TeardownAssumption`: `TypeCorrect`,
  `NoWriteAfterClose`, `PanicsNeedEndingTrack`, for any set of tracks and any
  capacity of the channels.  `IInv` adds that a Buffer that is open is in the
  factory's map (so a callback that finds none is too late), the order of closing
  (`ClosedInOrder`: the RTCP reader, the Buffer, the nackWorker), and that `calc` on
  behalf of `Bind` is run by the OnTrack callback.  A Buffer in `Write` is open
  because `Write` tests `closed` under the lock that `Close` needs.

* `LayerSwitchProofs`, from `SwitchAssumption`: `TypeCorrect` and
  `KeyFrameFirst` always, `AlwaysFed` and `NeverTwoSources` unless reports come
  early (`~EarlyReports`; with them both fail, see section 2), for any set of
  down tracks.  `IInv` follows the life of a down track: it waits for its first
  key frame on one list, may then go up once, from layer 0 to layer 1, and stays
  there.  `TrackOK` says for every stage of it on which lists the down track is
  and where its RTCP handler is; `WriterOK` says that a writer between the two
  halves of a switch holds its layer's lock and works for a down track in the
  right stage, so no second writer can move it.
* `BufferProofs`, on `ReceptionReport`, from `ReportAssumption`: `TypeCorrect`,
  `NewestReported`, `TotalLostReported`, `FractionReported`, `RembReported`, at
  any widths of the counters and any number of wrap-arounds.  `NewestOK` relates
  `maxSeqNo` and `cycles` to the newest position: loss and reordering below half
  of the numbers make the comparison of 16 bits right.  `BaseOK` needs that what
  precedes the first packet arrives while the base is still probed.
  `PositionsOK` counts what arrived and what may still arrive between the
  earliest and the newest, so that no subtraction of the report goes below zero;
  `SeenOK` keeps the last report's values.  The fraction is right unless late
  packets outnumber lost ones or the product with 256 reaches `Big`.  The
  assumption `Last + 1 < Big` is needed: when `packetCount` wraps to 0 the
  counters start anew.
* `BufferProofs`, on `PacketBuffer`, from its two assumptions and `MaxLate <
  MaxSteps`: `RingInvariance`, `RecentFound`, `WrongNotFound`, for any ring and
  any number of wrap-arounds.  `RingInv` gives every packet a slot, as far
  behind the step as the packet is behind the newest one, which no later arrival
  moves (`SlotStays`), and says that a slot holds the newest packet that arrived
  for it, or what was in the memory before.  Two packets less than the ring's
  length apart have different slots, so a recent one has not been overwritten;
  two packets with one number are a multiple of `Modulus` apart, so a wrong one
  is a whole cycle old or of another stream.  `MaxLate < MaxSteps` is needed:
  see `bucket.go:80` in section 3.
* `BufferProofs`, on the queue of `PacketBuffer`, from the two assumptions
  alone: `NackInvariance`, `BucketTypeCorrect`, `ArrivedNotAsked`; and with
  `LongEnough` (`MaxNackTimes * MaxGap <= MaxNackCache`) `AskInvariance` and
  `MissingAsked`, for any length of the queue, any number of rounds, any loss
  and reordering.  Both properties are about the first cycle of the numbers,
  because the code's `remove` misses entries of an earlier cycle (a hazard).
  `NackInv` says that the queue is `Ascending`, without which the binary
  searches of `push` and `remove` find the wrong place, that no cycle is counted
  before the numbers wrap around, and that an entry is a zero of the initial
  queue or the number of a missing packet.  `AskInv` adds how much may be behind
  an entry: an entry that was asked for `n` times has fewer than `n * MaxGap +
  1` entries behind it (`RoomOK`), since between two rounds at most `MaxGap`
  numbers are pushed.  So an entry that is the first of a full queue has been
  asked for `MaxNackTimes` times, or is a zero, and nothing else is dropped.
  `CountsOK` relates the entries to the history.  The loops are followed step by
  step (`PushedStep`, `VisitedStep`), and that a fact holds after the last step
  is proved by the least step after which it does not (`LeastNumber`), which
  replaces the induction that the prover lacks; the recursive functions exist
  for the same reason (`PushBeforeIs`, `VisitAllIs`).  `LongEnough` is needed,
  see section 3.
* `BufferProofs`, on `Twcc`, from `TwccAssumption`: `TwccInvariance`,
  `TwccTypeCorrect`, `NothingBeyondTold`, `FeedbacksFollow`, for any number of
  wrap-arounds.  `CyclesOK` says that `cycles` and `lastSn` are those of the
  position that arrived last, so that the two limits of `Push` count every
  wrap-around once (`NumberOf`); `NotedOK` that what has arrived is noted or not
  beyond what was told; `ToldOK` that the last feedback ends with `lastExtSN`.
  `TccPkts` is then an interval (`PktsAre`), from the number after `lastExtSN`
  to that of the newest packet.  The assumption grew with the proof: the stream
  must not begin so close to a wrap-around that its first packets are lost
  across it, and the limits of `Push` must be further apart than what is
  reordered, as `0x0fff` and `0xf000` are.
* `RetransmitProofs`, from `RetransmitAssumption`: `TypeCorrect`,
  `UniqueNumbers`, `FoundAgain`, `ResentAsBefore`, for any starting numbers, any
  ring and any reordering, as long as a layer sends fewer packets than half of
  the numbers (with more, a number names two packets by itself).  `IInv` speaks
  of places.  `NumbersOK` says that `snOffset`, `lastSN` and the sequencer's
  head are those of the places; `SecondLayerOK` that the new layer begins behind
  all of the old one if a head of it was sent; `RingOK` that a packet sent since
  the last late one is as far behind the ring's step as its place is behind
  `reach`, and that the ring holds nothing that was not sent.  The theorems
  follow since two places less than `Modulus` apart have different numbers.
* `DataChannelsProofs`, from `LabelAssumption`: `TypeCorrect`,
  `LabelsReachEverybody`, for any peers and labels.  `IInv` adds that the
  channel that Subscribe or AddDatachannel has just made is still in the map, or
  the client's own is (so the handler that is set next is set on the right one);
  that at most one call makes a channel of a label for a subscriber at a time
  (`MakingAlone`, the subscriber's lock); and that a channel without a handler
  has a maker that will set it (`MakersHandle`).

Only model-checked: all liveness (`ClientCatchesUp`, the fairness part of the
refinement, `EventuallyServed`, `SwitchCompletes`, `CloseReturns`, `JoinReturns`,
`EndedTracksAreDeleted`, `EventuallyReached`), since the prover has no rules for
fairness, and `FeedbackIsTrue` and `OverflowNeedsLoss`: they are about the chunks of
a feedback, which are made by a fold over the statuses and taken apart by another.
`NackInv` and `AskInv` were checked with TLC, on the constants of `packets` and on
longer queues and rings, before they were proved.

## 5. Not modelled

* Timestamps of rewritten packets; jitter and the delay since a sender report.
* Trickle ICE and the publisher's answers: the handlers of one connection run one
  after another, and the queue of candidates is used by them alone.
* The pacer: a queue and one goroutine.  That a packet in it points into the
  ring's memory, which may be overwritten, is a matter of payloads, which the
  models abstract; it is recorded as a hazard.
* A track that is published again while its old receiver closes; a data channel
  label that one client opens twice.
* Payload parsing (`buffer/helper.go`), codec tables (`mediaengine.go`): byte
  formats without state.
* Periodic SDES and sender reports: formatting of counters.
* Logging, configuration, HTTP server (`main.go`): I/O.
* Data races on Go maps, which end the process (`session.go:42`,
  `session.go:180`).

## 6. Plan

1. Publication of a track again while its old receiver closes, in `Subscription`.
2. The memory of the ring shared with the pacer.
