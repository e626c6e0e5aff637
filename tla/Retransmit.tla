----------------------------- MODULE Retransmit -----------------------------
(***************************************************************************)
(* What a down track sends, under which sequence numbers, and what it      *)
(* sends again (internal/sfu/downtrack.go, sequencer.go, receiver.go).     *)
(*                                                                         *)
(* A down track forwards one layer of a track and rewrites its sequence    *)
(* numbers, so that the client sees one stream when the layer changes.     *)
(* The sequencer keeps, in a ring, which packet was sent under which       *)
(* number.  When the client reports a number as missing the packet is      *)
(* looked up there and a worker fetches it from the layer's Bucket.        *)
(*                                                                         *)
(* Packet i of a layer is the i-th the publisher sent on it.  One writer   *)
(* at a time sends to the down track (module LayerSwitch), so a packet is  *)
(* one action.  A Bucket yields the packet with the wanted number or none  *)
(* (module PacketBuffer).  Timestamps, and the 100 ms in which a second    *)
(* request is ignored, are left out.  A track that is not simulcast is one *)
(* that never switches.                                                    *)
(***************************************************************************)
EXTENDS Integers, Sequences, FiniteSets

CONSTANTS
    Start,       \* packet i of layer l has sequence number (Start[l] + i) % Modulus
    Modulus,     \* sequence numbers are below it (2^16)
    History,     \* maxPacketMetaHistory
    None,        \* nothing
    MaxIndex,    \* bound: packets of a layer
    MaxGap,      \* bound: how many packets the newest one may be ahead
    MaxReorder   \* bound: how many packets a late one may be behind

Layers == {0, 1}

ASSUME RetransmitAssumption ==
    /\ Start \in [Layers -> Nat]
    /\ {Modulus, History, MaxIndex, MaxGap} \subseteq Nat \ {0}
    /\ MaxReorder \in Nat
    /\ Modulus % 2 = 0 /\ 2 * (MaxIndex + MaxGap) < Modulus
    /\ None \notin Layers

VARIABLES
    arrived,    \* packets of each layer that have reached its writer
    source,     \* the layer of DownTrack.lastSSRC, None before the first packet
    snOffset,   \* DownTrack.snOffset
    lastSN,     \* DownTrack.lastSN
    sequencer,  \* DownTrack.sequencer
    job,        \* the request that the nackWorker is to serve, or None
    sent,       \* what was sent, in order (history)
    resent,     \* what was sent again last (history)
    shift,      \* packet i of layer l has place shift[l] + i in what the client gets (history)
    reach       \* the place of the packet with number lastSN (history)

trackVars == <<source, snOffset, lastSN, sequencer>>
placeVars == <<shift, reach>>
vars == <<arrived, trackVars, job, sent, resent, placeVars>>

Indexes == 1 .. MaxIndex
SeqNos  == 0 .. Modulus - 1

Minus(a, b) == (Modulus + a - b) % Modulus

SN(l, i) == (Start[l] + i) % Modulus

newest(l) == IF arrived[l] = {} THEN 0 ELSE CHOOSE i \in arrived[l] : \A j \in arrived[l] : j <= i

\* ExtPacket.Head: the packet is the newest of its layer.
IsHead(l, i) == i > newest(l)

-----------------------------------------------------------------------------
(* The sequencer.                                                          *)

packetMeta(sn, offSn, layer) == [sourceSeqNo |-> sn, targetSeqNo |-> offSn, layer |-> layer]

newSequencer ==
    [init   |-> FALSE,
     seq    |-> [p \in 0 .. History - 1 |-> packetMeta(0, 0, 0)],
     step   |-> 0,
     headSN |-> 0]

\* The first push sets the head.
Initialized(q, offSn) == IF q.init THEN q ELSE [q EXCEPT !.init = TRUE, !.headSN = offSn]

\* Variant: the place of one missing packet too many is left free.
StepOverOneMore(q, inc) == (q.step + inc) % History

\* step after the loop over the numbers that were not sent.
StepOver(q, inc) == IF inc = 0 THEN q.step ELSE (q.step + inc - 1) % History

Store(q, at, meta) == [q EXCEPT !.seq[at] = meta, !.step = (at + 1) % History]

\* sequencer.push.  A late packet's place is computed, to find out whether it
\* is too old, but the packet is stored at the step like any other.
Push(q0, sn, offSn, layer, head) ==
    LET q    == Initialized(q0, offSn)
        meta == packetMeta(sn, offSn, layer)
        pos  == q.step - Minus(q.headSN, offSn)
    IN  IF head
        THEN [Store(q, StepOver(q, Minus(offSn, q.headSN)), meta) EXCEPT !.headSN = offSn]
        ELSE IF -pos >= History THEN q ELSE Store(q, q.step, meta)

\* Variant: the number in the place is not compared.
FindUnchecked(q, sn) ==
    LET pos == q.step - Minus(q.headSN, sn) - 1
    IN  IF -pos >= History THEN None ELSE q.seq[IF pos < 0 THEN History + pos ELSE pos]

\* sequencer.getSeqNoPairs for one number: its packetMeta or None.
Find(q, sn) ==
    LET pos  == q.step - Minus(q.headSN, sn) - 1
        meta == q.seq[IF pos < 0 THEN History + pos ELSE pos]
    IN  IF -pos >= History \/ meta.targetSeqNo # sn THEN None ELSE meta

-----------------------------------------------------------------------------
Init ==
    /\ arrived = [l \in Layers |-> {}]
    /\ source = None
    /\ snOffset = 0
    /\ lastSN = 0
    /\ sequencer = newSequencer
    /\ job = None
    /\ sent = <<>>
    /\ resent = None
    /\ shift = Start
    /\ reach = 0

\* The next packet of layer l: one of the first two, then within the bounds.
Arrive(l, i) ==
    /\ i \notin arrived[l]
    /\ IF arrived[l] = {} THEN i <= 2 ELSE i \in newest(l) - MaxReorder .. newest(l) + MaxGap
    /\ arrived' = [arrived EXCEPT ![l] = @ \cup {i}]

\* The end of writeSimpleRTP and of writeSimulcastRTP, with the offset and the
\* last number that are in effect; place and end are the history of both.
Send(l, i, offset, last, place, end) ==
    LET newSN == Minus(SN(l, i), offset)
        head  == IsHead(l, i)
    IN  /\ source' = l
        /\ snOffset' = offset
        /\ lastSN' = IF head THEN newSN ELSE last
        /\ sequencer' = Push(sequencer, SN(l, i), newSN, l, head)
        /\ sent' = Append(sent, [layer |-> l, index |-> i, target |-> newSN, head |-> head])
        /\ shift' = [shift EXCEPT ![l] = place - i]
        /\ reach' = IF head THEN place ELSE end
        /\ UNCHANGED <<job, resent>>

\* A packet of a layer that is not forwarded, or that is no key frame although
\* one is waited for.
Drop(l, i) ==
    /\ l # source
    /\ Arrive(l, i)
    /\ UNCHANGED <<trackVars, job, sent, resent, placeVars>>

\* The key frame that starts the stream keeps its number.
FirstKeyFrame(l, i) ==
    /\ source = None
    /\ Arrive(l, i)
    /\ Send(l, i, snOffset, SN(l, i), Start[l] + i, Start[l] + i)

Forward(l, i) ==
    /\ l = source
    /\ Arrive(l, i)
    /\ Send(l, i, snOffset, lastSN, shift[l] + i, reach)

\* Variant: the key frame gets the last number that was used.
OffsetOffByOne(l, i) == Minus(SN(l, i), lastSN)

\* The key frame of the new layer gets the next number.
OffsetAfter(l, i) == Minus(Minus(SN(l, i), lastSN), 1)

\* The key frame that completes a switch.  A down track switches once, from
\* layer 0 to layer 1 (TargetReached of module LayerSwitch).
Switch(l, i) ==
    /\ source = 0 /\ l = 1
    /\ Arrive(l, i)
    /\ Send(l, i, OffsetAfter(l, i), lastSN, reach + 1, reach)

-----------------------------------------------------------------------------
(* handleRTCP, TransportLayerNack.                                         *)

\* The client misses a number up to the highest it has seen; what it asked for
\* is kept as history.
Nack(sn) ==
    /\ job = None
    /\ sequencer.init
    /\ Minus(sequencer.headSN, sn) < Modulus \div 2
    /\ Find(sequencer, sn) # None
    /\ job' = [meta |-> Find(sequencer, sn), asked |-> sn]
    /\ UNCHANGED <<arrived, trackVars, sent, resent, placeVars>>

\* RetransmitPackets: the worker gets the packet from the layer's Bucket.
Resend ==
    /\ job # None
    /\ \E i \in arrived[job.meta.layer] :
          /\ SN(job.meta.layer, i) = job.meta.sourceSeqNo
          /\ resent' = [layer |-> job.meta.layer, index |-> i,
                        target |-> job.meta.targetSeqNo, asked |-> job.asked]
    /\ job' = None
    /\ UNCHANGED <<arrived, trackVars, sent, placeVars>>

\* The Bucket does not have it, or no longer.
NotCached ==
    /\ job # None
    /\ job' = None
    /\ UNCHANGED <<arrived, trackVars, sent, resent, placeVars>>

Next ==
    \/ \E l \in Layers, i \in Indexes :
          Drop(l, i) \/ FirstKeyFrame(l, i) \/ Forward(l, i) \/ Switch(l, i)
    \/ \E sn \in SeqNos : Nack(sn)
    \/ Resend \/ NotCached

Spec == Init /\ [][Next]_vars

-----------------------------------------------------------------------------
(* Properties.                                                             *)

Metas == [sourceSeqNo : SeqNos, targetSeqNo : SeqNos, layer : Layers]
Sequencers ==
    [init : BOOLEAN, seq : [0 .. History - 1 -> Metas], step : 0 .. History - 1, headSN : SeqNos]
Sent == [layer : Layers, index : Indexes, target : SeqNos, head : BOOLEAN]

TypeOK ==
    /\ arrived \in [Layers -> SUBSET Indexes]
    /\ source \in Layers \cup {None}
    /\ snOffset \in SeqNos /\ lastSN \in SeqNos
    /\ sequencer \in Sequencers
    /\ job \in [meta : Metas, asked : SeqNos] \cup {None}
    /\ sent \in Seq(Sent)
    /\ resent \in [layer : Layers, index : Indexes, target : SeqNos, asked : SeqNos] \cup {None}
    /\ shift \in [Layers -> Int] /\ reach \in Int

\* What was first sent of the layer of p.
KeyFrame(p) == LET k == CHOOSE k \in DOMAIN sent :
                         /\ sent[k].layer = p.layer
                         /\ \A j \in 1 .. k - 1 : sent[j].layer # p.layer
               IN  sent[k]

\* A late packet of the new layer from before the key frame it began with.
Straggler(p) == p.layer # sent[1].layer /\ p.index < KeyFrame(p).index

\* A packet of the old layer was its newest one when it was sent.
HeadWasSent == \E k \in DOMAIN sent : sent[k].layer = sent[1].layer /\ sent[k].head

\* No sequence number is used for two packets, across a switch too, whatever
\* was lost or late on either layer: the client's decoder would drop one of
\* them.  Two exceptions.  Stragglers get numbers of the old layer.  And lastSN
\* does not follow late packets: if the stream began with a late key frame and
\* only late packets followed, the new layer begins among their numbers.
NumbersAreUnique ==
    \A j, k \in DOMAIN sent :
        j # k /\ sent[j].target = sent[k].target =>
            Straggler(sent[j]) \/ Straggler(sent[k]) \/ ~HeadWasSent

\* What was sent from k on was the newest of its layer when it was sent.
OnlyHeadsFrom(k) == \A j \in k .. Len(sent) : sent[j].head

MetaOf(p) == packetMeta(SN(p.layer, p.index), p.target, p.layer)

\* Among the last packets sent, those that no late packet followed are found
\* in the sequencer, under the number the client knows, across losses and a
\* switch of the layer.  (A late packet makes all before it unfindable.)
SentIsFound ==
    \A k \in DOMAIN sent :
        OnlyHeadsFrom(k) /\ Minus(sequencer.headSN, sent[k].target) < History - 1
        => Find(sequencer, sent[k].target) = MetaOf(sent[k])

\* What is sent again is the packet that the client misses, under the number
\* it knows it by: it was sent under the number that was asked for, however
\* the ring was filled, overtaken and switched since.  (Number 0 is the
\* exception: the places of the ring that were never used have it.)
SameAsBefore ==
    resent # None /\ resent.asked # 0 =>
        /\ resent.target = resent.asked
        /\ \E k \in DOMAIN sent :
              /\ sent[k].layer = resent.layer
              /\ sent[k].index = resent.index
              /\ sent[k].target = resent.asked

-----------------------------------------------------------------------------
(* The inductive invariant.                                                *)

Place(p) == shift[p.layer] + p.index

Switched == source = 1 /\ sent[1].layer = 0

\* The newest packet of a layer exists.
ArrivedOK ==
    \A l \in Layers : arrived[l] # {} => newest(l) \in arrived[l] /\ \A j \in arrived[l] : j <= newest(l)

\* A packet is sent once, under the number of its place, from at most two layers.
SentOK ==
    /\ source = None <=> sent = <<>>
    /\ \A k \in DOMAIN sent :
          /\ sent[k].index \in arrived[sent[k].layer]
          /\ sent[k].target = Place(sent[k]) % Modulus
          /\ sent[k].layer = source \/ (Switched /\ sent[k].layer = 0)
    /\ \A j, k \in DOMAIN sent :
          j # k => sent[j].layer # sent[k].layer \/ sent[j].index # sent[k].index

\* Before a switch the places are the publisher's; if a head was sent, the last
\* one is the newest packet.
FirstLayerOK ==
    source # None /\ ~Switched =>
        /\ shift = Start
        /\ reach - Start[source] \in arrived[source]
        /\ HeadWasSent => reach = Start[source] + newest(source)

\* The new layer begins behind all of the old one, if a head of it was sent.
SecondLayerOK ==
    Switched =>
        /\ shift[0] = Start[0]
        /\ \E s \in DOMAIN sent :
              /\ sent[s].layer = 1 /\ \A j \in 1 .. s - 1 : sent[j].layer = 0
              /\ Place(sent[s]) \in Start[0] + 2 .. Start[0] + MaxIndex + 1
              /\ Place(sent[s]) <= reach + 1
              /\ HeadWasSent => \A k \in DOMAIN sent : sent[k].layer = 0 => Place(sent[k]) < Place(sent[s])

\* The down track's numbers are the places, and no packet is newer than reach.
NumbersOK ==
    IF source = None
    THEN shift = Start /\ snOffset = 0 /\ sequencer = newSequencer
    ELSE /\ snOffset = (Start[source] - shift[source]) % Modulus
         /\ lastSN = reach % Modulus
         /\ sequencer.init /\ sequencer.headSN = lastSN
         /\ reach <= shift[source] + newest(source)

\* What the ring holds was sent, and what was sent since the last late packet
\* is as far behind the step as its place is behind reach.
RingOK ==
    /\ \A k \in DOMAIN sent : OnlyHeadsFrom(k) =>
          /\ Place(sent[k]) \in Start[sent[1].layer] + 1 .. reach
          /\ reach - Place(sent[k]) < History =>
                sequencer.seq[(sequencer.step - 1 - (reach - Place(sent[k]))) % History] = MetaOf(sent[k])
    /\ \A p \in 0 .. History - 1 :
          \/ sequencer.seq[p] = packetMeta(0, 0, 0)
          \/ \E k \in DOMAIN sent : sequencer.seq[p] = MetaOf(sent[k])

JobOK ==
    job # None =>
        /\ job.meta.targetSeqNo = job.asked
        /\ job.asked # 0 => \E k \in DOMAIN sent : job.meta = MetaOf(sent[k])

IInv == /\ TypeOK /\ ArrivedOK /\ SentOK /\ FirstLayerOK /\ SecondLayerOK
        /\ NumbersOK /\ RingOK /\ JobOK /\ SameAsBefore

=============================================================================
