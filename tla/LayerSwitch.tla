---------------------------- MODULE LayerSwitch ----------------------------
(***************************************************************************)
(* The layers of one simulcast track (internal/sfu/receiver.go,            *)
(* downtrack.go).                                                          *)
(*                                                                         *)
(* A WebRTCReceiver has, for every layer, a list of down tracks, a lock    *)
(* and a goroutine writeRTP that holds the lock while it offers a packet   *)
(* to each down track of the list.  A down track moves to another layer in *)
(* two halves: its RTCP handler puts it on the target layer's list as well *)
(* and notes the target; the target layer's writer, on the first key       *)
(* frame, takes it off the current layer's list, for which it needs that   *)
(* layer's lock too.  Every use of a lock, and every atomic access that    *)
(* another goroutine may get in between, is an action of its own.          *)
(*                                                                         *)
(* An SSRC is named by its layer, a packet is abstracted to whether it is  *)
(* a key frame; PLIs, sequence numbers and timestamps are left out.        *)
(***************************************************************************)
EXTENDS Naturals, Sequences

CONSTANTS
    Subs,              \* subscribers, each with one DownTrack of the track
    None,              \* nil
    BestQualityFirst,  \* Simulcast.BestQualityFirst of the configuration
    EarlyReports       \* receiver reports may precede the first key frame

ASSUME SwitchAssumption ==
    /\ BestQualityFirst \in BOOLEAN
    /\ EarlyReports \in BOOLEAN
    /\ None \notin 0 .. 2

VARIABLES
    upTracks,      \* layers that have arrived: upTracks[l], downTracks[l] not nil
    downTracks,    \* WebRTCReceiver.downTracks, a list per layer
    locks,         \* WebRTCReceiver.locks: the layer whose writer holds it, or None
    writer,        \* the goroutine writeRTP(l) and its packet
    stage,         \* of the DownTrack: "new", "added", "bound", "unbound"
    spatialLayer,  \* DownTrack.spatialLayer: current and target layer
    reSync,        \* DownTrack.reSync
    lastSSRC,      \* DownTrack.lastSSRC
    handler        \* the DownTrack's handleRTCP

receiverVars == <<upTracks, downTracks, locks>>
trackVars    == <<stage, spatialLayer, reSync, lastSSRC>>
vars == <<receiverVars, writer, trackVars, handler>>

Layers == 0 .. 2

Idle == [step |-> "idle"]

InList(s, l) == \E i \in DOMAIN downTracks[l] : downTracks[l][i] = s

Init ==
    /\ upTracks = {}
    /\ downTracks = [l \in Layers |-> <<>>]
    /\ locks = [l \in Layers |-> None]
    /\ writer = [l \in Layers |-> Idle]
    /\ stage = [s \in Subs |-> "new"]
    /\ spatialLayer = [s \in Subs |-> [current |-> 0, target |-> 0]]
    /\ reSync = [s \in Subs |-> FALSE]
    /\ lastSSRC = [s \in Subs |-> None]
    /\ handler = [s \in Subs |-> Idle]

-----------------------------------------------------------------------------
(* Tracks come and go.                                                     *)

\* AddUpTrack: a layer arrives and its writer is started.
AddUpTrack(l) ==
    /\ l \notin upTracks
    /\ upTracks' = upTracks \cup {l}
    /\ downTracks' = [downTracks EXCEPT ![l] = <<>>]
    /\ UNCHANGED <<locks, writer, trackVars, handler>>

\* The best of the layers that are there, or the first one.
InitialLayer ==
    CHOOSE l \in upTracks : \A k \in upTracks : IF BestQualityFirst THEN k <= l ELSE l <= k

\* AddDownTrack.  SetInitialLayers makes the layer both current and target.
AddDownTrack(s) ==
    /\ stage[s] = "new"
    /\ upTracks # {}
    /\ locks[InitialLayer] = None
    /\ downTracks' = [downTracks EXCEPT ![InitialLayer] = Append(@, s)]
    /\ spatialLayer' = [spatialLayer EXCEPT ![s] =
            [current |-> InitialLayer, target |-> InitialLayer]]
    /\ stage' = [stage EXCEPT ![s] = "added"]
    /\ UNCHANGED <<upTracks, locks, writer, reSync, lastSSRC, handler>>

\* The PeerConnection has negotiated the track.
Bind(s) ==
    /\ stage[s] = "added"
    /\ stage' = [stage EXCEPT ![s] = "bound"]
    /\ reSync' = [reSync EXCEPT ![s] = TRUE]
    /\ UNCHANGED <<receiverVars, writer, spatialLayer, lastSSRC, handler>>

\* The PeerConnection stops the track's sender.
Unbind(s) ==
    /\ stage[s] = "bound"
    /\ stage' = [stage EXCEPT ![s] = "unbound"]
    /\ UNCHANGED <<receiverVars, writer, spatialLayer, reSync, lastSSRC, handler>>

-----------------------------------------------------------------------------
(* writeRTP(l): a packet for every down track of the list.                 *)

ReadPacket(l, keyFrame) ==
    /\ l \in upTracks
    /\ writer[l] = Idle
    /\ locks[l] = None
    /\ locks' = [locks EXCEPT ![l] = l]
    /\ writer' = [writer EXCEPT ![l] =
            [step |-> "write", key |-> keyFrame, todo |-> downTracks[l]]]
    /\ UNCHANGED <<upTracks, downTracks, trackVars, handler>>

EndOfList(l) ==
    /\ writer[l].step = "write"
    /\ writer[l].todo = <<>>
    /\ writer' = [writer EXCEPT ![l] = Idle]
    /\ locks' = [locks EXCEPT ![l] = None]
    /\ UNCHANGED <<upTracks, downTracks, trackVars, handler>>

\* The down track the writer of l is at.
At(l) == Head(writer[l].todo)

NextDownTrack(l) == [step |-> "write", key |-> writer[l].key, todo |-> Tail(writer[l].todo)]

Synced(s, l) == lastSSRC[s] = l /\ ~reSync[s]

\* A packet of another source although no switch is under way.
Unexpected(s, l) ==
    /\ lastSSRC[s] \notin {l, None}
    /\ ~reSync[s]
    /\ spatialLayer[s].current = spatialLayer[s].target

\* Variant: the stream is resumed on any packet.
PassesSynced(s, l) == stage[s] # "bound" \/ Synced(s, l) \/ Unexpected(s, l)

\* The packet is skipped (not bound), forwarded (Synced), or dropped: it is of
\* an unexpected source or, with a PLI, not the key frame that is waited for.
Passes(s, l) ==
    \/ stage[s] # "bound"
    \/ Synced(s, l)
    \/ Unexpected(s, l)
    \/ ~writer[l].key

WritePacket(l) ==
    /\ writer[l].step = "write"
    /\ writer[l].todo # <<>>
    /\ Passes(At(l), l)
    /\ writer' = [writer EXCEPT ![l] = NextDownTrack(l)]
    /\ UNCHANGED <<receiverVars, trackVars, handler>>

\* The key frame that the down track waits for; spatialLayer is read once.
Resume(l) ==
    /\ writer[l].step = "write"
    /\ writer[l].todo # <<>>
    /\ ~Passes(At(l), l)
    /\ LET layer == spatialLayer[At(l)]
       IN  writer' = [writer EXCEPT ![l] =
                [step |-> IF layer.current # layer.target THEN "delete" ELSE "store",
                 key |-> @.key, todo |-> @.todo,
                 current |-> layer.current, target |-> layer.target]]
    /\ UNCHANGED <<receiverVars, trackVars, handler>>

\* The list without its first s, whose place the last element takes.
Without(list, s) ==
    LET n == Len(list)
        found == {i \in 1 .. n : list[i] = s}
        first == CHOOSE i \in found : \A j \in found : i <= j
    IN  IF found = {} THEN list
        ELSE [i \in 1 .. n - 1 |-> IF i = first THEN list[n] ELSE list[i]]

\* Variant: the layer that is switched to is left instead of the old one.
LeavesTarget(l) == writer[l].target

\* The layer that is left.
Leaves(l) == writer[l].current

\* DeleteDownTrack, under the lock of the layer that is left.
DeleteDownTrack(l) ==
    /\ writer[l].step = "delete"
    /\ locks[Leaves(l)] = None
    /\ downTracks' = [downTracks EXCEPT ![Leaves(l)] = Without(@, At(l))]
    /\ writer' = [writer EXCEPT ![l].step = "store"]
    /\ UNCHANGED <<upTracks, locks, trackVars, handler>>

\* Variant: the two halves of the stored word are swapped.
StoreLayerSwapped(l) ==
    /\ writer[l].step = "store"
    /\ spatialLayer' = [spatialLayer EXCEPT ![At(l)] =
            [current |-> 0, target |-> writer[l].target]]
    /\ reSync' = [reSync EXCEPT ![At(l)] = FALSE]
    /\ lastSSRC' = [lastSSRC EXCEPT ![At(l)] = l]
    /\ writer' = [writer EXCEPT ![l] = NextDownTrack(l)]
    /\ UNCHANGED <<receiverVars, stage, handler>>

\* The stored word: its low half is the target, its high half becomes 0.
StoreLayer(l) ==
    /\ writer[l].step = "store"
    /\ spatialLayer' = [spatialLayer EXCEPT ![At(l)] =
            [current |-> writer[l].target, target |-> 0]]
    /\ reSync' = [reSync EXCEPT ![At(l)] = FALSE]
    /\ lastSSRC' = [lastSSRC EXCEPT ![At(l)] = l]
    /\ writer' = [writer EXCEPT ![l] = NextDownTrack(l)]
    /\ UNCHANGED <<receiverVars, stage, handler>>

-----------------------------------------------------------------------------
(* handleRTCP of a down track: handlerLayerChange, SwitchSpatialLayer.     *)

\* One layer up, or down if that layer has a bitrate.
Choices(layer) ==
    {l \in Layers : l = layer + 1 \/ (l + 1 = layer /\ l \in upTracks)}

\* Variant: a switch may begin before the last one has ended.
SettledAnyway(s) == TRUE

\* No switch is under way.
Settled(s) == spatialLayer[s].current = spatialLayer[s].target

ChangeLayer(s, l) ==
    /\ stage[s] \in {"bound", "unbound"}
    /\ EarlyReports \/ lastSSRC[s] # None
    /\ handler[s] = Idle
    /\ Settled(s)
    /\ l \in Choices(spatialLayer[s].current)
    /\ handler' = [handler EXCEPT ![s] =
            [step |-> "sub", current |-> spatialLayer[s].current, target |-> l]]
    /\ UNCHANGED <<receiverVars, writer, trackVars>>

\* SubDownTrack, under the target layer's lock; an error if the layer is not there.
SubDownTrack(s) ==
    /\ handler[s].step = "sub"
    /\ LET l == handler[s].target
       IN  /\ locks[l] = None
           /\ \/ /\ l \notin upTracks
                 /\ handler' = [handler EXCEPT ![s] = Idle]
                 /\ UNCHANGED downTracks
              \/ /\ l \in upTracks
                 /\ handler' = [handler EXCEPT ![s].step = "store"]
                 /\ downTracks' = [downTracks EXCEPT ![l] = Append(@, s)]
    /\ UNCHANGED <<upTracks, locks, writer, trackVars>>

StoreTarget(s) ==
    /\ handler[s].step = "store"
    /\ spatialLayer' = [spatialLayer EXCEPT ![s] =
            [current |-> handler[s].current, target |-> handler[s].target]]
    /\ handler' = [handler EXCEPT ![s] = Idle]
    /\ UNCHANGED <<receiverVars, writer, stage, reSync, lastSSRC>>

-----------------------------------------------------------------------------
WriterStep(l) ==
    EndOfList(l) \/ WritePacket(l) \/ Resume(l) \/ DeleteDownTrack(l) \/ StoreLayer(l)

HandlerStep(s) == SubDownTrack(s) \/ StoreTarget(s)

Next ==
    \/ \E l \in Layers :
          AddUpTrack(l) \/ WriterStep(l) \/ \E k \in BOOLEAN : ReadPacket(l, k)
    \/ \E s \in Subs :
          \/ AddDownTrack(s) \/ Bind(s) \/ Unbind(s)
          \/ HandlerStep(s) \/ \E l \in Layers : ChangeLayer(s, l)

Spec == Init /\ [][Next]_vars

\* Writers run on and get a lock that is free again and again (a Go mutex
\* starves nobody); a publisher that is asked for key frames sends them.
FairSpec ==
    /\ Spec
    /\ \A l \in Layers : SF_vars(WriterStep(l)) /\ SF_vars(ReadPacket(l, TRUE))

-----------------------------------------------------------------------------
(* Properties.                                                             *)

WriterStates ==
    {Idle}
    \cup [step : {"write"}, key : BOOLEAN, todo : Seq(Subs)]
    \cup [step : {"delete", "store"}, key : {TRUE}, todo : Seq(Subs) \ {<<>>},
          current : Layers, target : Layers]

HandlerStates == {Idle} \cup [step : {"sub", "store"}, current : Layers, target : Layers]

TypeOK ==
    /\ upTracks \subseteq Layers
    /\ downTracks \in [Layers -> Seq(Subs)]
    /\ locks \in [Layers -> Layers \cup {None}]
    /\ writer \in [Layers -> WriterStates]
    /\ stage \in [Subs -> {"new", "added", "bound", "unbound"}]
    /\ spatialLayer \in [Subs -> [current : Layers, target : Layers]]
    /\ reSync \in [Subs -> BOOLEAN]
    /\ lastSSRC \in [Subs -> Layers \cup {None}]
    /\ handler \in [Subs -> HandlerStates]

\* A writer that is between taking s off one list and storing its new layer.
Moving(s, l) == writer[l].step = "store" /\ At(l) = s

\* A down track is always on the list of its current layer: a switch, however
\* its two halves interleave with the writers, never leaves it without packets.
NeverDetached ==
    \A s \in Subs :
        stage[s] # "new" =>
            \/ InList(s, spatialLayer[s].current)
            \/ \E l \in Layers : Moving(s, l) /\ InList(s, l)

\* What a down track forwards is its current layer, and it is on another
\* layer's list only while it switches there, once: no two layers are ever
\* mixed in what the subscriber gets, and no packet is sent to it twice.
OneSource ==
    \A s \in Subs :
        /\ lastSSRC[s] \in {None, spatialLayer[s].current}
        /\ \A l \in Layers :
              InList(s, l) /\ l # spatialLayer[s].current =>
                  \/ spatialLayer[s].target = l
                  \/ handler[s].step = "store" /\ handler[s].target = l
        /\ \A l \in Layers : \A i, j \in DOMAIN downTracks[l] :
              downTracks[l][i] = s /\ downTracks[l][j] = s => i = j

\* The source of what a subscriber gets changes only with a key frame of the
\* new source, so its decoder never sees a stream that begins in the middle.
SwitchesOnKeyFrame ==
    [][\A s \in Subs :
          lastSSRC'[s] # lastSSRC[s] =>
              \E l \in Layers : lastSSRC'[s] = l /\ At(l) = s /\ writer[l].key]_vars

-----------------------------------------------------------------------------
(* The inductive invariant behind NeverDetached and OneSource, which holds *)
(* unless reports come early.                                              *)

\* The layers on whose lists s is.
Lists(s) == {l \in Layers : InList(s, l)}

IsAt(s, current, target) == spatialLayer[s] = [current |-> current, target |-> target]

\* The life of a down track: it gets an initial layer, waits for its first key
\* frame, and may then go up once, from layer 0 to layer 1.
New(s) ==
    /\ stage[s] = "new"
    /\ lastSSRC[s] = None /\ handler[s] = Idle
    /\ Lists(s) = {}

WaitsOn(s, l) ==
    /\ stage[s] # "new"
    /\ lastSSRC[s] = None /\ handler[s] = Idle
    /\ IsAt(s, l, l)
    /\ Lists(s) = {l}

AtZero(s) ==
    /\ IsAt(s, 0, 0)
    /\ lastSSRC[s] = 0
    /\ \/ handler[s] = Idle /\ Lists(s) = {0}
       \/ handler[s] = [step |-> "sub", current |-> 0, target |-> 1] /\ Lists(s) = {0}
       \/ handler[s] = [step |-> "store", current |-> 0, target |-> 1] /\ Lists(s) = {0, 1}

GoesUp(s) ==
    /\ IsAt(s, 0, 1)
    /\ lastSSRC[s] = 0 /\ handler[s] = Idle
    /\ Lists(s) = {0, 1}

HasLeft(s) ==
    /\ IsAt(s, 0, 1)
    /\ lastSSRC[s] = 0 /\ handler[s] = Idle
    /\ Lists(s) = {1}
    /\ Moving(s, 1)

Stays(s) ==
    /\ \E l \in {1, 2} : IsAt(s, l, 0) /\ lastSSRC[s] = l /\ Lists(s) = {l}
    /\ handler[s] = Idle

TrackOK(s) ==
    /\ New(s) \/ (\E l \in Layers : WaitsOn(s, l)) \/ AtZero(s) \/ GoesUp(s) \/ HasLeft(s) \/ Stays(s)
    /\ lastSSRC[s] # None => stage[s] \in {"bound", "unbound"} /\ ~reSync[s]

\* A writer holds its layer's lock, what it has still to serve is on the list,
\* and it resumes a down track only for one of two reasons.
WriterOK(l) ==
    /\ locks[l] = IF writer[l] = Idle THEN None ELSE l
    /\ writer[l] # Idle =>
          \A i \in DOMAIN writer[l].todo : InList(writer[l].todo[i], l)
    /\ writer[l].step \in {"delete", "store"} =>
          stage[At(l)] \in {"bound", "unbound"}
    /\ writer[l].step = "delete" =>
          l = 1 /\ writer[l].current = 0 /\ writer[l].target = 1 /\ GoesUp(At(l))
    /\ writer[l].step = "store" =>
          /\ writer[l].target = l
          /\ WaitsOn(At(l), l) \/ (l = 1 /\ HasLeft(At(l)))

\* No list has a down track twice, and layers that are not there have none.
ListOK(l) ==
    /\ \A i, j \in DOMAIN downTracks[l] : downTracks[l][i] = downTracks[l][j] => i = j
    /\ l \notin upTracks => downTracks[l] = <<>> /\ writer[l] = Idle

IInv ==
    /\ TypeOK
    /\ \A s \in Subs : TrackOK(s)
    /\ \A l \in Layers : WriterOK(l) /\ ListOK(l)

-----------------------------------------------------------------------------
(* Liveness.                                                               *)

Switching(s) ==
    /\ stage[s] = "bound"
    /\ ~Settled(s)
    /\ InList(s, spatialLayer[s].target)

\* A switch that has begun is completed: the writer of the target layer gets
\* the other layer's lock although that one's writer takes it all the time.
SwitchCompletes == \A s \in Subs : Switching(s) ~> ~Switching(s)

=============================================================================
