---------------------------- MODULE Subscription ----------------------------
(***************************************************************************)
(* Who receives which track in one session (internal/sfu/session.go,       *)
(* router.go, receiver.go, subscriber.go, publisher.go, peer.go).          *)
(*                                                                         *)
(* A peer that joins subscribes to the tracks of all others; a track that  *)
(* arrives is published to all peers of the session.  The two run in       *)
(* different goroutines and meet only at short critical sections: the      *)
(* session's lock around the peers map, a router's lock around its map of  *)
(* receivers and around AddDownTracks, a subscriber's lock and a           *)
(* receiver's around their lists of down tracks.  Each action below is one *)
(* such critical section, and a call of AddDownTracks, which is inside one *)
(* and has others inside it, is a variable.  The lists a goroutine copied  *)
(* (Peers(), the peers to subscribe to, the down tracks to close) are its  *)
(* private, possibly stale, state.                                         *)
(*                                                                         *)
(* The lists of down tracks are abstracted to how many DownTracks of a     *)
(* subscriber they hold.  Tracks are not simulcast: one layer.             *)
(***************************************************************************)
EXTENDS Naturals

CONSTANTS
    Peers,   \* the peers that may join the session
    Tracks,  \* the tracks that may be published, each once
    Owner,   \* the peer that publishes a track
    Fragile  \* bound: the peers whose ICE connections may fail

ASSUME OwnerAssumption == Owner \in [Tracks -> Peers]
ASSUME FragileAssumption == Fragile \subseteq Peers

VARIABLES
    peers,       \* Session.peers
    stage,       \* progress of a peer's Join and Close
    joinTodo,    \* peers Session.Subscribe has copied and not yet visited
    receivers,   \* tracks in the receivers map of their owner's router
    up,          \* the upstream side of a track's Receiver
    publishing,  \* progress of the OnTrack callback of a track
    pubTodo,     \* peers Session.Publish has copied and not yet visited
    closing,     \* the down tracks closeTracks has copied
    call,        \* the AddDownTracks that holds the lock of a peer's router
    downTracks,  \* WebRTCReceiver.downTracks: DownTracks per track and subscriber
    tracks,      \* Subscriber.tracks: DownTracks per subscriber and track
    pubOpen,     \* the publisher's PeerConnection is open
    subOpen      \* the subscriber's PeerConnection is open

sessionVars  == <<peers, stage, joinTodo>>
trackVars    == <<receivers, up, publishing, pubTodo, closing>>
downVars     == <<downTracks, tracks>>
pcVars       == <<pubOpen, subOpen>>
vars == <<sessionVars, trackVars, call, downVars, pcVars>>

\* "new" -> AddPeer -> "added" -> Subscribe -> "subscribing" -> "in" -> Close:
\* RemovePeer -> "removed" -> publisher.Close -> "unpublished"
\* -> subscriber.Close -> "gone"
Stages == {"new", "added", "subscribing", "in", "removed", "unpublished", "gone"}

\* "none" -> OnTrack -> "live" -> PacketChan closed -> "ended" -> closeTracks has
\* copied the list -> "copied" -> and emptied it -> "emptied" -> receiver deleted -> "closed"
UpStates == {"none", "live", "ended", "copied", "emptied", "closed"}

Nobody == [s \in Peers |-> 0]

\* router.AddDownTracks: who called it, for which subscriber, the Receivers it
\* has still to look at, and the one whose DownTrack the subscriber already has.
Calls == [by : {"nobody", "Subscribe", "Publish"}, sub : Peers,
          todo : SUBSET Tracks, given : SUBSET Tracks]

Unlocked(p) == [by |-> "nobody", sub |-> p, todo |-> {}, given |-> {}]

-----------------------------------------------------------------------------
Init ==
    /\ peers = {}
    /\ stage = [p \in Peers |-> "new"]
    /\ joinTodo = [p \in Peers |-> {}]
    /\ receivers = {}
    /\ up = [t \in Tracks |-> "none"]
    /\ publishing = [t \in Tracks |-> "none"]
    /\ pubTodo = [t \in Tracks |-> {}]
    /\ closing = [t \in Tracks |-> Nobody]
    /\ call = [p \in Peers |-> Unlocked(p)]
    /\ downTracks = [t \in Tracks |-> Nobody]
    /\ tracks = [s \in Peers |-> [t \in Tracks |-> 0]]
    /\ pubOpen = [p \in Peers |-> TRUE]
    /\ subOpen = [p \in Peers |-> TRUE]

-----------------------------------------------------------------------------
(* router.AddDownTracks, under the lock of the router of p.                *)

\* Variant: the subscriber's down tracks are not searched first.
MissingUnchecked(s, t) == TRUE

\* addDownTrack does nothing for a track the subscriber already has.
Missing(s, t) == tracks[s][t] = 0

\* The lock is free, and is taken for the Receivers of ts.
Lock(p, by, s, ts) ==
    /\ call[p].by = "nobody"
    /\ call' = [call EXCEPT ![p] = [by |-> by, sub |-> s, todo |-> ts, given |-> {}]]

\* addDownTrack: a DownTrack of t for the PeerConnection and for the list of
\* the subscriber.  A closed PeerConnection refuses it, and the error ends the
\* loop over the Receivers.
AddDownTrack(p, t) ==
    LET s == call[p].sub
        added == subOpen[s] /\ Missing(s, t)
    IN  /\ t \in call[p].todo
        /\ call[p].given = {}
        /\ tracks' = [tracks EXCEPT ![s][t] = IF added THEN @ + 1 ELSE @]
        /\ call' = [call EXCEPT ![p] =
                [by |-> @.by, sub |-> s,
                 todo |-> IF Missing(s, t) /\ ~subOpen[s] THEN {} ELSE @.todo \ {t},
                 given |-> IF added THEN {t} ELSE {}]]
        /\ UNCHANGED <<sessionVars, trackVars, downTracks, pcVars>>

\* Variant: the new down track is not handed to the Receiver.
HandOverNothing(p, t) ==
    /\ t \in call[p].given
    /\ call' = [call EXCEPT ![p].given = {}]
    /\ UNCHANGED <<sessionVars, trackVars, downVars, pcVars>>

\* Receiver.AddDownTrack, under the receiver's lock.
HandOver(p, t) ==
    /\ t \in call[p].given
    /\ downTracks' = [downTracks EXCEPT ![t][call[p].sub] = @ + 1]
    /\ call' = [call EXCEPT ![p].given = {}]
    /\ UNCHANGED <<sessionVars, trackVars, tracks, pcVars>>

Unlock(p) ==
    /\ call[p].by # "nobody"
    /\ call[p].todo = {} /\ call[p].given = {}
    /\ call' = [call EXCEPT ![p] = Unlocked(p)]
    /\ UNCHANGED <<sessionVars, trackVars, downVars, pcVars>>

-----------------------------------------------------------------------------
(* Peer.Join.                                                              *)

\* Session.AddPeer.
AddPeer(s) ==
    /\ stage[s] = "new"
    /\ peers' = peers \cup {s}
    /\ stage' = [stage EXCEPT ![s] = "added"]
    /\ UNCHANGED <<joinTodo, trackVars, call, downVars, pcVars>>

\* Session.Subscribe: the other peers are copied under the session's lock.
Subscribe(s) ==
    /\ stage[s] = "added"
    /\ joinTodo' = [joinTodo EXCEPT ![s] = peers \ {s}]
    /\ stage' = [stage EXCEPT ![s] = "subscribing"]
    /\ UNCHANGED <<peers, trackVars, call, downVars, pcVars>>

\* The AddDownTracks that Session.Subscribe called last has returned.
Returned(s) == \A p \in Peers : ~(call[p].by = "Subscribe" /\ call[p].sub = s)

\* Session.Subscribe: all receivers of the router of p.
SubscribeTo(s, p) ==
    /\ p \in joinTodo[s]
    /\ Returned(s)
    /\ joinTodo' = [joinTodo EXCEPT ![s] = @ \ {p}]
    /\ Lock(p, "Subscribe", s, {t \in receivers : Owner[t] = p})
    /\ UNCHANGED <<peers, stage, trackVars, downVars, pcVars>>

SubscribeDone(s) ==
    /\ stage[s] = "subscribing"
    /\ joinTodo[s] = {}
    /\ Returned(s)
    /\ stage' = [stage EXCEPT ![s] = "in"]
    /\ UNCHANGED <<peers, joinTodo, trackVars, call, downVars, pcVars>>

-----------------------------------------------------------------------------
(* The OnTrack callback of a publisher's PeerConnection.                   *)

\* router.AddReceiver, under the router's lock.  Media flows only after the
\* answer to the publisher's offer, which follows Join.
AddReceiver(t) ==
    /\ up[t] = "none"
    /\ call[Owner[t]].by = "nobody"
    /\ pubOpen[Owner[t]]
    /\ stage[Owner[t]] \in {"in", "removed"}
    /\ receivers' = receivers \cup {t}
    /\ up' = [up EXCEPT ![t] = "live"]
    /\ publishing' = [publishing EXCEPT ![t] = "added"]
    /\ UNCHANGED <<sessionVars, pubTodo, closing, call, downVars, pcVars>>

\* Variant: peers that are still joining are left out.
PublishToSettled(t) ==
    /\ publishing[t] = "added"
    /\ pubTodo' = [pubTodo EXCEPT ![t] = {p \in peers \ {Owner[t]} : stage[p] = "in"}]
    /\ publishing' = [publishing EXCEPT ![t] = "copied"]
    /\ UNCHANGED <<sessionVars, receivers, up, closing, call, downVars, pcVars>>

\* Session.Publish: Peers() copies the peers under the session's lock.  The
\* loop over them skips the owner.
Publish(t) ==
    /\ publishing[t] = "added"
    /\ pubTodo' = [pubTodo EXCEPT ![t] = peers \ {Owner[t]}]
    /\ publishing' = [publishing EXCEPT ![t] = "copied"]
    /\ UNCHANGED <<sessionVars, receivers, up, closing, call, downVars, pcVars>>

\* Variant: an error ends the loop.
PublishStopsOnError(t, s) ==
    /\ s \in pubTodo[t]
    /\ pubTodo' = [pubTodo EXCEPT ![t] = IF subOpen[s] THEN @ \ {s} ELSE {}]
    /\ Lock(Owner[t], "Publish", s, {t})
    /\ UNCHANGED <<sessionVars, receivers, up, publishing, closing, downVars, pcVars>>

\* Session.Publish: one round of its loop.
PublishTo(t, s) ==
    /\ s \in pubTodo[t]
    /\ pubTodo' = [pubTodo EXCEPT ![t] = @ \ {s}]
    /\ Lock(Owner[t], "Publish", s, {t})
    /\ UNCHANGED <<sessionVars, receivers, up, publishing, closing, downVars, pcVars>>

-----------------------------------------------------------------------------
(* Forwarding, under the receiver's lock.                                  *)

\* DownTrack.WriteRTP returns nil for a down track that is not bound (its
\* subscriber is gone) and at the end of both ways to write a packet.
WriteRTP(s, t) == "nil"

\* writeRTP: one packet for every down track; those at EOF are deleted.
Forward(t) ==
    /\ up[t] = "live"
    /\ downTracks' = [downTracks EXCEPT ![t] =
            [s \in Peers |-> IF WriteRTP(s, t) = "EOF" THEN 0 ELSE @[s]]]
    /\ UNCHANGED <<sessionVars, trackVars, call, tracks, pcVars>>

-----------------------------------------------------------------------------
(* The end of a track.                                                     *)

\* The buffer closed its PacketChan: writeRTP returns and starts closeTracks.
TrackEnds(t) ==
    /\ up[t] = "live"
    /\ up' = [up EXCEPT ![t] = "ended"]
    /\ UNCHANGED <<sessionVars, receivers, publishing, pubTodo, closing, call, downVars, pcVars>>

\* closeTracks: the range clause copies the lists before any lock is taken.
CloseTracksCopies(t) ==
    /\ up[t] = "ended"
    /\ up' = [up EXCEPT ![t] = "copied"]
    /\ closing' = [closing EXCEPT ![t] = downTracks[t]]
    /\ UNCHANGED <<sessionVars, receivers, publishing, pubTodo, call, downVars, pcVars>>

\* Variant: every peer is taken to have a down track of t.
CloseDownTracksOfAll(t) ==
    tracks' = [s \in Peers |-> [tracks[s] EXCEPT ![t] = IF subOpen[s] THEN @ - 1 ELSE @]]

\* DownTrack.Close of every copied down track: its close handler takes it out
\* of a PeerConnection that is still open, and out of the subscriber.
CloseDownTracks(t) ==
    tracks' = [s \in Peers |-> [tracks[s] EXCEPT ![t] =
                    IF subOpen[s] THEN @ - closing[t][s] ELSE @]]

\* closeTracks, under the receiver's lock.
CloseTracksEmpties(t) ==
    /\ up[t] = "copied"
    /\ up' = [up EXCEPT ![t] = "emptied"]
    /\ CloseDownTracks(t)
    /\ downTracks' = [downTracks EXCEPT ![t] = Nobody]
    /\ closing' = [closing EXCEPT ![t] = Nobody]
    /\ UNCHANGED <<sessionVars, receivers, publishing, pubTodo, call, pcVars>>

\* The Receiver's close handler, under the router's lock.
DeleteReceiver(t) ==
    /\ up[t] = "emptied"
    /\ call[Owner[t]].by = "nobody"
    /\ up' = [up EXCEPT ![t] = "closed"]
    /\ receivers' = receivers \ {t}
    /\ UNCHANGED <<sessionVars, publishing, pubTodo, closing, call, downVars, pcVars>>

-----------------------------------------------------------------------------
(* Peer.Close and the failure of ICE.                                      *)

\* Session.RemovePeer; Close is called when the signalling connection is gone,
\* whose handlers, Join among them, run one after another.
RemovePeer(p) ==
    /\ stage[p] = "in"
    /\ peers' = peers \ {p}
    /\ stage' = [stage EXCEPT ![p] = "removed"]
    /\ UNCHANGED <<joinTodo, trackVars, call, downVars, pcVars>>

\* Publisher.Close: all buffers of its PeerConnection are closed.
ClosePublisher(p) ==
    /\ pubOpen' = [pubOpen EXCEPT ![p] = FALSE]
    /\ up' = [t \in Tracks |->
                IF Owner[t] = p /\ up[t] = "live" THEN "ended" ELSE up[t]]

PublisherCloses(p) ==
    /\ stage[p] = "removed"
    /\ stage' = [stage EXCEPT ![p] = "unpublished"]
    /\ ClosePublisher(p)
    /\ UNCHANGED <<peers, joinTodo, receivers, publishing, pubTodo, closing, call, downVars, subOpen>>

\* The same from the ICE callback; closeOnce makes the other call do nothing.
PublisherFails(p) ==
    /\ p \in Fragile
    /\ stage[p] = "in"
    /\ pubOpen[p]
    /\ ClosePublisher(p)
    /\ UNCHANGED <<sessionVars, receivers, publishing, pubTodo, closing, call, downVars, subOpen>>

\* Subscriber.Close.
SubscriberCloses(p) ==
    /\ stage[p] = "unpublished"
    /\ stage' = [stage EXCEPT ![p] = "gone"]
    /\ subOpen' = [subOpen EXCEPT ![p] = FALSE]
    /\ UNCHANGED <<peers, joinTodo, trackVars, call, downVars, pubOpen>>

SubscriberFails(p) ==
    /\ p \in Fragile
    /\ stage[p] = "in"
    /\ subOpen[p]
    /\ subOpen' = [subOpen EXCEPT ![p] = FALSE]
    /\ UNCHANGED <<sessionVars, trackVars, call, downVars, pubOpen>>

-----------------------------------------------------------------------------
JoinStep(p) ==
    \/ AddPeer(p) \/ Subscribe(p) \/ SubscribeDone(p)
    \/ \E q \in Peers : SubscribeTo(p, q)

AddDownTracks(p) == Unlock(p) \/ \E t \in Tracks : AddDownTrack(p, t) \/ HandOver(p, t)

PublishStep(t) ==
    \/ Publish(t)
    \/ \E s \in Peers : PublishTo(t, s)

CloseTracksStep(t) ==
    CloseTracksCopies(t) \/ CloseTracksEmpties(t) \/ DeleteReceiver(t)

CloseStep(p) == PublisherCloses(p) \/ SubscriberCloses(p)

Next ==
    \/ \E p \in Peers :
          \/ JoinStep(p) \/ AddDownTracks(p) \/ CloseStep(p)
          \/ RemovePeer(p) \/ PublisherFails(p) \/ SubscriberFails(p)
    \/ \E t \in Tracks :
          \/ AddReceiver(t) \/ PublishStep(t)
          \/ Forward(t) \/ TrackEnds(t) \/ CloseTracksStep(t)

Spec == Init /\ [][Next]_vars

\* Goroutines that have begun run on; joining, publishing and leaving are up
\* to the clients.
FairSpec ==
    /\ Spec
    /\ \A p \in Peers :
          /\ WF_vars(stage[p] # "new" /\ JoinStep(p))
          /\ WF_vars(AddDownTracks(p)) /\ WF_vars(CloseStep(p))
    /\ \A t \in Tracks :
          WF_vars(PublishStep(t)) /\ WF_vars(Forward(t)) /\ WF_vars(CloseTracksStep(t))

-----------------------------------------------------------------------------
(* Properties.                                                             *)

TypeOK ==
    /\ peers \subseteq Peers
    /\ stage \in [Peers -> Stages]
    /\ joinTodo \in [Peers -> SUBSET Peers]
    /\ receivers \subseteq Tracks
    /\ up \in [Tracks -> UpStates]
    /\ publishing \in [Tracks -> {"none", "added", "copied"}]
    /\ pubTodo \in [Tracks -> SUBSET Peers]
    /\ closing \in [Tracks -> [Peers -> Nat]]
    /\ call \in [Peers -> Calls]
    /\ downTracks \in [Tracks -> [Peers -> Nat]]
    /\ tracks \in [Peers -> [Tracks -> Nat]]
    /\ pubOpen \in [Peers -> BOOLEAN]
    /\ subOpen \in [Peers -> BOOLEAN]

\* Join and Publish may both come to the same subscriber and track; it never
\* gets a second DownTrack, and never one of its own track.
AtMostOneDownTrack ==
    \A s \in Peers, t \in Tracks :
        tracks[s][t] <= IF s = Owner[t] THEN 0 ELSE 1

\* The subscriber has the DownTrack, the Receiver will get it.
InHand(s, t) == call[Owner[t]].sub = s /\ t \in call[Owner[t]].given

\* While a track is live, the DownTracks its Receiver feeds are exactly those
\* its subscribers manage and report on, but for one that is on its way to the
\* Receiver: none is starved, none is fed that the subscriber does not know.
ListsAgree ==
    \A s \in Peers, t \in Tracks :
        up[t] = "live" => tracks[s][t] = downTracks[t][s] + IF InHand(s, t) THEN 1 ELSE 0

\* The Receiver of t feeds s.
Served(s, t) == downTracks[t][s] = 1

\* s and the owner of the live track t are both in the session and connected.
Wanted(s, t) ==
    /\ s # Owner[t]
    /\ {s, Owner[t]} \subseteq peers
    /\ up[t] = "live"
    /\ subOpen[s]

ToBeAdded(s, t) == call[Owner[t]].sub = s /\ t \in call[Owner[t]].todo \cup call[Owner[t]].given

\* Whoever should receive a track and does not is still on somebody's list:
\* the publisher has not looked at the peers yet or will come to s, or s has
\* not looked at the peers yet or will come to the owner's router, or one of
\* them is there.  So a join that races a publication never leaves a peer
\* without the track.
NobodyForgotten ==
    \A s \in Peers, t \in Tracks :
        Wanted(s, t) /\ ~Served(s, t) =>
            \/ publishing[t] = "added"
            \/ s \in pubTodo[t]
            \/ stage[s] = "added"
            \/ Owner[t] \in joinTodo[s]
            \/ ToBeAdded(s, t)

\* What the parts above need to be inductive: tracks arrive only after their
\* owner's Join; the router lists a Receiver from its creation to the end of
\* its closeTracks; nobody visits its own router, and a router adds only its
\* own tracks, one at a time; the two lists agree, as above, until closeTracks empties one of
\* them, and it closes down tracks that exist.
SupportingInv ==
    /\ \A t \in Tracks :
          /\ up[t] # "none" => stage[Owner[t]] \notin {"new", "added", "subscribing"}
          /\ up[t] \in {"live", "ended", "copied", "emptied"} => t \in receivers
          /\ Owner[t] \notin pubTodo[t]
    /\ \A s \in Peers : s \notin joinTodo[s]
    /\ \A p \in Peers :
          /\ call[p].by = "nobody" => call[p].todo = {} /\ call[p].given = {}
          /\ \A t \in call[p].todo \cup call[p].given : Owner[t] = p /\ call[p].sub # p
          /\ \A t, u \in call[p].given : t = u
    /\ \A s \in Peers, t \in Tracks :
          /\ up[t] \in {"none", "live", "ended", "copied"} =>
                tracks[s][t] = downTracks[t][s] + IF InHand(s, t) THEN 1 ELSE 0
          /\ up[t] = "copied" => closing[t][s] <= downTracks[t][s]

\* The inductive invariant behind the theorems of SubscriptionProofs.
IInv ==
    /\ TypeOK
    /\ AtMostOneDownTrack
    /\ ListsAgree
    /\ NobodyForgotten
    /\ SupportingInv

\* A peer of the session eventually receives every track of the others.
EventuallyServed ==
    \A s \in Peers, t \in Tracks :
        Wanted(s, t) ~> (Served(s, t) \/ ~Wanted(s, t))

\* closeTracks closes all down tracks of the Receiver, as its comment says:
\* once it is through and nobody is adding any more, no subscriber that is
\* still connected is left with a down track of the dead Receiver.  Violated:
\* one added after the list was copied is forgotten with the list.
ClosedTracksAreRemoved ==
    \A s \in Peers, t \in Tracks :
        /\ up[t] = "closed"
        /\ publishing[t] = "copied" /\ pubTodo[t] = {}
        /\ call[Owner[t]].by = "nobody"
        /\ Owner[t] \notin joinTodo[s]
        /\ subOpen[s]
        => tracks[s][t] = 0

=============================================================================
