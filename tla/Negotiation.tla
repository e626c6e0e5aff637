----------------------------- MODULE Negotiation -----------------------------
(***************************************************************************)
(* Renegotiation of one peer's Subscriber with its client                  *)
(* (internal/sfu/peer.go, internal/sfu/subscriber.go, signal/signal.go).   *)
(*                                                                         *)
(* Goroutines of other peers add and remove tracks and data channels on    *)
(* the subscriber's PeerConnection and then call Subscriber.negotiate,     *)
(* which arms a 250 ms debounce timer.  When the timer fires, a callback   *)
(* takes the Peer's lock and either sends an offer or, while an earlier    *)
(* offer is unanswered, notes that another one is needed.  The client's    *)
(* answer is handled by Peer.SetRemoteDescription under the same lock.     *)
(*                                                                         *)
(* What is offered is abstracted to a version number: version counts the   *)
(* changes made to the PeerConnection's media sections, an offer carries   *)
(* the version it was created from.  Everything done under the Peer's lock *)
(* is one action; a change of the tracks and the later call of negotiate   *)
(* are two, since no lock spans them.                                      *)
(***************************************************************************)
EXTENDS Naturals, Sequences

CONSTANTS
    MaxRequests,  \* bound: calls of negotiate by other goroutines
    MaxInvalid    \* bound: answers of the client that the PeerConnection refuses

ASSUME BoundsAssumption ==
    /\ MaxRequests \in Nat \ {0}
    /\ MaxInvalid \in Nat

VARIABLES
    version,             \* version of the media sections of Subscriber.pc
    requests,            \* calls of negotiate begun so far
    owed,                \* goroutines between their change and their negotiate()
    timer,               \* the debounce timer is armed
    waiting,             \* callbacks fired by the timer, waiting for the lock
    remoteAnswerPending, \* Peer.remoteAnswerPending
    negotiationPending,  \* Peer.negotiationPending
    closed,              \* Peer.closed
    signaling,           \* signaling state of Subscriber.pc
    offered,             \* version in the local description (0: none yet)
    applied,             \* version of the last offer that was answered
    connected,           \* the signalling connection to the client is up
    offers,              \* offers on their way to the client
    answers,             \* answers on their way to the SFU
    invalid,             \* refused answers on their way to the SFU
    sentInvalid          \* refused answers sent so far

peerVars   == <<remoteAnswerPending, negotiationPending, closed>>
pcVars     == <<signaling, offered, applied>>
wireVars   == <<connected, offers, answers, invalid, sentInvalid>>
timerVars  == <<timer, waiting>>
callerVars == <<version, requests, owed>>
vars == <<peerVars, pcVars, wireVars, timerVars, callerVars>>

pcOpen == signaling # "closed"

-----------------------------------------------------------------------------
\* After Join has registered the callback: the default data channels are the
\* first version, and Session.Subscribe still owes its call of negotiate.
Init ==
    /\ version = 1
    /\ requests = 1
    /\ owed = 1
    /\ timer = FALSE
    /\ waiting = 0
    /\ remoteAnswerPending = FALSE
    /\ negotiationPending = FALSE
    /\ closed = FALSE
    /\ signaling = "stable"
    /\ offered = 0
    /\ applied = 0
    /\ connected = TRUE
    /\ offers = <<>>
    /\ answers = <<>>
    /\ invalid = 0
    /\ sentInvalid = 0

-----------------------------------------------------------------------------
(* Other goroutines.                                                       *)

\* AddTransceiverFromTrack, RemoveTrack or CreateDataChannel succeeded.
ChangeTracks ==
    /\ pcOpen
    /\ requests < MaxRequests
    /\ version' = version + 1
    /\ requests' = requests + 1
    /\ owed' = owed + 1
    /\ UNCHANGED <<peerVars, pcVars, wireVars, timerVars>>

\* addDownTrack found the track already present, or the label already open:
\* negotiate is called all the same.
RequestWithoutChange ==
    /\ requests < MaxRequests
    /\ requests' = requests + 1
    /\ owed' = owed + 1
    /\ UNCHANGED <<version, peerVars, pcVars, wireVars, timerVars>>

\* Subscriber.negotiate: the debouncer stops its timer and starts a new one.
Negotiate ==
    /\ owed > 0
    /\ owed' = owed - 1
    /\ timer' = TRUE
    /\ UNCHANGED <<version, requests, waiting, peerVars, pcVars, wireVars>>

-----------------------------------------------------------------------------
(* The debounced callback.                                                 *)

\* 250 ms without another call: time.AfterFunc starts the callback.
TimerFires ==
    /\ timer
    /\ timer' = FALSE
    /\ waiting' = waiting + 1
    /\ UNCHANGED <<callerVars, peerVars, pcVars, wireVars>>

\* Subscriber.CreateOffer: CreateOffer and SetLocalDescription of the
\* PeerConnection are refused once it is closed or has an offer outstanding.
CreateOffer ==
    /\ signaling = "stable"
    /\ signaling' = "have-local-offer"
    /\ offered' = version
    /\ UNCHANGED applied

\* Variant: the test of Peer.closed is inverted.
SendOfferIfClosed ==
    offers' = IF closed /\ connected THEN Append(offers, offered') ELSE offers

\* Peer.OnOffer, a JSON-RPC notification that is lost without a connection.
SendOffer ==
    offers' = IF ~closed /\ connected THEN Append(offers, offered') ELSE offers

\* The callback registered by Peer.Join, under the Peer's lock.
OnNegotiationNeeded ==
    /\ waiting > 0
    /\ waiting' = waiting - 1
    /\ \/ /\ remoteAnswerPending
          /\ negotiationPending' = TRUE
          /\ UNCHANGED <<remoteAnswerPending, pcVars, offers>>
       \/ /\ ~remoteAnswerPending
          /\ signaling # "stable"                 \* CreateOffer failed: return
          /\ UNCHANGED <<remoteAnswerPending, negotiationPending, pcVars, offers>>
       \/ /\ ~remoteAnswerPending
          /\ CreateOffer
          /\ remoteAnswerPending' = TRUE
          /\ SendOffer
          /\ UNCHANGED negotiationPending
    /\ UNCHANGED <<callerVars, timer, closed, connected, answers, invalid, sentInvalid>>

-----------------------------------------------------------------------------
(* The client and the wire (external).                                     *)

ClientAnswer ==
    /\ offers # <<>>
    /\ answers' = Append(answers, Head(offers))
    /\ offers' = Tail(offers)
    /\ UNCHANGED <<callerVars, timerVars, peerVars, pcVars, connected, invalid, sentInvalid>>

\* An answer that the PeerConnection refuses; the offer stays unanswered.
ClientAnswerInvalid ==
    /\ connected
    /\ sentInvalid < MaxInvalid
    /\ sentInvalid' = sentInvalid + 1
    /\ invalid' = invalid + 1
    /\ UNCHANGED <<callerVars, timerVars, peerVars, pcVars, connected, offers, answers>>

ConnectionLost ==
    /\ connected
    /\ connected' = FALSE
    /\ offers' = <<>>
    /\ answers' = <<>>
    /\ invalid' = 0
    /\ UNCHANGED <<callerVars, timerVars, peerVars, pcVars, sentInvalid>>

-----------------------------------------------------------------------------
(* The "answer" message: Peer.SetRemoteDescription, under the Peer's lock. *)

\* The PeerConnection accepts an answer only while its offer is outstanding.
AcceptsAnswer == signaling = "have-local-offer"

\* Variant: the deferred renegotiation is cleared but not started.
FinishWithoutNegotiate ==
    /\ remoteAnswerPending' = FALSE
    /\ negotiationPending' = FALSE
    /\ UNCHANGED timer

\* Variant: remoteAnswerPending is not reset.
FinishStillPending ==
    /\ negotiationPending' = FALSE
    /\ timer' = (timer \/ negotiationPending)
    /\ UNCHANGED remoteAnswerPending

\* After a completed exchange the deferred renegotiation is started.
FinishNegotiation ==
    /\ remoteAnswerPending' = FALSE
    /\ negotiationPending' = FALSE
    /\ timer' = (timer \/ negotiationPending)

SetRemoteDescription ==
    /\ answers # <<>>
    /\ answers' = Tail(answers)
    /\ \/ /\ ~AcceptsAnswer                        \* error: return
          /\ UNCHANGED <<remoteAnswerPending, negotiationPending, timer, pcVars>>
       \/ /\ AcceptsAnswer
          /\ signaling' = "stable"
          /\ applied' = Head(answers)
          /\ FinishNegotiation
          /\ UNCHANGED offered
    /\ UNCHANGED <<callerVars, waiting, closed, connected, offers, invalid, sentInvalid>>

\* Variant: no early return when the PeerConnection refuses the answer.
SetRemoteDescriptionIgnoresError ==
    /\ invalid > 0
    /\ invalid' = invalid - 1
    /\ FinishNegotiation
    /\ UNCHANGED <<callerVars, waiting, closed, pcVars, connected, offers, answers, sentInvalid>>

\* The PeerConnection refuses the answer: return before any flag is touched.
SetRemoteDescriptionFails ==
    /\ invalid > 0
    /\ invalid' = invalid - 1
    /\ UNCHANGED <<callerVars, timerVars, peerVars, pcVars, connected, offers, answers, sentInvalid>>

-----------------------------------------------------------------------------
(* Shutdown.                                                               *)

\* Peer.Close, called once the signalling connection is gone, under the
\* Peer's lock: marks the peer and closes Subscriber.pc.
Close ==
    /\ ~connected
    /\ ~closed
    /\ closed' = TRUE
    /\ signaling' = "closed"
    /\ UNCHANGED <<callerVars, timerVars, remoteAnswerPending, negotiationPending,
                   offered, applied, wireVars>>

\* ICE failed or closed: Subscriber.Close alone, without the Peer's lock.
IceFailed ==
    /\ pcOpen
    /\ signaling' = "closed"
    /\ UNCHANGED <<callerVars, timerVars, peerVars, offered, applied, wireVars>>

-----------------------------------------------------------------------------
Next ==
    \/ ChangeTracks \/ RequestWithoutChange \/ Negotiate
    \/ TimerFires \/ OnNegotiationNeeded
    \/ ClientAnswer \/ ClientAnswerInvalid \/ ConnectionLost
    \/ SetRemoteDescription \/ SetRemoteDescriptionFails
    \/ Close \/ IceFailed

Spec == Init /\ [][Next]_vars

\* Goroutines run on, armed timers fire, a client that is connected answers
\* the offers it gets and its messages are read.
Fairness ==
    /\ WF_vars(Negotiate)
    /\ WF_vars(TimerFires)
    /\ WF_vars(OnNegotiationNeeded)
    /\ WF_vars(ClientAnswer)
    /\ WF_vars(SetRemoteDescription)

FairSpec == Spec /\ Fairness

-----------------------------------------------------------------------------
(* Properties.                                                             *)

FlagsOK ==
    /\ timer \in BOOLEAN
    /\ remoteAnswerPending \in BOOLEAN
    /\ negotiationPending \in BOOLEAN
    /\ closed \in BOOLEAN
    /\ connected \in BOOLEAN

CountersOK ==
    /\ version \in Nat \ {0}
    /\ requests \in 1 .. MaxRequests
    /\ owed \in Nat
    /\ waiting \in Nat
    /\ signaling \in {"stable", "have-local-offer", "closed"}
    /\ offered \in 0 .. version
    /\ applied \in 0 .. version
    /\ offers \in Seq(Nat \ {0})
    /\ answers \in Seq(Nat \ {0})
    /\ invalid \in Nat
    /\ sentInvalid \in 0 .. MaxInvalid

\* Every variable has its type; counters never go below zero or over a bound.
TypeOK == FlagsOK /\ CountersOK

\* Peer.remoteAnswerPending mirrors the signaling state of the PeerConnection,
\* whatever errors, refused answers and interleavings occurred.  This is what
\* keeps the callback from calling CreateOffer while an offer is outstanding
\* (the PeerConnection would refuse it and the request would be dropped).
PendingFlagMatchesSignaling ==
    pcOpen => (remoteAnswerPending <=> signaling = "have-local-offer")

\* While the client is connected and the PeerConnection open, exactly one
\* message of the exchange (the offer or its answer) is on the wire when an
\* answer is awaited, none otherwise, and it belongs to the current local
\* description: an answer is never applied to another offer than its own.
OneExchangeAtATime ==
    connected /\ pcOpen =>
        \/ /\ remoteAnswerPending
           /\ \/ offers = <<offered>> /\ answers = <<>>
              \/ offers = <<>> /\ answers = <<offered>>
        \/ /\ ~remoteAnswerPending
           /\ offers = <<>>
           /\ answers = <<>>

\* A change that no offer carries yet is never forgotten: somebody still has
\* to call negotiate, the timer is armed, a callback waits for the lock, or
\* the next answer will start another round.
NoLostRenegotiation ==
    pcOpen /\ offered < version =>
        \/ owed > 0
        \/ timer
        \/ waiting > 0
        \/ remoteAnswerPending /\ negotiationPending

\* What the parts above need to be inductive: a deferred renegotiation waits
\* for an answer that is still awaited, a closed peer's PeerConnection is
\* closed, and a lost connection delivers nothing.
SupportingInv ==
    /\ negotiationPending => remoteAnswerPending
    /\ closed => ~pcOpen
    /\ ~connected => offers = <<>> /\ answers = <<>>

\* The inductive invariant behind the theorems of NegotiationProofs.
IInv ==
    /\ TypeOK
    /\ PendingFlagMatchesSignaling
    /\ OneExchangeAtATime
    /\ NoLostRenegotiation
    /\ SupportingInv

\* Every change of the subscriber's tracks reaches the client, if the client
\* stays connected and the PeerConnection stays open.
ClientCatchesUp ==
    \A v \in 1 .. MaxRequests :
        version >= v ~> (applied >= v \/ ~pcOpen \/ ~connected)

\* The callbacks, flags and queues implement one offer/answer exchange after
\* another over versions that only grow.
OA == INSTANCE OfferAnswer WITH
        inflight <- IF remoteAnswerPending THEN offered ELSE 0,
        up <- pcOpen /\ connected

ImplementsOfferAnswer == OA!Spec

=============================================================================
