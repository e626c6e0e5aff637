---------------------------- MODULE DataChannels ----------------------------
(***************************************************************************)
(* The data channels of a session (internal/sfu/session.go, subscriber.go, *)
(* publisher.go, peer.go, datachannel.go).                                 *)
(*                                                                         *)
(* A data channel that a client opens is fanned out: every other peer of   *)
(* the session, present or joining later, gets a channel of the same       *)
(* label, and a message on one of them goes to all the others.  The labels *)
(* of the SFU's own channels are made for every peer before it enters, and *)
(* their messages pass the SFU's chain of middlewares.                     *)
(*                                                                         *)
(* As in Subscription, an action is a critical section or a step that      *)
(* another goroutine may get in between.  A pointer to a channel is        *)
(* abstracted to who made the channel.  A subscriber's lock covers         *)
(* AddDataChannel from the look-up to the store, but AddDatachannel writes *)
(* the channel of the owner without that lock, and may come between them.  *)
(***************************************************************************)
EXTENDS Naturals

CONSTANTS
    Peers,    \* the peers that may join the session
    Labels,   \* labels of data channels
    Default,  \* APIChannelLabel, the label of the SFU's own channel
    None,     \* no channel
    Openers,  \* bound: the peers whose clients open channels
    Closers,  \* bound: the peers whose clients close channels
    Leavers,  \* bound: the peers that may leave
    Fragile   \* bound: the peers whose subscriber may fail

ASSUME LabelAssumption ==
    /\ Default \in Labels
    /\ Openers \cup Closers \cup Leavers \cup Fragile \subseteq Peers
    /\ None \notin [label : Labels, maker : {"making", "sfu", "client"}]
                  \cup [peer : Peers, maker : {"making", "sfu", "client"}]

VARIABLES
    peers,      \* Session.peers
    stage,      \* progress of a peer's Join and Close
    fanOutDCs,  \* Session.fanOutDCs
    channels,   \* Subscriber.channels of every peer
    subTodo,    \* labels Session.Subscribe has copied and not yet visited
    subAt,      \* the label and channel Subscribe is adding
    opening,    \* progress of AddDatachannel for a peer's own channel
    openTodo,   \* peers AddDatachannel has copied and not yet visited
    openAt,     \* the peer and channel AddDatachannel is adding
    subOpen     \* the subscriber's PeerConnection is open

sessionVars == <<peers, stage, fanOutDCs, subOpen>>
subVars     == <<subTodo, subAt>>
openVars    == <<opening, openTodo, openAt>>
vars == <<sessionVars, channels, subVars, openVars>>

\* maker: who made it; state: whether it has been offered, is open or has been
\* closed; handler: what happens to a message that comes in on it.
Channel == [maker : {"none", "sfu", "client"}, state : {"new", "offered", "open", "closed"},
            handler : {"none", "chain", "onMessage"}]

NoChannel == [maker |-> "none", state |-> "new", handler |-> "none"]

Init ==
    /\ peers = {}
    /\ stage = [p \in Peers |-> "new"]
    /\ fanOutDCs = {}
    /\ channels = [p \in Peers |-> [l \in Labels |-> NoChannel]]
    /\ subTodo = [p \in Peers |-> {}]
    /\ subAt = [p \in Peers |-> None]
    /\ opening = [p \in Peers |-> [l \in Labels |-> "no"]]
    /\ openTodo = [p \in Peers |-> [l \in Labels |-> {}]]
    /\ openAt = [p \in Peers |-> [l \in Labels |-> None]]
    /\ subOpen = [p \in Peers |-> TRUE]

-----------------------------------------------------------------------------
(* A subscriber's channels.                                                *)

\* The labels that are fanned out.
FannedOut == Labels \ {Default}

Has(p, l) == channels[p][l].maker # "none"

\* A call of AddDataChannel that has found no channel and is to make one, and
\* one that has returned.
Making(at) == at # None /\ at.maker = "making"
Added(at) == at # None /\ at.maker # "making"

\* Such a call holds the lock of the subscriber.
Locked(p) ==
    Making(subAt[p]) \/ \E q \in Peers, l \in Labels : Making(openAt[q][l]) /\ openAt[q][l].peer = p

\* AddDataChannel: the channel that is there, or one that is to be made.
AddDataChannel(p, l) == IF Has(p, l) THEN channels[p][l].maker ELSE "making"

\* CreateDataChannel, and the store, whatever is there by now.
CreateDataChannel(p, l) ==
    [channels EXCEPT ![p][l] = [maker |-> "sfu", state |-> "new", handler |-> "none"]]

\* n.OnMessage for the channel that was added; another may have taken its place.
Handle(p, l, maker) ==
    [channels EXCEPT ![p][l].handler = IF channels[p][l].maker = maker THEN "onMessage" ELSE @]

\* Variant: nothing is negotiated.
OfferNothing(chs, p) == chs

\* negotiate, after which all channels of p are offered to the client.
Offer(chs, p) ==
    [chs EXCEPT ![p] = [l \in Labels |->
        IF @[l].maker = "sfu" /\ @[l].state = "new" THEN [@[l] EXCEPT !.state = "offered"] ELSE @[l]]]

\* The client has answered, and the channel opens.  Nothing depends on the state
\* of the SFU's own channel, which is not followed.
ChannelOpens(p, l) ==
    /\ subOpen[p] /\ l \in FannedOut
    /\ channels[p][l].state = "offered"
    /\ channels' = [channels EXCEPT ![p][l].state = "open"]
    /\ UNCHANGED <<sessionVars, subVars, openVars>>

\* The client closes a channel, which stays in the map.
ChannelCloses(p, l) ==
    /\ p \in Closers /\ l \in FannedOut
    /\ channels[p][l].state = "open"
    /\ channels' = [channels EXCEPT ![p][l].state = "closed"]
    /\ UNCHANGED <<sessionVars, subVars, openVars>>

-----------------------------------------------------------------------------
(* Peer.Join.                                                              *)

\* The PeerConnections and the SFU's own channel are made.
NewPeer(p) ==
    /\ stage[p] = "new"
    /\ stage' = [stage EXCEPT ![p] = "created"]
    /\ channels' = [channels EXCEPT ![p][Default] =
            [maker |-> "sfu", state |-> "new", handler |-> "chain"]]
    /\ UNCHANGED <<peers, fanOutDCs, subOpen, subVars, openVars>>

AddPeer(p) ==
    /\ stage[p] = "created"
    /\ stage' = [stage EXCEPT ![p] = "added"]
    /\ peers' = peers \cup {p}
    /\ UNCHANGED <<fanOutDCs, subOpen, channels, subVars, openVars>>

\* Subscribe copies the labels.
Subscribe(p) ==
    /\ stage[p] = "added"
    /\ stage' = [stage EXCEPT ![p] = "subscribing"]
    /\ subTodo' = [subTodo EXCEPT ![p] = fanOutDCs]
    /\ UNCHANGED <<peers, fanOutDCs, subOpen, channels, subAt, openVars>>

\* The next label.
SubscribeTo(p, l) ==
    /\ stage[p] = "subscribing"
    /\ subAt[p] = None /\ ~Locked(p)
    /\ l \in subTodo[p]
    /\ subTodo' = [subTodo EXCEPT ![p] = @ \ {l}]
    /\ subAt' = [subAt EXCEPT ![p] = [label |-> l, maker |-> AddDataChannel(p, l)]]
    /\ UNCHANGED <<sessionVars, channels, openVars>>

\* Its channel is made; an error is only logged.
SubscribeMakes(p) ==
    /\ Making(subAt[p])
    /\ \/ /\ subOpen[p]
          /\ channels' = CreateDataChannel(p, subAt[p].label)
          /\ subAt' = [subAt EXCEPT ![p].maker = "sfu"]
       \/ /\ ~subOpen[p]
          /\ subAt' = [subAt EXCEPT ![p] = None]
          /\ UNCHANGED channels
    /\ UNCHANGED <<sessionVars, subTodo, openVars>>

SubscribeHandles(p) ==
    /\ Added(subAt[p])
    /\ channels' = Handle(p, subAt[p].label, subAt[p].maker)
    /\ subAt' = [subAt EXCEPT ![p] = None]
    /\ UNCHANGED <<sessionVars, subTodo, openVars>>

SubscribeDone(p) ==
    /\ stage[p] = "subscribing"
    /\ subTodo[p] = {} /\ subAt[p] = None
    /\ stage' = [stage EXCEPT ![p] = "in"]
    /\ channels' = Offer(channels, p)
    /\ UNCHANGED <<peers, fanOutDCs, subOpen, subVars, openVars>>

-----------------------------------------------------------------------------
(* OnDataChannel of a publisher and Session.AddDatachannel.                *)

\* The client of p opens a channel; the publisher can be reached once the join
\* is answered and until it is closed.  Under the session's lock.
OpenChannel(p, l) ==
    /\ opening[p][l] = "no"
    /\ p \in Openers /\ stage[p] = "in"
    /\ l \in FannedOut
    /\ fanOutDCs' = fanOutDCs \cup {l}
    /\ channels' = [channels EXCEPT ![p][l] =
            [maker |-> "client", state |-> "open", handler |-> "none"]]
    /\ openTodo' = [openTodo EXCEPT ![p][l] = peers \ {p}]
    /\ opening' = [opening EXCEPT ![p][l] = "opened"]
    /\ UNCHANGED <<peers, stage, subOpen, subVars, openAt>>

\* The owner has left the session: its entry is nil, and the process ends.
OpenChannelPanics(p, l) ==
    /\ opening[p][l] = "no"
    /\ p \in Openers /\ stage[p] = "removed"
    /\ l \in FannedOut
    /\ opening' = [opening EXCEPT ![p][l] = "panic"]
    /\ UNCHANGED <<sessionVars, channels, subVars, openTodo, openAt>>

OpenHandles(p, l) ==
    /\ opening[p][l] = "opened"
    /\ opening' = [opening EXCEPT ![p][l] = "adding"]
    /\ channels' = Handle(p, l, "client")
    /\ UNCHANGED <<sessionVars, subVars, openTodo, openAt>>

\* The next peer.
AddTo(p, l, q) ==
    /\ opening[p][l] = "adding"
    /\ openAt[p][l] = None /\ ~Locked(q)
    /\ q \in openTodo[p][l]
    /\ openTodo' = [openTodo EXCEPT ![p][l] = @ \ {q}]
    /\ openAt' = [openAt EXCEPT ![p][l] = [peer |-> q, maker |-> AddDataChannel(q, l)]]
    /\ UNCHANGED <<sessionVars, channels, subVars, opening>>

\* Variant: the first error ends the loop.
AddToMakesOrStops(p, l) ==
    /\ Making(openAt[p][l])
    /\ \/ /\ subOpen[openAt[p][l].peer]
          /\ channels' = CreateDataChannel(openAt[p][l].peer, l)
          /\ openAt' = [openAt EXCEPT ![p][l].maker = "sfu"]
          /\ UNCHANGED openTodo
       \/ /\ ~subOpen[openAt[p][l].peer]
          /\ openAt' = [openAt EXCEPT ![p][l] = None]
          /\ openTodo' = [openTodo EXCEPT ![p][l] = {}]
          /\ UNCHANGED channels
    /\ UNCHANGED <<sessionVars, subVars, opening>>

\* Its channel is made; an error is only logged.
AddToMakes(p, l) ==
    /\ Making(openAt[p][l])
    /\ \/ /\ subOpen[openAt[p][l].peer]
          /\ channels' = CreateDataChannel(openAt[p][l].peer, l)
          /\ openAt' = [openAt EXCEPT ![p][l].maker = "sfu"]
       \/ /\ ~subOpen[openAt[p][l].peer]
          /\ openAt' = [openAt EXCEPT ![p][l] = None]
          /\ UNCHANGED channels
    /\ UNCHANGED <<sessionVars, subVars, opening, openTodo>>

\* OnMessage and negotiate for the peer.
AddToHandles(p, l) ==
    /\ Added(openAt[p][l])
    /\ channels' = Offer(Handle(openAt[p][l].peer, l, openAt[p][l].maker), openAt[p][l].peer)
    /\ openAt' = [openAt EXCEPT ![p][l] = None]
    /\ UNCHANGED <<sessionVars, subVars, opening, openTodo>>

-----------------------------------------------------------------------------
(* The end of a peer.                                                      *)

RemovePeer(p) ==
    /\ p \in Leavers /\ stage[p] = "in"
    /\ stage' = [stage EXCEPT ![p] = "removed"]
    /\ peers' = peers \ {p}
    /\ UNCHANGED <<fanOutDCs, subOpen, channels, subVars, openVars>>

ClosePeer(p) ==
    /\ stage[p] = "removed"
    /\ stage' = [stage EXCEPT ![p] = "closed"]
    /\ subOpen' = [subOpen EXCEPT ![p] = FALSE]
    /\ UNCHANGED <<peers, fanOutDCs, channels, subVars, openVars>>

SubscriberFails(p) ==
    /\ p \in Fragile
    /\ stage[p] # "new" /\ subOpen[p]
    /\ subOpen' = [subOpen EXCEPT ![p] = FALSE]
    /\ UNCHANGED <<peers, stage, fanOutDCs, channels, subVars, openVars>>

-----------------------------------------------------------------------------
JoinStep(p) ==
    \/ AddPeer(p) \/ Subscribe(p) \/ SubscribeMakes(p) \/ SubscribeHandles(p) \/ SubscribeDone(p)
    \/ \E l \in Labels : SubscribeTo(p, l)

OpenStep(p, l) ==
    \/ OpenHandles(p, l) \/ AddToMakes(p, l) \/ AddToHandles(p, l)
    \/ \E q \in Peers : AddTo(p, l, q)

Next ==
    \E p \in Peers :
        \/ NewPeer(p) \/ JoinStep(p) \/ RemovePeer(p) \/ ClosePeer(p) \/ SubscriberFails(p)
        \/ \E l \in Labels :
              \/ OpenChannel(p, l) \/ OpenChannelPanics(p, l) \/ OpenStep(p, l)
              \/ ChannelOpens(p, l) \/ ChannelCloses(p, l)

Spec == Init /\ [][Next]_vars

\* Goroutines run on, and a client answers what it is offered.
FairSpec ==
    /\ Spec
    /\ \A p \in Peers :
          /\ WF_vars(JoinStep(p))
          /\ WF_vars(\E l \in Labels : OpenStep(p, l))
          /\ WF_vars(\E l \in Labels : ChannelOpens(p, l))

-----------------------------------------------------------------------------
(* Properties.                                                             *)

SessionOK ==
    /\ stage \in [Peers -> {"new", "created", "added", "subscribing", "in", "removed", "closed"}]
    /\ peers = {p \in Peers : stage[p] \in {"added", "subscribing", "in"}}
    /\ fanOutDCs \subseteq FannedOut
    /\ subOpen \in [Peers -> BOOLEAN]

ChannelsOK == channels \in [Peers -> [Labels -> Channel]]

SubOK ==
    /\ subTodo \in [Peers -> SUBSET Labels]
    /\ subAt \in [Peers -> {None} \cup [label : Labels, maker : {"making", "sfu", "client"}]]

OpenOK ==
    /\ opening \in [Peers -> [Labels -> {"no", "opened", "adding", "panic"}]]
    /\ openTodo \in [Peers -> [Labels -> SUBSET Peers]]
    /\ openAt \in [Peers -> [Labels -> {None} \cup [peer : Peers, maker : {"making", "sfu", "client"}]]]

TypeOK == SessionOK /\ ChannelsOK /\ SubOK /\ OpenOK

\* getDataChannels: where a message of p with label l goes.
Recipients(p, l) ==
    {q \in peers \ {p} : Has(q, l) /\ channels[q][l].state = "open" /\ subOpen[q]}

\* Subscribe or AddDatachannel is adding a channel with label l for p.
BeingAdded(p, l) ==
    \/ subAt[p] # None /\ subAt[p].label = l
    \/ \E q \in Peers : openAt[q][l] # None /\ openAt[q][l].peer = p

\* Somebody is about to give p a channel with label l, or the handler of it.
AtWork(p, l) ==
    \/ stage[p] = "added" \/ l \in subTodo[p]
    \/ opening[p][l] = "opened"
    \/ \E q \in Peers : p \in openTodo[q][l]
    \/ BeingAdded(p, l)

\* No peer is forgotten, however joins and openings interleave: a label that
\* somebody opened is there for every peer, and what its client sends on it is
\* handled, unless somebody is at work on it or its connection failed.
NobodyForgotten ==
    \A p \in peers, l \in fanOutDCs :
        subOpen[p] => (Has(p, l) /\ channels[p][l].handler = "onMessage") \/ AtWork(p, l)

\* What a joining peer has added is still there: only its own client, after the
\* join, puts a channel in the place of another.
SubAtHolds ==
    \A p \in Peers :
        /\ subAt[p] # None => stage[p] = "subscribing"
        /\ Added(subAt[p]) => channels[p][subAt[p].label].maker = subAt[p].maker
        /\ Making(subAt[p]) => channels[p][subAt[p].label].maker # "sfu"

\* What AddDatachannel has added is there, or the client's own channel is.
OpenAtHolds ==
    \A p \in Peers, l \in Labels :
        /\ openAt[p][l] # None => l # Default
        /\ Added(openAt[p][l]) =>
              channels[openAt[p][l].peer][l].maker \in {openAt[p][l].maker, "client"}
        /\ Making(openAt[p][l]) => channels[openAt[p][l].peer][l].maker # "sfu"

\* While a channel is made, nobody else adds one for the same peer and label.
MakingAlone ==
    \A p, q \in Peers, l \in Labels :
        /\ Making(openAt[p][l]) /\ openAt[q][l] # None =>
              p = q \/ openAt[p][l].peer # openAt[q][l].peer
        /\ subAt[p] # None /\ openAt[q][l] # None /\ subAt[p].label = l /\ openAt[q][l].peer = p =>
              ~Making(subAt[p]) /\ ~Making(openAt[q][l])

\* A client's own channel is handled by its AddDatachannel, and one that the SFU
\* made, perhaps in the place of the client's, by the call that made it.
MakersHandle ==
    \A p \in Peers, l \in Labels :
        /\ opening[p][l] \in {"opened", "adding"} => l # Default /\ Has(p, l)
        /\ channels[p][l].maker = "client" =>
              opening[p][l] = "opened" \/ channels[p][l].handler = "onMessage"
        /\ channels[p][l].maker = "sfu" /\ l # Default =>
              channels[p][l].handler = "onMessage" \/ BeingAdded(p, l)

\* The inductive invariant.
IInv == TypeOK /\ SubAtHolds /\ OpenAtHolds /\ MakingAlone /\ MakersHandle /\ NobodyForgotten

\* Two peers that have joined and stay can reach each other by a label.
Settled(p, q) ==
    /\ {p, q} \subseteq peers
    /\ stage[p] = "in" /\ stage[q] = "in" /\ subOpen[p] /\ subOpen[q]

\* A message of one peer reaches every other one sooner or later after the
\* label was opened, by whomever and while whoever joined or failed, unless the
\* client of the other one has closed the channel.
EventuallyReached ==
    \A p, q \in Peers, l \in Labels \ {Default} :
        p # q =>
            (l \in fanOutDCs /\ Settled(p, q))
                ~> (~Settled(p, q) \/ channels[q][l].state = "closed"
                    \/ (q \in Recipients(p, l) /\ channels[p][l].handler = "onMessage"))

=============================================================================
