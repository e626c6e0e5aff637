------------------------- MODULE DataChannelsProofs -------------------------
(***************************************************************************)
(* Theorems about module DataChannels for any peers and labels: however    *)
(* joins, openings, failures and departures interleave, no peer of the     *)
(* session is left without a label that was opened.                        *)
(***************************************************************************)
EXTENDS DataChannels, TLAPS

-----------------------------------------------------------------------------
(* What the operations do to the channels of the subscribers.              *)

\* CreateDataChannel replaces one channel by a new one.
LEMMA CreatedChannel ==
  ASSUME ChannelsOK, NEW p \in Peers, NEW l \in Labels
  PROVE  LET chs == CreateDataChannel(p, l) IN
         /\ chs \in [Peers -> [Labels -> Channel]]
         /\ chs[p][l].maker = "sfu"
         /\ \A q \in Peers, k \in Labels : q # p \/ k # l => chs[q][k] = channels[q][k]
  <1> DEFINE new == [maker |-> "sfu", state |-> "new", handler |-> "none"]
  <1>1. new \in Channel /\ new.maker = "sfu"
    BY DEF Channel
  <1>2. CreateDataChannel(p, l) = [channels EXCEPT ![p] = [channels[p] EXCEPT ![l] = new]]
    BY DEF CreateDataChannel
  <1> HIDE DEF new
  <1>3. QED
    BY <1>1, <1>2 DEF ChannelsOK

\* What AddDataChannel finds: "making" just where there is no channel.
LEMMA FoundChannel ==
  ASSUME ChannelsOK, NEW p \in Peers, NEW l \in Labels
  PROVE  /\ AddDataChannel(p, l) \in {"making", "sfu", "client"}
         /\ AddDataChannel(p, l) = "making" => channels[p][l].maker = "none"
         /\ AddDataChannel(p, l) # "making" => AddDataChannel(p, l) = channels[p][l].maker
  <1>1. channels[p][l].maker \in {"none", "sfu", "client"}
    BY DEF ChannelsOK, Channel
  <1>2. QED
    BY <1>1 DEF AddDataChannel, Has

\* Handle sets the handler of one channel, if it is the one that was made.
LEMMA HandledChannel ==
  ASSUME ChannelsOK, NEW p \in Peers, NEW l \in Labels, NEW maker
  PROVE  LET chs == Handle(p, l, maker) IN
         /\ chs \in [Peers -> [Labels -> Channel]]
         /\ \A q \in Peers, k \in Labels :
               /\ chs[q][k].maker = channels[q][k].maker
               /\ chs[q][k].handler \in {channels[q][k].handler, "onMessage"}
         /\ channels[p][l].maker = maker => chs[p][l].handler = "onMessage"
  <1> DEFINE new == [channels[p][l] EXCEPT !.handler = IF channels[p][l].maker = maker THEN "onMessage" ELSE @]
  <1>0. \A c \in Channel : LET d == [c EXCEPT !.handler = IF c.maker = maker THEN "onMessage" ELSE @]
                          IN  /\ d \in Channel
                              /\ d.maker = c.maker /\ d.handler \in {c.handler, "onMessage"}
                              /\ c.maker = maker => d.handler = "onMessage"
    BY DEF Channel
  <1>1. /\ new \in Channel
        /\ new.maker = channels[p][l].maker
        /\ new.handler \in {channels[p][l].handler, "onMessage"}
        /\ channels[p][l].maker = maker => new.handler = "onMessage"
    BY <1>0 DEF ChannelsOK
  <1>2. Handle(p, l, maker) = [channels EXCEPT ![p] = [channels[p] EXCEPT ![l] = new]]
    BY DEF Handle
  <1> HIDE DEF new
  <1>3. QED
    BY <1>1, <1>2 DEF ChannelsOK

\* An offer changes neither makers nor handlers.
LEMMA OfferedChannel ==
  ASSUME NEW old \in [Peers -> [Labels -> Channel]], NEW p \in Peers
  PROVE  LET chs == Offer(old, p) IN
         /\ chs \in [Peers -> [Labels -> Channel]]
         /\ \A q \in Peers, k \in Labels :
               chs[q][k].maker = old[q][k].maker /\ chs[q][k].handler = old[q][k].handler
  <1> DEFINE Offered(c) == IF c.maker = "sfu" /\ c.state = "new" THEN [c EXCEPT !.state = "offered"] ELSE c
  <1>1. \A c \in Channel : /\ Offered(c) \in Channel
                           /\ Offered(c).maker = c.maker /\ Offered(c).handler = c.handler
    BY DEF Channel
  <1>2. Offer(old, p) = [old EXCEPT ![p] = [l \in Labels |-> Offered(old[p][l])]]
    BY DEF Offer
  <1> HIDE DEF Offered
  <1>3. QED
    BY <1>1, <1>2

-----------------------------------------------------------------------------
(* The inductive invariant.                                                *)

\* An empty session satisfies it.
LEMMA InitIInv == Init => IInv
  <1> SUFFICES ASSUME Init
               PROVE  IInv
    OBVIOUS
  <1> USE DEF Init
  <1>1. SessionOK /\ SubOK /\ OpenOK
    BY DEF SessionOK, SubOK, OpenOK
  <1>2. ChannelsOK
    BY DEF ChannelsOK, Channel, NoChannel
  <1>3. SubAtHolds /\ OpenAtHolds /\ MakingAlone /\ NobodyForgotten
    BY DEF SubAtHolds, OpenAtHolds, MakingAlone, Making, Added, NobodyForgotten
  <1>4. MakersHandle
    BY DEF MakersHandle, NoChannel
  <1>5. QED
    BY <1>1, <1>2, <1>3, <1>4 DEF IInv, TypeOK

\* What the places hold that Subscribe and AddDatachannel are at.
LEMMA AtTypes ==
  ASSUME SubOK, OpenOK
  PROVE  /\ \A q \in Peers : subAt[q] # None =>
               subAt[q].label \in Labels /\ subAt[q].maker \in {"making", "sfu", "client"}
         /\ \A q \in Peers, k \in Labels : openAt[q][k] # None =>
               openAt[q][k].peer \in Peers /\ openAt[q][k].maker \in {"making", "sfu", "client"}
  <1>1. \A x \in [label : Labels, maker : {"making", "sfu", "client"}] :
           x.label \in Labels /\ x.maker \in {"making", "sfu", "client"}
    OBVIOUS
  <1>2. \A x \in [peer : Peers, maker : {"making", "sfu", "client"}] :
           x.peer \in Peers /\ x.maker \in {"making", "sfu", "client"}
    OBVIOUS
  <1>3. QED
    BY <1>1, <1>2 DEF SubOK, OpenOK

\* A step that makes no channel and takes no handler away keeps what the calls
\* have added, and their channels are handled as before.
LEMMA MakersKept ==
  ASSUME SubOK, OpenOK, OpenAtHolds, MakingAlone, MakersHandle, UNCHANGED <<subAt, openAt, opening>>,
         \A q \in Peers, k \in Labels :
            /\ channels'[q][k].maker = channels[q][k].maker
            /\ channels'[q][k].handler \in {channels[q][k].handler, "onMessage"}
  PROVE  OpenAtHolds' /\ MakingAlone' /\ MakersHandle'
  <1>1. OpenAtHolds'
    BY AtTypes DEF OpenAtHolds, Making, Added
  <1>2. MakingAlone'
    BY DEF MakingAlone, Making
  <1>3. MakersHandle'
    BY DEF MakersHandle, BeingAdded, Has
  <1>4. QED
    BY <1>1, <1>2, <1>3

\* Making the connections of a peer and the SFU's own channel.
LEMMA NewPeerPreserves ==
  ASSUME IInv, NEW p \in Peers, NewPeer(p)
  PROVE  IInv'
  <1>1. /\ SessionOK /\ ChannelsOK /\ SubOK /\ OpenOK
        /\ SubAtHolds /\ OpenAtHolds /\ MakingAlone /\ MakersHandle /\ NobodyForgotten
    BY DEF IInv, TypeOK
  <1> DEFINE own == [maker |-> "sfu", state |-> "new", handler |-> "chain"]
  <1>2. own \in Channel /\ own.maker = "sfu" /\ own.handler = "chain"
    BY DEF Channel
  <1>3. /\ stage[p] = "new" /\ stage' = [stage EXCEPT ![p] = "created"]
        /\ channels' = [channels EXCEPT ![p] = [channels[p] EXCEPT ![Default] = own]]
        /\ UNCHANGED <<peers, fanOutDCs, subOpen, subVars, openVars>>
    BY DEF NewPeer
  <1> HIDE DEF own
  <1>4. /\ channels' \in [Peers -> [Labels -> Channel]]
        /\ channels'[p][Default].maker = "sfu"
        /\ \A q \in Peers, k \in Labels : q # p \/ k # Default => channels'[q][k] = channels[q][k]
    BY <1>1, <1>2, <1>3, LabelAssumption DEF LabelAssumption, ChannelsOK
  <1>5. SessionOK'
    BY <1>1, <1>3, <1>4 DEF SessionOK, sessionVars, subVars, openVars
  <1>6. ChannelsOK'
    BY <1>1, <1>3, <1>4 DEF ChannelsOK
  <1>7. SubOK' /\ OpenOK'
    BY <1>1, <1>3, <1>4 DEF SubOK, OpenOK, sessionVars, subVars, openVars
  <1>8. SubAtHolds'
    BY <1>1, <1>3, <1>4, AtTypes DEF SubAtHolds, Making, Added, SessionOK, subVars
  <1>9. OpenAtHolds' /\ MakingAlone'
    BY <1>1, <1>3, <1>4, AtTypes DEF OpenAtHolds, MakingAlone, Making, Added, subVars, openVars
  <1>10. MakersHandle'
    BY <1>1, <1>3, <1>4 DEF MakersHandle, BeingAdded, Has, subVars, openVars
  <1>11. NobodyForgotten'
    <2> SUFFICES ASSUME NEW q \in peers, NEW k \in fanOutDCs, subOpen[q]
                 PROVE  \/ Has(q, k)' /\ channels'[q][k].handler = "onMessage"
                        \/ AtWork(q, k)'
      BY <1>3 DEF NobodyForgotten
    <2>1. q \in Peers /\ k \in Labels /\ k # Default /\ q # p
      BY <1>1, <1>3 DEF SessionOK, FannedOut
    <2>2. AtWork(q, k) => AtWork(q, k)'
      BY <1>1, <1>3, <2>1 DEF AtWork, BeingAdded, SessionOK, subVars, openVars
    <2>3. QED
      BY <1>1, <1>4, <2>1, <2>2 DEF NobodyForgotten, Has
  <1>12. QED
    BY <1>5, <1>6, <1>7, <1>8, <1>9, <1>10, <1>11 DEF IInv, TypeOK

\* Entering the session.
LEMMA AddPeerPreserves ==
  ASSUME IInv, NEW p \in Peers, AddPeer(p)
  PROVE  IInv'
  <1>1. /\ SessionOK /\ ChannelsOK /\ SubOK /\ OpenOK
        /\ SubAtHolds /\ OpenAtHolds /\ MakingAlone /\ MakersHandle /\ NobodyForgotten
    BY DEF IInv, TypeOK
  <1>2. SessionOK'
    BY <1>1 DEF AddPeer, SessionOK, sessionVars, subVars, openVars
  <1>3. ChannelsOK'
    BY <1>1 DEF AddPeer, ChannelsOK
  <1>4. SubOK' /\ OpenOK'
    BY <1>1 DEF AddPeer, SubOK, OpenOK, sessionVars, subVars, openVars
  <1>5. SubAtHolds'
    BY <1>1 DEF AddPeer, SubAtHolds, Making, Added, SessionOK, subVars
  <1>6. OpenAtHolds' /\ MakingAlone' /\ MakersHandle'
    BY <1>1, MakersKept DEF AddPeer, subVars, openVars
  <1>7. NobodyForgotten'
    <2> SUFFICES ASSUME NEW q \in peers \cup {p}, NEW k \in fanOutDCs, subOpen[q]
                 PROVE  \/ Has(q, k)' /\ channels'[q][k].handler = "onMessage"
                        \/ AtWork(q, k)'
      BY DEF AddPeer, NobodyForgotten
    <2>1. q \in Peers /\ k \in Labels
      BY <1>1 DEF SessionOK, FannedOut
    <2>2. CASE q = p
      BY <1>1, <2>2 DEF AddPeer, AtWork, SessionOK
    <2>3. CASE q # p
      <3>1. AtWork(q, k) => AtWork(q, k)'
        BY <1>1, <2>1, <2>3 DEF AddPeer, AtWork, BeingAdded, SessionOK, subVars, openVars
      <3>2. QED
        BY <1>1, <2>3, <3>1 DEF AddPeer, NobodyForgotten, Has
    <2>4. QED
      BY <2>2, <2>3
  <1>8. QED
    BY <1>2, <1>3, <1>4, <1>5, <1>6, <1>7 DEF IInv, TypeOK

\* Copying the labels that were fanned out before the join.
LEMMA SubscribePreserves ==
  ASSUME IInv, NEW p \in Peers, Subscribe(p)
  PROVE  IInv'
  <1>1. /\ SessionOK /\ ChannelsOK /\ SubOK /\ OpenOK
        /\ SubAtHolds /\ OpenAtHolds /\ MakingAlone /\ MakersHandle /\ NobodyForgotten
    BY DEF IInv, TypeOK
  <1>2. SessionOK'
    BY <1>1 DEF Subscribe, SessionOK, sessionVars, subVars, openVars
  <1>3. ChannelsOK'
    BY <1>1 DEF Subscribe, ChannelsOK
  <1>4. SubOK' /\ OpenOK'
    BY <1>1 DEF Subscribe, SubOK, OpenOK, SessionOK, FannedOut, sessionVars, subVars, openVars
  <1>5. SubAtHolds'
    BY <1>1 DEF Subscribe, SubAtHolds, Making, Added, SessionOK, subVars
  <1>6. OpenAtHolds' /\ MakingAlone' /\ MakersHandle'
    BY <1>1, MakersKept DEF Subscribe, subVars, openVars
  <1>7. NobodyForgotten'
    <2> SUFFICES ASSUME NEW q \in peers, NEW k \in fanOutDCs, subOpen[q]
                 PROVE  \/ Has(q, k)' /\ channels'[q][k].handler = "onMessage"
                        \/ AtWork(q, k)'
      BY DEF Subscribe, NobodyForgotten
    <2>1. q \in Peers /\ k \in Labels
      BY <1>1 DEF SessionOK, FannedOut
    <2>2. CASE q = p
      BY <1>1, <2>2 DEF Subscribe, AtWork, SubOK
    <2>3. CASE q # p
      <3>1. AtWork(q, k) => AtWork(q, k)'
        BY <1>1, <2>1, <2>3 DEF Subscribe, AtWork, BeingAdded, SessionOK, SubOK, openVars
      <3>2. QED
        BY <1>1, <3>1 DEF Subscribe, NobodyForgotten, Has
    <2>4. QED
      BY <2>2, <2>3
  <1>8. QED
    BY <1>2, <1>3, <1>4, <1>5, <1>6, <1>7 DEF IInv, TypeOK

\* The end of a join.
LEMMA SubscribeDonePreserves ==
  ASSUME IInv, NEW p \in Peers, SubscribeDone(p)
  PROVE  IInv'
  <1>1. /\ SessionOK /\ ChannelsOK /\ SubOK /\ OpenOK
        /\ SubAtHolds /\ OpenAtHolds /\ MakingAlone /\ MakersHandle /\ NobodyForgotten
    BY DEF IInv, TypeOK
  <1>2. /\ stage[p] = "subscribing" /\ stage' = [stage EXCEPT ![p] = "in"]
        /\ subTodo[p] = {} /\ subAt[p] = None
        /\ UNCHANGED <<peers, fanOutDCs, subOpen, subVars, openVars>>
    BY DEF SubscribeDone
  <1>3. /\ channels' \in [Peers -> [Labels -> Channel]]
        /\ \A q \in Peers, k \in Labels :
              /\ channels'[q][k].maker = channels[q][k].maker
              /\ channels'[q][k].handler = channels[q][k].handler
    BY <1>1, OfferedChannel DEF ChannelsOK, SubscribeDone
  <1>4. SessionOK'
    BY <1>1, <1>2, <1>3 DEF SessionOK, sessionVars, subVars, openVars
  <1>5. ChannelsOK'
    BY <1>1, <1>2, <1>3 DEF ChannelsOK, sessionVars, subVars, openVars
  <1>6. SubOK' /\ OpenOK'
    BY <1>1, <1>2, <1>3 DEF SubOK, OpenOK, sessionVars, subVars, openVars
  <1>7. SubAtHolds'
    BY <1>1, <1>2, <1>3, AtTypes, SMTT(40) DEF SubAtHolds, Making, Added, SessionOK, subVars
  <1>8. OpenAtHolds' /\ MakingAlone' /\ MakersHandle'
    BY <1>1, <1>2, <1>3, MakersKept DEF subVars, openVars
  <1>9. NobodyForgotten'
        <2> SUFFICES ASSUME NEW q \in peers', NEW k \in fanOutDCs', subOpen'[q]
                 PROVE  \/ Has(q, k)' /\ channels'[q][k].handler = "onMessage"
                        \/ AtWork(q, k)'
      BY DEF NobodyForgotten
    <2>1. q \in Peers /\ k \in Labels /\ k # Default
      BY <1>1, <1>2 DEF SessionOK, FannedOut, sessionVars, subVars, openVars
    <2>2. \/ Has(q, k) /\ channels[q][k].handler = "onMessage"
          \/ AtWork(q, k)
          \/ AtWork(q, k)'
      BY <2>1, <1>1, <1>2 DEF NobodyForgotten
    <2>3. CASE Has(q, k) /\ channels[q][k].handler = "onMessage"
      BY <2>1, <2>3, <1>3 DEF Has
    <2>4. CASE AtWork(q, k)
      BY <2>1, <2>4, <1>1, <1>2 DEF AtWork, BeingAdded, SessionOK, sessionVars, subVars, openVars
    <2>5. QED
      BY <2>2, <2>3, <2>4
  <1>10. QED
    BY <1>4, <1>5, <1>6, <1>7, <1>8, <1>9 DEF IInv, TypeOK

\* Handling the messages of a label that was added.
LEMMA SubscribeHandlesPreserves ==
  ASSUME IInv, NEW p \in Peers, SubscribeHandles(p)
  PROVE  IInv'
  <1>1. /\ SessionOK /\ ChannelsOK /\ SubOK /\ OpenOK
        /\ SubAtHolds /\ OpenAtHolds /\ MakingAlone /\ MakersHandle /\ NobodyForgotten
    BY DEF IInv, TypeOK
  <1> DEFINE l == subAt[p].label
  <1>2. l \in Labels /\ subAt[p].maker = channels[p][l].maker /\ subAt[p].maker # "none"
    BY <1>1, AtTypes DEF SubAtHolds, SubscribeHandles, Added
  <1>3. /\ subAt' = [subAt EXCEPT ![p] = None]
        /\ UNCHANGED <<sessionVars, subTodo, openVars>>
    BY DEF SubscribeHandles
  <1>4. channels' = Handle(p, l, subAt[p].maker)
    BY DEF SubscribeHandles
  <1> HIDE DEF l
  <1>5. /\ channels' \in [Peers -> [Labels -> Channel]]
        /\ \A q \in Peers, k \in Labels :
              /\ channels'[q][k].maker = channels[q][k].maker
              /\ channels'[q][k].handler \in {channels[q][k].handler, "onMessage"}
        /\ channels'[p][l].handler = "onMessage"
    BY <1>1, <1>2, <1>4, HandledChannel
  <1>6. subAt'[p] = None /\ \A q \in Peers : q # p => subAt'[q] = subAt[q]
    BY <1>1, <1>3 DEF SubOK
  <1>7. SessionOK'
    BY <1>1, <1>2, <1>3, <1>5, <1>6 DEF SessionOK, sessionVars, subVars, openVars
  <1>8. ChannelsOK'
    BY <1>1, <1>2, <1>3, <1>5, <1>6 DEF ChannelsOK, sessionVars, subVars, openVars
  <1>9. SubOK' /\ OpenOK'
    BY <1>1, <1>2, <1>3, <1>5, <1>6 DEF SubOK, OpenOK, sessionVars, subVars, openVars
  <1>10. SubAtHolds'
    BY <1>1, <1>3, <1>5, <1>6, AtTypes DEF SubAtHolds, Making, Added, sessionVars
  <1>11. OpenAtHolds' /\ MakingAlone'
    <2>1. OpenAtHolds'
      <3> SUFFICES ASSUME NEW q \in Peers, NEW k \in Labels, openAt[q][k] # None
                   PROVE  /\ k # Default
                          /\ Added(openAt[q][k]) =>
                                channels'[openAt[q][k].peer][k].maker \in {openAt[q][k].maker, "client"}
                          /\ Making(openAt[q][k]) => channels'[openAt[q][k].peer][k].maker # "sfu"
        BY <1>3 DEF OpenAtHolds, Making, Added, openVars
      <3>1. openAt[q][k].peer \in Peers
        BY <1>1, AtTypes
      <3>2. channels'[openAt[q][k].peer][k].maker = channels[openAt[q][k].peer][k].maker
        BY <1>5, <3>1
      <3>3. QED
        BY <1>1, <3>2 DEF OpenAtHolds, Making, Added
    <2>2. MakingAlone'
      BY <1>1, <1>3, <1>6 DEF MakingAlone, Making, openVars
    <2>3. QED
      BY <2>1, <2>2
  <1>12. MakersHandle'
    <2> SUFFICES ASSUME NEW q \in Peers, NEW k \in Labels
                 PROVE  /\ opening'[q][k] \in {"opened", "adding"} => k # Default /\ Has(q, k)'
                        /\ channels'[q][k].maker = "client" =>
                              opening'[q][k] = "opened" \/ channels'[q][k].handler = "onMessage"
                        /\ channels'[q][k].maker = "sfu" /\ k # Default =>
                              channels'[q][k].handler = "onMessage" \/ BeingAdded(q, k)'
      BY DEF MakersHandle
    <2>1. CASE q = p /\ k = l
      BY <1>1, <1>3, <1>5, <2>1 DEF MakersHandle, Has, openVars
    <2>2. CASE q # p \/ k # l
      BY <1>1, <1>3, <1>5, <1>6, <2>2 DEF MakersHandle, BeingAdded, Has, l, openVars
    <2>3. QED
      BY <2>1, <2>2
  <1>13. NobodyForgotten'
        <2> SUFFICES ASSUME NEW q \in peers', NEW k \in fanOutDCs', subOpen'[q]
                 PROVE  \/ Has(q, k)' /\ channels'[q][k].handler = "onMessage"
                        \/ AtWork(q, k)'
      BY DEF NobodyForgotten
    <2>1. q \in Peers /\ k \in Labels /\ k # Default
      BY <1>1, <1>3 DEF SessionOK, FannedOut, sessionVars, subVars, openVars
    <2>2. \/ Has(q, k) /\ channels[q][k].handler = "onMessage"
          \/ AtWork(q, k)
          \/ AtWork(q, k)'
      BY <2>1, <1>1, <1>3 DEF NobodyForgotten, sessionVars
    <2>3. CASE Has(q, k) /\ channels[q][k].handler = "onMessage"
      BY <2>1, <2>3, <1>5 DEF Has
    <2>4. CASE AtWork(q, k)
      BY <2>1, <2>4, <1>2, <1>3, <1>5, <1>6 DEF AtWork, BeingAdded, Has, l, sessionVars,
             subVars, openVars
    <2>5. QED
      BY <2>2, <2>3, <2>4
  <1>14. QED
    BY <1>7, <1>8, <1>9, <1>10, <1>11, <1>12, <1>13 DEF IInv, TypeOK

\* While nobody makes a channel for the peer, one that is there was added.
LEMMA UnlockedAdds ==
  ASSUME IInv, NEW p \in Peers, NEW l \in Labels, ~Locked(p)
  PROVE  /\ ~Making(subAt[p])
         /\ subAt[p] # None /\ subAt[p].label = l => Has(p, l)
         /\ \A q \in Peers : openAt[q][l] # None /\ openAt[q][l].peer = p => ~Making(openAt[q][l]) /\ Has(p, l)
  <1>1. SubOK /\ OpenOK /\ SubAtHolds /\ OpenAtHolds
    BY DEF IInv, TypeOK
  <1>2. ~Making(subAt[p]) /\ \A q \in Peers : ~(Making(openAt[q][l]) /\ openAt[q][l].peer = p)
    BY DEF Locked
  <1>3. QED
    BY <1>1, <1>2, AtTypes DEF SubAtHolds, OpenAtHolds, Making, Added, Has

\* A joining peer finds the channel of a label, or is to make it.
LEMMA SubscribeToPreserves ==
  ASSUME IInv, NEW p \in Peers, NEW l \in Labels, SubscribeTo(p, l)
  PROVE  IInv'
  <1>1. /\ SessionOK /\ ChannelsOK /\ SubOK /\ OpenOK
        /\ SubAtHolds /\ OpenAtHolds /\ MakingAlone /\ MakersHandle /\ NobodyForgotten
    BY DEF IInv, TypeOK
  <1> DEFINE at == [label |-> l, maker |-> AddDataChannel(p, l)]
  <1>2. /\ stage[p] = "subscribing" /\ subAt[p] = None /\ ~Locked(p)
        /\ subTodo' = [subTodo EXCEPT ![p] = @ \ {l}]
        /\ subAt' = [subAt EXCEPT ![p] = at]
        /\ UNCHANGED <<sessionVars, channels, openVars>>
    BY DEF SubscribeTo
  <1>3. /\ at \in [label : Labels, maker : {"making", "sfu", "client"}]
        /\ at.label = l /\ at # None
        /\ at.maker = "making" => channels[p][l].maker = "none"
        /\ at.maker # "making" => at.maker = channels[p][l].maker
    BY <1>1, FoundChannel, LabelAssumption DEF LabelAssumption
  <1> HIDE DEF at
  <1>4. /\ subTodo' \in [Peers -> SUBSET Labels]
        /\ \A q \in Peers : q # p => subTodo'[q] = subTodo[q]
        /\ \A k \in subTodo[p] : k # l => k \in subTodo'[p]
    BY <1>1, <1>2 DEF SubOK
  <1>5. subAt'[p] = at /\ \A q \in Peers : q # p => subAt'[q] = subAt[q]
    BY <1>1, <1>2 DEF SubOK
  <1>6. SessionOK' /\ OpenOK' /\ ChannelsOK'
    BY <1>1, <1>2 DEF SessionOK, OpenOK, ChannelsOK, sessionVars, openVars
  <1>7. SubOK'
    BY <1>1, <1>2, <1>3, <1>4 DEF SubOK
  <1>8. SubAtHolds'
    BY <1>1, <1>2, <1>3, <1>5, AtTypes DEF SubAtHolds, Making, Added, sessionVars
  <1>9. OpenAtHolds'
    BY <1>1, <1>2 DEF OpenAtHolds, Making, Added, openVars
  <1>10. MakingAlone'
    <2>1. \A q \in Peers : openAt[q][l] # None /\ openAt[q][l].peer = p =>
             ~Making(openAt[q][l]) /\ at.maker # "making"
      BY <1>2, <1>3, UnlockedAdds DEF Has
    <2>2. QED
      BY <1>1, <1>2, <1>3, <1>5, <2>1 DEF MakingAlone, Making, openVars
  <1>11. MakersHandle'
    BY <1>1, <1>2, <1>5 DEF MakersHandle, BeingAdded, Has, openVars
  <1>12. NobodyForgotten'
    <2> SUFFICES ASSUME NEW q \in peers, NEW k \in fanOutDCs, subOpen[q]
                 PROVE  \/ Has(q, k) /\ channels[q][k].handler = "onMessage"
                        \/ AtWork(q, k)'
      BY <1>2 DEF NobodyForgotten, Has, sessionVars
    <2>1. q \in Peers /\ k \in Labels
      BY <1>1 DEF SessionOK, FannedOut
    <2>2. CASE AtWork(q, k)
      <3>1. CASE q = p /\ k = l
        BY <1>3, <1>5, <3>1 DEF AtWork, BeingAdded
      <3>2. CASE q # p \/ k # l
        BY <1>2, <1>4, <1>5, <2>1, <2>2, <3>2 DEF AtWork, BeingAdded, sessionVars, openVars
      <3>3. QED
        BY <3>1, <3>2
    <2>3. QED
      BY <1>1, <2>2 DEF NobodyForgotten
  <1>13. QED
    BY <1>6, <1>7, <1>8, <1>9, <1>10, <1>11, <1>12 DEF IInv, TypeOK

\* The channel of a joining peer is made, or its connection has failed.
LEMMA SubscribeMakesPreserves ==
  ASSUME IInv, NEW p \in Peers, SubscribeMakes(p)
  PROVE  IInv'
  <1>1. /\ SessionOK /\ ChannelsOK /\ SubOK /\ OpenOK
        /\ SubAtHolds /\ OpenAtHolds /\ MakingAlone /\ MakersHandle /\ NobodyForgotten
    BY DEF IInv, TypeOK
  <1>0. PICK l \in Labels : l = subAt[p].label
    BY <1>1, AtTypes DEF SubscribeMakes, Making
  <1>2. /\ Making(subAt[p]) /\ subAt[p] # None
        /\ stage[p] = "subscribing" /\ channels[p][l].maker # "sfu"
        /\ UNCHANGED <<sessionVars, subTodo, openVars>>
    BY <1>0, <1>1 DEF SubscribeMakes, SubAtHolds, Making
  <1>3. \A q \in Peers : openAt[q][l] # None => openAt[q][l].peer # p
    BY <1>0, <1>1, <1>2 DEF MakingAlone
  <1>4. SessionOK' /\ OpenOK'
    BY <1>1, <1>2 DEF SessionOK, OpenOK, sessionVars, openVars
  <1>5. CASE ~subOpen[p] /\ subAt' = [subAt EXCEPT ![p] = None] /\ UNCHANGED channels
    <2>1. subAt'[p] = None /\ \A q \in Peers : q # p => subAt'[q] = subAt[q]
      BY <1>1, <1>5 DEF SubOK
    <2>2. ChannelsOK' /\ SubOK'
      BY <1>1, <1>2, <1>5 DEF ChannelsOK, SubOK
    <2>3. SubAtHolds' /\ OpenAtHolds' /\ MakingAlone'
      BY <1>1, <1>2, <1>5, <2>1 DEF SubAtHolds, OpenAtHolds, MakingAlone, Making, Added,
             sessionVars, openVars
    <2>4. MakersHandle'
      BY <1>0, <1>1, <1>2, <1>5, <2>1 DEF MakersHandle, BeingAdded, Has, openVars
    <2>5. NobodyForgotten'
      BY <1>1, <1>2, <1>5, <2>1 DEF NobodyForgotten, AtWork, BeingAdded, Has, SessionOK,
             sessionVars, openVars
    <2>6. QED
      BY <1>4, <2>2, <2>3, <2>4, <2>5 DEF IInv, TypeOK
  <1>6. CASE channels' = CreateDataChannel(p, l) /\ subAt' = [subAt EXCEPT ![p].maker = "sfu"]
    <2> DEFINE at == [subAt[p] EXCEPT !.maker = "sfu"]
    <2>1. \A x \in [label : Labels, maker : {"making", "sfu", "client"}] :
             LET y == [x EXCEPT !.maker = "sfu"]
             IN  /\ y \in [label : Labels, maker : {"making", "sfu", "client"}]
                 /\ y.label = x.label /\ y.maker = "sfu"
      OBVIOUS
    <2>2. subAt[p] \in [label : Labels, maker : {"making", "sfu", "client"}]
      BY <1>1, <1>2 DEF SubOK
    <2>3. /\ at \in [label : Labels, maker : {"making", "sfu", "client"}]
          /\ at.label = l /\ at.maker = "sfu" /\ at # None
      BY <1>0, <2>1, <2>2, LabelAssumption DEF LabelAssumption
    <2>4. subAt' = [subAt EXCEPT ![p] = at]
      BY <1>6
    <2>5. /\ channels' \in [Peers -> [Labels -> Channel]]
          /\ channels'[p][l].maker = "sfu"
          /\ \A q \in Peers, k \in Labels : q # p \/ k # l => channels'[q][k] = channels[q][k]
      BY <1>1, <1>2, <1>6, CreatedChannel
    <2> HIDE DEF at
    <2>6. subAt'[p] = at /\ \A q \in Peers : q # p => subAt'[q] = subAt[q]
      BY <1>1, <2>4 DEF SubOK
    <2>7. ChannelsOK' /\ SubOK'
      BY <1>1, <1>2, <2>3, <2>4, <2>5 DEF ChannelsOK, SubOK
    <2>8. SubAtHolds'
      BY <1>1, <1>2, <2>3, <2>5, <2>6, AtTypes DEF SubAtHolds, Making, Added, sessionVars
    <2>9. OpenAtHolds'
      BY <1>1, <1>2, <1>3, <2>5, AtTypes, SMTT(40) DEF OpenAtHolds, Making, Added, openVars
    <2>10. MakingAlone'
      BY <1>1, <1>2, <1>3, <2>3, <2>6 DEF MakingAlone, Making, openVars
    <2>11. \A q \in Peers, k \in Labels : BeingAdded(q, k) => BeingAdded(q, k)'
      BY <1>0, <1>2, <2>3, <2>6 DEF BeingAdded, openVars
    <2>12. BeingAdded(p, l)'
      BY <2>3, <2>6 DEF BeingAdded
    <2>13. MakersHandle'
      BY <1>1, <1>2, <2>5, <2>11, <2>12 DEF MakersHandle, Has, openVars
    <2>14. NobodyForgotten'
      <3> SUFFICES ASSUME NEW q \in peers, NEW k \in fanOutDCs, subOpen[q]
                   PROVE  \/ Has(q, k)' /\ channels'[q][k].handler = "onMessage"
                          \/ AtWork(q, k)'
        BY <1>2 DEF NobodyForgotten, sessionVars
      <3>1. q \in Peers /\ k \in Labels
        BY <1>1 DEF SessionOK, FannedOut
      <3>2. CASE q = p /\ k = l
        BY <2>12, <3>2 DEF AtWork
      <3>3. CASE q # p \/ k # l
        BY <1>1, <1>2, <2>5, <2>11, <3>1, <3>3 DEF NobodyForgotten, AtWork, Has, sessionVars,
               openVars
      <3>4. QED
        BY <3>2, <3>3
    <2>15. QED
      BY <1>4, <2>7, <2>8, <2>9, <2>10, <2>13, <2>14 DEF IInv, TypeOK
  <1>7. QED
    BY <1>0, <1>5, <1>6 DEF SubscribeMakes

\* A client opens a channel: its own one is to be handled, all others are to get one.
LEMMA OpenChannelPreserves ==
  ASSUME IInv, NEW p \in Peers, NEW l \in Labels, OpenChannel(p, l)
  PROVE  IInv'
  <1>1. /\ SessionOK /\ ChannelsOK /\ SubOK /\ OpenOK
        /\ SubAtHolds /\ OpenAtHolds /\ MakingAlone /\ MakersHandle /\ NobodyForgotten
    BY DEF IInv, TypeOK
  <1> DEFINE own == [maker |-> "client", state |-> "open", handler |-> "none"]
  <1>2. own \in Channel /\ own.maker = "client"
    BY DEF Channel
  <1>3. channels' = [channels EXCEPT ![p] = [channels[p] EXCEPT ![l] = own]]
    BY DEF OpenChannel
  <1> HIDE DEF own
  <1>4. /\ channels' \in [Peers -> [Labels -> Channel]]
        /\ channels'[p][l].maker = "client"
        /\ \A q \in Peers, k \in Labels : q # p \/ k # l => channels'[q][k] = channels[q][k]
    BY <1>1, <1>2, <1>3 DEF ChannelsOK
  <1>5. /\ stage[p] = "in" /\ l \in FannedOut /\ opening[p][l] = "no"
        /\ fanOutDCs' = fanOutDCs \cup {l}
        /\ opening' = [opening EXCEPT ![p][l] = "opened"]
        /\ openTodo' = [openTodo EXCEPT ![p][l] = peers \ {p}]
        /\ UNCHANGED <<peers, stage, subOpen, subVars, openAt>>
    BY DEF OpenChannel
  <1>6. SessionOK' /\ ChannelsOK' /\ SubOK'
    BY <1>1, <1>4, <1>5 DEF SessionOK, ChannelsOK, SubOK, subVars
  <1>7. /\ opening' \in [Peers -> [Labels -> {"no", "opened", "adding", "panic"}]]
        /\ opening'[p][l] = "opened"
        /\ \A q \in Peers, k \in Labels : q # p \/ k # l => opening'[q][k] = opening[q][k]
    BY <1>1, <1>5 DEF OpenOK
  <1>8. /\ openTodo' \in [Peers -> [Labels -> SUBSET Peers]]
        /\ openTodo'[p][l] = peers \ {p}
        /\ \A q \in Peers, k \in Labels : q # p \/ k # l => openTodo'[q][k] = openTodo[q][k]
    BY <1>1, <1>5 DEF OpenOK, SessionOK
  <1>9. OpenOK'
    BY <1>1, <1>5, <1>7, <1>8 DEF OpenOK
  <1>10. SubAtHolds'
    BY <1>1, <1>4, <1>5, AtTypes DEF SubAtHolds, Making, Added, subVars
  <1>11. OpenAtHolds' /\ MakingAlone'
    BY <1>1, <1>4, <1>5, AtTypes, SMTT(40) DEF OpenAtHolds, MakingAlone, Making, Added, subVars
  <1>12. MakersHandle'
    BY <1>1, <1>4, <1>5, <1>7, SMTT(40) DEF MakersHandle, BeingAdded, Has, FannedOut, subVars
  <1>13. NobodyForgotten'
    <2> SUFFICES ASSUME NEW q \in peers, NEW k \in fanOutDCs \cup {l}, subOpen[q]
                 PROVE  \/ Has(q, k)' /\ channels'[q][k].handler = "onMessage"
                        \/ AtWork(q, k)'
      BY <1>5 DEF NobodyForgotten
    <2>1. q \in Peers /\ k \in Labels
      BY <1>1 DEF SessionOK, FannedOut
    <2>2. CASE k = l
      BY <1>7, <1>8, <2>1, <2>2 DEF AtWork
    <2>3. CASE k # l
      <3>1. (Has(q, k) /\ channels[q][k].handler = "onMessage") \/ AtWork(q, k)
        BY <1>1, <2>3 DEF NobodyForgotten
      <3>2. CASE Has(q, k) /\ channels[q][k].handler = "onMessage"
        BY <1>4, <2>1, <2>3, <3>2 DEF Has
      <3>3. CASE AtWork(q, k)
        BY <1>5, <1>7, <1>8, <2>1, <2>3, <3>3 DEF AtWork, BeingAdded, subVars
      <3>4. QED
        BY <3>1, <3>2, <3>3
    <2>4. QED
      BY <2>2, <2>3
  <1>14. QED
    BY <1>6, <1>9, <1>10, <1>11, <1>12, <1>13 DEF IInv, TypeOK

\* A channel that opens after its owner has left.
LEMMA OpenChannelPanicsPreserves ==
  ASSUME IInv, NEW p \in Peers, NEW l \in Labels, OpenChannelPanics(p, l)
  PROVE  IInv'
  <1>1. /\ SessionOK /\ ChannelsOK /\ SubOK /\ OpenOK
        /\ SubAtHolds /\ OpenAtHolds /\ MakingAlone /\ MakersHandle /\ NobodyForgotten
    BY DEF IInv, TypeOK
  <1>2. /\ opening[p][l] = "no" /\ opening' = [opening EXCEPT ![p][l] = "panic"]
        /\ UNCHANGED <<sessionVars, channels, subVars, openTodo, openAt>>
    BY DEF OpenChannelPanics
  <1>3. /\ opening' \in [Peers -> [Labels -> {"no", "opened", "adding", "panic"}]]
        /\ opening'[p][l] = "panic"
        /\ \A q \in Peers, k \in Labels : q # p \/ k # l => opening'[q][k] = opening[q][k]
    BY <1>1, <1>2 DEF OpenOK
  <1>4. SessionOK' /\ ChannelsOK' /\ SubOK' /\ OpenOK'
    BY <1>1, <1>2, <1>3 DEF SessionOK, ChannelsOK, SubOK, OpenOK, sessionVars, subVars
  <1>5. SubAtHolds' /\ OpenAtHolds'
    BY <1>1, <1>2 DEF SubAtHolds, OpenAtHolds, Making, Added, sessionVars, subVars
  <1>6. MakingAlone' /\ MakersHandle'
    BY <1>1, <1>2, <1>3 DEF MakingAlone, Making, MakersHandle, BeingAdded, Has, subVars
  <1>7. NobodyForgotten'
    BY <1>1, <1>2, <1>3 DEF NobodyForgotten, AtWork, BeingAdded, Has, SessionOK, FannedOut,
           sessionVars, subVars
  <1>8. QED
    BY <1>4, <1>5, <1>6, <1>7 DEF IInv, TypeOK

\* The messages of the client's own channel are handled.
LEMMA OpenHandlesPreserves ==
  ASSUME IInv, NEW p \in Peers, NEW l \in Labels, OpenHandles(p, l)
  PROVE  IInv'
  <1>1. /\ SessionOK /\ ChannelsOK /\ SubOK /\ OpenOK
        /\ SubAtHolds /\ OpenAtHolds /\ MakingAlone /\ MakersHandle /\ NobodyForgotten
    BY DEF IInv, TypeOK
  <1>2. /\ opening[p][l] = "opened" /\ opening' = [opening EXCEPT ![p][l] = "adding"]
        /\ UNCHANGED <<sessionVars, subVars, openTodo, openAt>>
    BY DEF OpenHandles
  <1>3. channels' = Handle(p, l, "client") /\ l # Default /\ channels[p][l].maker \in {"sfu", "client"}
    <2>1. channels[p][l].maker \in {"none", "sfu", "client"}
      BY <1>1 DEF ChannelsOK, Channel
    <2>2. QED
      BY <1>1, <1>2, <2>1 DEF OpenHandles, MakersHandle, Has
  <1>4. /\ channels' \in [Peers -> [Labels -> Channel]]
        /\ \A q \in Peers, k \in Labels :
              /\ channels'[q][k].maker = channels[q][k].maker
              /\ channels'[q][k].handler \in {channels[q][k].handler, "onMessage"}
        /\ channels[p][l].maker = "client" => channels'[p][l].handler = "onMessage"
    BY <1>1, <1>3, HandledChannel
  <1>5. /\ opening' \in [Peers -> [Labels -> {"no", "opened", "adding", "panic"}]]
        /\ opening'[p][l] = "adding"
        /\ \A q \in Peers, k \in Labels : q # p \/ k # l => opening'[q][k] = opening[q][k]
    BY <1>1, <1>2 DEF OpenOK
  <1>6. SessionOK' /\ ChannelsOK' /\ SubOK' /\ OpenOK'
    BY <1>1, <1>2, <1>4, <1>5 DEF SessionOK, ChannelsOK, SubOK, OpenOK, sessionVars, subVars
  <1>7. SubAtHolds'
    BY <1>1, <1>2, <1>4, AtTypes DEF SubAtHolds, Making, Added, sessionVars, subVars
  <1>8. OpenAtHolds' /\ MakingAlone'
    <2>1. OpenAtHolds'
      <3> SUFFICES ASSUME NEW q \in Peers, NEW k \in Labels, openAt[q][k] # None
                   PROVE  /\ k # Default
                          /\ Added(openAt[q][k]) =>
                                channels'[openAt[q][k].peer][k].maker \in {openAt[q][k].maker, "client"}
                          /\ Making(openAt[q][k]) => channels'[openAt[q][k].peer][k].maker # "sfu"
        BY <1>2 DEF OpenAtHolds, Making, Added
      <3>1. openAt[q][k].peer \in Peers
        BY <1>1, AtTypes
      <3>2. channels'[openAt[q][k].peer][k].maker = channels[openAt[q][k].peer][k].maker
        BY <1>4, <3>1
      <3>3. QED
        BY <1>1, <3>2 DEF OpenAtHolds, Making, Added
    <2>2. MakingAlone'
      BY <1>1, <1>2 DEF MakingAlone, Making, subVars
    <2>3. QED
      BY <2>1, <2>2
  <1>9. \A q \in Peers, k \in Labels : BeingAdded(q, k) => BeingAdded(q, k)'
    BY <1>2 DEF BeingAdded, subVars
  <1>10. MakersHandle'
    <2> SUFFICES ASSUME NEW q \in Peers, NEW k \in Labels
                 PROVE  /\ opening'[q][k] \in {"opened", "adding"} => k # Default /\ Has(q, k)'
                        /\ channels'[q][k].maker = "client" =>
                              opening'[q][k] = "opened" \/ channels'[q][k].handler = "onMessage"
                        /\ channels'[q][k].maker = "sfu" /\ k # Default =>
                              channels'[q][k].handler = "onMessage" \/ BeingAdded(q, k)'
      BY DEF MakersHandle
    <2>1. CASE q = p /\ k = l
      BY <1>1, <1>2, <1>3, <1>4, <1>9, <2>1 DEF MakersHandle, Has
    <2>2. CASE q # p \/ k # l
      BY <1>1, <1>4, <1>5, <1>9, <2>2, SMTT(40) DEF MakersHandle, Has
    <2>3. QED
      BY <2>1, <2>2
  <1>11. NobodyForgotten'
    <2> SUFFICES ASSUME NEW q \in peers, NEW k \in fanOutDCs, subOpen[q]
                 PROVE  \/ Has(q, k)' /\ channels'[q][k].handler = "onMessage"
                        \/ AtWork(q, k)'
      BY <1>2 DEF NobodyForgotten, sessionVars
    <2>1. q \in Peers /\ k \in Labels
      BY <1>1 DEF SessionOK, FannedOut
    <2>2. CASE Has(q, k) /\ channels[q][k].handler = "onMessage"
      BY <1>4, <2>1, <2>2 DEF Has
    <2>3. CASE AtWork(q, k)
      <3>1. CASE q = p /\ k = l
        <4>1. CASE channels[p][l].maker = "client"
          BY <1>4, <3>1, <4>1 DEF Has
        <4>2. CASE channels[p][l].maker = "sfu"
          BY <1>1, <1>3, <1>4, <1>9, <3>1, <4>2 DEF MakersHandle, AtWork, Has
        <4>3. QED
          BY <1>3, <4>1, <4>2
      <3>2. CASE q # p \/ k # l
        BY <1>2, <1>5, <1>9, <2>1, <2>3, <3>2 DEF AtWork, sessionVars, subVars
      <3>3. QED
        BY <3>1, <3>2
    <2>4. QED
      BY <1>1, <2>2, <2>3 DEF NobodyForgotten
  <1>12. QED
    BY <1>6, <1>7, <1>8, <1>10, <1>11 DEF IInv, TypeOK

\* AddDatachannel finds the channel of another peer, or is to make it.
LEMMA AddToPreserves ==
  ASSUME IInv, NEW p \in Peers, NEW l \in Labels, NEW r \in Peers, AddTo(p, l, r)
  PROVE  IInv'
  <1>1. /\ SessionOK /\ ChannelsOK /\ SubOK /\ OpenOK
        /\ SubAtHolds /\ OpenAtHolds /\ MakingAlone /\ MakersHandle /\ NobodyForgotten
    BY DEF IInv, TypeOK
  <1> DEFINE at == [peer |-> r, maker |-> AddDataChannel(r, l)]
  <1>2. /\ opening[p][l] = "adding" /\ openAt[p][l] = None /\ ~Locked(r)
        /\ openTodo' = [openTodo EXCEPT ![p][l] = @ \ {r}]
        /\ openAt' = [openAt EXCEPT ![p] = [openAt[p] EXCEPT ![l] = at]]
        /\ UNCHANGED <<sessionVars, channels, subVars, opening>>
    BY DEF AddTo
  <1>3. /\ at \in [peer : Peers, maker : {"making", "sfu", "client"}]
        /\ at.peer = r /\ at # None
        /\ at.maker = "making" => channels[r][l].maker = "none"
        /\ at.maker # "making" => at.maker = channels[r][l].maker
    BY <1>1, FoundChannel, LabelAssumption DEF LabelAssumption
  <1> HIDE DEF at
  <1>4. /\ openTodo' \in [Peers -> [Labels -> SUBSET Peers]]
        /\ \A q \in Peers, k \in Labels, o \in Peers :
              q \in openTodo[o][k] => q \in openTodo'[o][k] \/ (q = r /\ k = l /\ o = p)
    BY <1>1, <1>2 DEF OpenOK
  <1>5. /\ openAt'[p][l] = at
        /\ \A q \in Peers, k \in Labels : q # p \/ k # l => openAt'[q][k] = openAt[q][k]
    BY <1>1, <1>2 DEF OpenOK
  <1>6. SessionOK' /\ SubOK' /\ ChannelsOK'
    BY <1>1, <1>2 DEF SessionOK, SubOK, ChannelsOK, sessionVars, subVars
  <1>7. OpenOK'
    BY <1>1, <1>2, <1>3, <1>4 DEF OpenOK
  <1>8. SubAtHolds'
    BY <1>1, <1>2 DEF SubAtHolds, Making, Added, sessionVars, subVars
  <1>9. OpenAtHolds'
    <2> SUFFICES ASSUME NEW q \in Peers, NEW k \in Labels
                 PROVE  /\ openAt'[q][k] # None => k # Default
                        /\ Added(openAt'[q][k]) =>
                              channels[openAt'[q][k].peer][k].maker \in {openAt'[q][k].maker, "client"}
                        /\ Making(openAt'[q][k]) => channels[openAt'[q][k].peer][k].maker # "sfu"
      BY <1>2 DEF OpenAtHolds, Added, Making
    <2>1. CASE q = p /\ k = l
      BY <1>1, <1>2, <1>3, <1>5, <2>1 DEF MakersHandle, Added, Making
    <2>2. CASE q # p \/ k # l
      BY <1>1, <1>5, <2>2 DEF OpenAtHolds, Added, Making
    <2>3. QED
      BY <2>1, <2>2
  <1>10. MakingAlone'
    <2>1. /\ \A q \in Peers : openAt[q][l] # None /\ openAt[q][l].peer = r =>
                ~Making(openAt[q][l]) /\ at.maker # "making"
          /\ ~Making(subAt[r])
          /\ subAt[r] # None /\ subAt[r].label = l => at.maker # "making"
      BY <1>2, <1>3, UnlockedAdds DEF Has
    <2> SUFFICES ASSUME NEW o \in Peers, NEW q \in Peers, NEW k \in Labels
                 PROVE  /\ Making(openAt'[o][k]) /\ openAt'[q][k] # None =>
                              o = q \/ openAt'[o][k].peer # openAt'[q][k].peer
                        /\ subAt[o] # None /\ openAt'[q][k] # None /\ subAt[o].label = k /\ openAt'[q][k].peer = o
                              => ~Making(subAt[o]) /\ ~Making(openAt'[q][k])
      BY <1>2 DEF MakingAlone, Making, subVars
    <2>2. CASE q = p /\ k = l
      BY <1>3, <1>5, <2>1, <2>2 DEF Making
    <2>3. CASE o = p /\ k = l /\ q # p
      BY <1>1, <1>3, <1>5, <2>1, <2>3 DEF MakingAlone, Making
    <2>4. CASE (q # p /\ o # p) \/ k # l
      BY <1>1, <1>5, <2>4 DEF MakingAlone, Making
    <2>5. QED
      BY <2>2, <2>3, <2>4
  <1>11. \A q \in Peers, k \in Labels : BeingAdded(q, k) => BeingAdded(q, k)'
    BY <1>2, <1>5 DEF BeingAdded, subVars
  <1>12. BeingAdded(r, l)'
    BY <1>3, <1>5 DEF BeingAdded
  <1>13. MakersHandle'
    BY <1>1, <1>2, <1>11 DEF MakersHandle, Has
  <1>14. NobodyForgotten'
    <2> SUFFICES ASSUME NEW q \in peers, NEW k \in fanOutDCs, subOpen[q]
                 PROVE  \/ Has(q, k) /\ channels[q][k].handler = "onMessage"
                        \/ AtWork(q, k)'
      BY <1>2 DEF NobodyForgotten, Has, sessionVars
    <2>1. q \in Peers /\ k \in Labels
      BY <1>1 DEF SessionOK, FannedOut
    <2>2. CASE AtWork(q, k)
      <3>1. CASE q = r /\ k = l
        BY <1>12, <3>1 DEF AtWork
      <3>2. CASE q # r \/ k # l
        BY <1>2, <1>4, <1>11, <2>1, <2>2, <3>2 DEF AtWork, sessionVars, subVars
      <3>3. QED
        BY <3>1, <3>2
    <2>3. QED
      BY <1>1, <2>2 DEF NobodyForgotten
  <1>15. QED
    BY <1>6, <1>7, <1>8, <1>9, <1>10, <1>13, <1>14 DEF IInv, TypeOK

\* The channel of another peer is made, or its connection has failed.
LEMMA AddToMakesPreserves ==
  ASSUME IInv, NEW p \in Peers, NEW l \in Labels, AddToMakes(p, l)
  PROVE  IInv'
  <1>1. /\ SessionOK /\ ChannelsOK /\ SubOK /\ OpenOK
        /\ SubAtHolds /\ OpenAtHolds /\ MakingAlone /\ MakersHandle /\ NobodyForgotten
    BY DEF IInv, TypeOK
  <1>0. PICK r \in Peers : r = openAt[p][l].peer
    BY <1>1, AtTypes DEF AddToMakes, Making
  <1>2. /\ Making(openAt[p][l]) /\ openAt[p][l] # None
        /\ l # Default /\ channels[r][l].maker # "sfu"
        /\ UNCHANGED <<sessionVars, subVars, opening, openTodo>>
    BY <1>0, <1>1 DEF AddToMakes, OpenAtHolds, Making
  <1>3. /\ \A q \in Peers : q # p /\ openAt[q][l] # None => openAt[q][l].peer # r
        /\ subAt[r] # None => subAt[r].label # l
    BY <1>0, <1>1, <1>2 DEF MakingAlone
  <1>4. SessionOK' /\ SubOK'
    BY <1>1, <1>2 DEF SessionOK, SubOK, sessionVars, subVars
  <1>5. CASE ~subOpen[r] /\ openAt' = [openAt EXCEPT ![p][l] = None] /\ UNCHANGED channels
    <2>1. /\ openAt'[p][l] = None
          /\ \A q \in Peers, k \in Labels : q # p \/ k # l => openAt'[q][k] = openAt[q][k]
      BY <1>1, <1>5 DEF OpenOK
    <2>2. ChannelsOK' /\ OpenOK'
      BY <1>1, <1>2, <1>5, SMTT(40) DEF ChannelsOK, OpenOK
    <2>3. SubAtHolds' /\ OpenAtHolds'
      BY <1>1, <1>2, <1>5, <2>1 DEF SubAtHolds, OpenAtHolds, Making, Added, sessionVars, subVars
    <2>4. MakingAlone'
      BY <1>1, <1>2, <2>1 DEF MakingAlone, Making, subVars
    <2>5. \A q \in Peers, k \in Labels : (q # r \/ k # l) /\ BeingAdded(q, k) => BeingAdded(q, k)'
      BY <1>0, <1>2, <2>1 DEF BeingAdded, subVars
    <2>6. MakersHandle'
      BY <1>1, <1>2, <1>5, <2>5 DEF MakersHandle, Has
    <2>7. NobodyForgotten'
      <3> SUFFICES ASSUME NEW q \in peers, NEW k \in fanOutDCs, subOpen[q]
                   PROVE  \/ Has(q, k) /\ channels[q][k].handler = "onMessage"
                          \/ AtWork(q, k)'
        BY <1>2, <1>5 DEF NobodyForgotten, Has, sessionVars
      <3>1. q \in Peers /\ k \in Labels /\ q # r
        BY <1>1, <1>5 DEF SessionOK, FannedOut
      <3>2. AtWork(q, k) => AtWork(q, k)'
        BY <1>2, <2>5, <3>1 DEF AtWork, sessionVars, subVars
      <3>3. QED
        BY <1>1, <3>2 DEF NobodyForgotten
    <2>8. QED
      BY <1>4, <2>2, <2>3, <2>4, <2>6, <2>7 DEF IInv, TypeOK
  <1>6. CASE channels' = CreateDataChannel(r, l) /\ openAt' = [openAt EXCEPT ![p][l].maker = "sfu"]
    <2> DEFINE at == [openAt[p][l] EXCEPT !.maker = "sfu"]
    <2>1. \A x \in [peer : Peers, maker : {"making", "sfu", "client"}] :
             LET y == [x EXCEPT !.maker = "sfu"]
             IN  /\ y \in [peer : Peers, maker : {"making", "sfu", "client"}]
                 /\ y.peer = x.peer /\ y.maker = "sfu"
      OBVIOUS
    <2>2. openAt[p][l] \in [peer : Peers, maker : {"making", "sfu", "client"}]
      BY <1>1, <1>2 DEF OpenOK
    <2>3. /\ at \in [peer : Peers, maker : {"making", "sfu", "client"}]
          /\ at.peer = r /\ at.maker = "sfu" /\ at # None
      BY <1>0, <2>1, <2>2, LabelAssumption DEF LabelAssumption
    <2>4. openAt' = [openAt EXCEPT ![p] = [openAt[p] EXCEPT ![l] = at]]
      BY <1>6
    <2>5. /\ channels' \in [Peers -> [Labels -> Channel]]
          /\ channels'[r][l].maker = "sfu"
          /\ \A q \in Peers, k \in Labels : q # r \/ k # l => channels'[q][k] = channels[q][k]
      BY <1>1, <1>2, <1>6, CreatedChannel
    <2> HIDE DEF at
    <2>6. /\ openAt'[p][l] = at
          /\ \A q \in Peers, k \in Labels : q # p \/ k # l => openAt'[q][k] = openAt[q][k]
      BY <1>1, <2>4 DEF OpenOK
    <2>7. ChannelsOK' /\ OpenOK'
      BY <1>1, <1>2, <2>3, <2>4, <2>5 DEF ChannelsOK, OpenOK
    <2>8. SubAtHolds'
      BY <1>1, <1>2, <1>3, <2>5, AtTypes DEF SubAtHolds, Making, Added, sessionVars, subVars
    <2>9. OpenAtHolds'
      <3> SUFFICES ASSUME NEW q \in Peers, NEW k \in Labels
                   PROVE  /\ openAt'[q][k] # None => k # Default
                          /\ Added(openAt'[q][k]) =>
                                channels'[openAt'[q][k].peer][k].maker \in {openAt'[q][k].maker, "client"}
                          /\ Making(openAt'[q][k]) => channels'[openAt'[q][k].peer][k].maker # "sfu"
        BY DEF OpenAtHolds, Added, Making
      <3>1. CASE q = p /\ k = l
        BY <1>2, <2>3, <2>5, <2>6, <3>1 DEF Added, Making
      <3>2. CASE (q # p \/ k # l) /\ openAt[q][k] # None
        <4>1. openAt'[q][k] = openAt[q][k] /\ openAt[q][k].peer \in Peers
          BY <1>1, <2>6, <3>2, AtTypes
        <4>2. channels'[openAt[q][k].peer][k] = channels[openAt[q][k].peer][k]
          BY <1>3, <2>5, <3>2, <4>1
        <4>3. QED
          BY <1>1, <4>1, <4>2 DEF OpenAtHolds, Added, Making
      <3>3. QED
        BY <2>6, <3>1, <3>2 DEF Added, Making
    <2>10. MakingAlone'
      BY <1>0, <1>1, <1>2, <1>3, <2>3, <2>6 DEF MakingAlone, Making, subVars
    <2>11. \A q \in Peers, k \in Labels : BeingAdded(q, k) => BeingAdded(q, k)'
      BY <1>0, <1>2, <2>3, <2>6 DEF BeingAdded, subVars
    <2>12. BeingAdded(r, l)'
      BY <2>3, <2>6 DEF BeingAdded
    <2>13. MakersHandle'
      BY <1>1, <1>2, <2>5, <2>11, <2>12 DEF MakersHandle, Has
    <2>14. NobodyForgotten'
      <3> SUFFICES ASSUME NEW q \in peers, NEW k \in fanOutDCs, subOpen[q]
                   PROVE  \/ Has(q, k)' /\ channels'[q][k].handler = "onMessage"
                          \/ AtWork(q, k)'
        BY <1>2 DEF NobodyForgotten, sessionVars
      <3>1. q \in Peers /\ k \in Labels
        BY <1>1 DEF SessionOK, FannedOut
      <3>2. CASE q = r /\ k = l
        BY <2>12, <3>2 DEF AtWork
      <3>3. CASE q # r \/ k # l
        BY <1>1, <1>2, <2>5, <2>11, <3>1, <3>3 DEF NobodyForgotten, AtWork, Has, sessionVars,
               subVars
      <3>4. QED
        BY <3>2, <3>3
    <2>15. QED
      BY <1>4, <2>7, <2>8, <2>9, <2>10, <2>13, <2>14 DEF IInv, TypeOK
  <1>7. QED
    BY <1>0, <1>5, <1>6 DEF AddToMakes

\* The messages of the label are handled, and the peer is offered the channel.
LEMMA AddToHandlesPreserves ==
  ASSUME IInv, NEW p \in Peers, NEW l \in Labels, AddToHandles(p, l)
  PROVE  IInv'
  <1>1. /\ SessionOK /\ ChannelsOK /\ SubOK /\ OpenOK
        /\ SubAtHolds /\ OpenAtHolds /\ MakingAlone /\ MakersHandle /\ NobodyForgotten
    BY DEF IInv, TypeOK
  <1> DEFINE r == openAt[p][l].peer
             m == openAt[p][l].maker
             handled == Handle(r, l, m)
  <1>2. /\ openAt[p][l] # None /\ r \in Peers /\ m \in {"sfu", "client"}
        /\ channels[r][l].maker \in {m, "client"} /\ l # Default
    BY <1>1, AtTypes DEF AddToHandles, OpenAtHolds, Added
  <1>3. openAt' = [openAt EXCEPT ![p][l] = None] /\ UNCHANGED <<sessionVars, subVars, opening, openTodo>>
    BY DEF AddToHandles
  <1>4. channels' = Offer(handled, r)
    BY DEF AddToHandles
  <1> HIDE DEF r, m
  <1>5. /\ handled \in [Peers -> [Labels -> Channel]]
        /\ \A q \in Peers, k \in Labels :
              /\ handled[q][k].maker = channels[q][k].maker
              /\ handled[q][k].handler \in {channels[q][k].handler, "onMessage"}
        /\ channels[r][l].maker = m => handled[r][l].handler = "onMessage"
    BY <1>1, <1>2, HandledChannel
  <1> HIDE DEF handled
  <1>6. /\ channels' \in [Peers -> [Labels -> Channel]]
        /\ \A q \in Peers, k \in Labels :
              /\ channels'[q][k].maker = handled[q][k].maker
              /\ channels'[q][k].handler = handled[q][k].handler
    BY <1>2, <1>4, <1>5, OfferedChannel
  <1>7. /\ \A q \in Peers, k \in Labels :
              /\ channels'[q][k].maker = channels[q][k].maker
              /\ channels'[q][k].handler \in {channels[q][k].handler, "onMessage"}
        /\ channels[r][l].maker = m => channels'[r][l].handler = "onMessage"
    <2>1. ASSUME NEW q \in Peers, NEW k \in Labels
          PROVE  /\ channels'[q][k].maker = channels[q][k].maker
                 /\ channels'[q][k].handler \in {channels[q][k].handler, "onMessage"}
      BY <1>5, <1>6
    <2>2. channels'[r][l].handler = handled[r][l].handler
      BY <1>2, <1>6
    <2>3. QED
      BY <1>5, <2>1, <2>2
  <1>8. /\ openAt'[p][l] = None
        /\ \A q \in Peers, k \in Labels : q # p \/ k # l => openAt'[q][k] = openAt[q][k]
    BY <1>1, <1>3 DEF OpenOK
  <1>9. SessionOK' /\ ChannelsOK' /\ SubOK' /\ OpenOK'
    BY <1>1, <1>3, <1>6 DEF SessionOK, ChannelsOK, SubOK, OpenOK, sessionVars, subVars
  <1>10. SubAtHolds'
    BY <1>1, <1>3, <1>7, AtTypes DEF SubAtHolds, Making, Added, sessionVars, subVars
  <1>11. OpenAtHolds' /\ MakingAlone'
    <2>1. OpenAtHolds'
      <3> SUFFICES ASSUME NEW q \in Peers, NEW k \in Labels, openAt'[q][k] # None
                   PROVE  /\ k # Default
                          /\ Added(openAt'[q][k]) =>
                                channels'[openAt'[q][k].peer][k].maker \in {openAt'[q][k].maker, "client"}
                          /\ Making(openAt'[q][k]) => channels'[openAt'[q][k].peer][k].maker # "sfu"
        BY DEF OpenAtHolds, Making, Added
      <3>1. openAt'[q][k] = openAt[q][k] /\ openAt[q][k].peer \in Peers
        BY <1>1, <1>8, AtTypes
      <3>2. channels'[openAt[q][k].peer][k].maker = channels[openAt[q][k].peer][k].maker
        BY <1>7, <3>1
      <3>3. QED
        BY <1>1, <3>1, <3>2 DEF OpenAtHolds, Making, Added
    <2>2. MakingAlone'
      BY <1>1, <1>3, <1>8 DEF MakingAlone, Making, subVars
    <2>3. QED
      BY <2>1, <2>2
  <1>12. \A q \in Peers, k \in Labels : (q # r \/ k # l) /\ BeingAdded(q, k) => BeingAdded(q, k)'
    BY <1>3, <1>8 DEF BeingAdded, r, subVars
  <1>13. MakersHandle'
    <2> SUFFICES ASSUME NEW q \in Peers, NEW k \in Labels
                 PROVE  /\ opening'[q][k] \in {"opened", "adding"} => k # Default /\ Has(q, k)'
                        /\ channels'[q][k].maker = "client" =>
                              opening'[q][k] = "opened" \/ channels'[q][k].handler = "onMessage"
                        /\ channels'[q][k].maker = "sfu" /\ k # Default =>
                              channels'[q][k].handler = "onMessage" \/ BeingAdded(q, k)'
      BY DEF MakersHandle
    <2>1. CASE q = r /\ k = l
      BY <1>1, <1>2, <1>3, <1>7, <2>1 DEF MakersHandle, Has
    <2>2. CASE q # r \/ k # l
      BY <1>1, <1>3, <1>7, <1>12, <2>2 DEF MakersHandle, Has
    <2>3. QED
      BY <2>1, <2>2
  <1>14. NobodyForgotten'
    <2> SUFFICES ASSUME NEW q \in peers, NEW k \in fanOutDCs, subOpen[q]
                 PROVE  \/ Has(q, k)' /\ channels'[q][k].handler = "onMessage"
                        \/ AtWork(q, k)'
      BY <1>3 DEF NobodyForgotten, sessionVars
    <2>1. q \in Peers /\ k \in Labels
      BY <1>1 DEF SessionOK, FannedOut
    <2>2. CASE Has(q, k) /\ channels[q][k].handler = "onMessage"
      BY <1>7, <2>1, <2>2 DEF Has
    <2>3. CASE AtWork(q, k)
      <3>1. CASE q = r /\ k = l
        <4>1. CASE channels[r][l].maker = m
          BY <1>2, <1>7, <3>1, <4>1 DEF Has
        <4>2. CASE channels[r][l].maker = "client"
          BY <1>1, <1>2, <1>3, <1>7, <3>1, <4>2 DEF MakersHandle, AtWork, Has
        <4>3. QED
          BY <1>2, <4>1, <4>2
      <3>2. CASE q # r \/ k # l
        BY <1>3, <1>12, <2>1, <2>3, <3>2 DEF AtWork, sessionVars, subVars
      <3>3. QED
        BY <3>1, <3>2
    <2>4. QED
      BY <1>1, <2>2, <2>3 DEF NobodyForgotten
  <1>15. QED
    BY <1>9, <1>10, <1>11, <1>13, <1>14 DEF IInv, TypeOK

\* The client has answered an offer, or closes a channel.
LEMMA ChannelStatePreserves ==
  ASSUME IInv, NEW p \in Peers, NEW l \in Labels, ChannelOpens(p, l) \/ ChannelCloses(p, l)
  PROVE  IInv'
  <1>1. /\ SessionOK /\ ChannelsOK /\ SubOK /\ OpenOK
        /\ SubAtHolds /\ OpenAtHolds /\ MakingAlone /\ MakersHandle /\ NobodyForgotten
    BY DEF IInv, TypeOK
  <1> DEFINE InState(c, st) == [c EXCEPT !.state = st]
  <1>2. \A c \in Channel, st \in {"open", "closed"} :
           InState(c, st) \in Channel /\ InState(c, st).maker = c.maker /\ InState(c, st).handler = c.handler
    BY DEF Channel
  <1>3. PICK st \in {"open", "closed"} : channels' = [channels EXCEPT ![p][l].state = st]
    BY DEF ChannelOpens, ChannelCloses
  <1>4. channels' = [channels EXCEPT ![p] = [channels[p] EXCEPT ![l] = InState(channels[p][l], st)]]
    BY <1>3
  <1>5. UNCHANGED <<sessionVars, subVars, openVars>>
    BY DEF ChannelOpens, ChannelCloses
  <1> HIDE DEF InState
  <1>6. /\ channels' \in [Peers -> [Labels -> Channel]]
        /\ \A q \in Peers, k \in Labels :
              /\ channels'[q][k].maker = channels[q][k].maker
              /\ channels'[q][k].handler = channels[q][k].handler
    BY <1>1, <1>2, <1>3, <1>4 DEF ChannelsOK
  <1>7. SessionOK' /\ ChannelsOK' /\ SubOK' /\ OpenOK'
    BY <1>1, <1>5, <1>6 DEF SessionOK, ChannelsOK, SubOK, OpenOK, sessionVars, subVars, openVars
  <1>8. SubAtHolds'
    BY <1>1, <1>5, <1>6, AtTypes DEF SubAtHolds, Making, Added, sessionVars, subVars
  <1>9. OpenAtHolds' /\ MakingAlone' /\ MakersHandle'
    BY <1>1, <1>5, <1>6, MakersKept DEF subVars, openVars
  <1>10. NobodyForgotten'
    <2> SUFFICES ASSUME NEW q \in peers, NEW k \in fanOutDCs, subOpen[q]
                 PROVE  \/ Has(q, k)' /\ channels'[q][k].handler = "onMessage"
                        \/ AtWork(q, k)'
      BY <1>5 DEF NobodyForgotten, sessionVars
    <2>1. q \in Peers /\ k \in Labels
      BY <1>1 DEF SessionOK, FannedOut
    <2>2. CASE Has(q, k) /\ channels[q][k].handler = "onMessage"
      BY <1>6, <2>1, <2>2 DEF Has
    <2>3. CASE AtWork(q, k)
      BY <1>5, <2>3 DEF AtWork, BeingAdded, sessionVars, subVars, openVars
    <2>4. QED
      BY <1>1, <2>2, <2>3 DEF NobodyForgotten
  <1>11. QED
    BY <1>7, <1>8, <1>9, <1>10 DEF IInv, TypeOK

\* Leaving, closing and failing take nothing from those who stay.
LEMMA EndPreserves ==
  ASSUME IInv, NEW p \in Peers, RemovePeer(p) \/ ClosePeer(p) \/ SubscriberFails(p)
  PROVE  IInv'
  <1>1. /\ SessionOK /\ ChannelsOK /\ SubOK /\ OpenOK
        /\ SubAtHolds /\ OpenAtHolds /\ MakingAlone /\ MakersHandle /\ NobodyForgotten
    BY DEF IInv, TypeOK
  <1>2. UNCHANGED <<fanOutDCs, channels, subVars, openVars>>
    BY DEF RemovePeer, ClosePeer, SubscriberFails
  <1>3. SessionOK' /\ ChannelsOK' /\ SubOK' /\ OpenOK'
    BY <1>1, <1>2 DEF RemovePeer, ClosePeer, SubscriberFails, SessionOK, ChannelsOK, SubOK,
           OpenOK, subVars, openVars
  <1>4. SubAtHolds'
    BY <1>1, <1>2 DEF RemovePeer, ClosePeer, SubscriberFails, SubAtHolds, Making, Added,
           SessionOK, subVars
  <1>5. OpenAtHolds' /\ MakingAlone' /\ MakersHandle'
    BY <1>1, <1>2, MakersKept DEF subVars, openVars
  <1>6. NobodyForgotten'
    BY <1>1, <1>2 DEF RemovePeer, ClosePeer, SubscriberFails, NobodyForgotten, AtWork,
           BeingAdded, Has, SessionOK, subVars, openVars
  <1>7. QED
    BY <1>3, <1>4, <1>5, <1>6 DEF IInv, TypeOK

\* The inductive invariant holds in every state of the session.
THEOREM Invariance == Spec => []IInv
  <1>1. Init => IInv
    BY InitIInv
  <1>2. IInv /\ [Next]_vars => IInv'
    <2> SUFFICES ASSUME IInv, [Next]_vars
                 PROVE  IInv'
      OBVIOUS
    <2>1. ASSUME NEW p \in Peers, NewPeer(p) \/ JoinStep(p) \/ RemovePeer(p) \/ ClosePeer(p) \/ SubscriberFails(p)
          PROVE  IInv'
      BY <2>1, NewPeerPreserves, AddPeerPreserves, SubscribePreserves, SubscribeToPreserves,
         SubscribeMakesPreserves, SubscribeHandlesPreserves, SubscribeDonePreserves,
                EndPreserves DEF JoinStep
    <2>2. ASSUME NEW p \in Peers, NEW l \in Labels,
                 \/ OpenChannel(p, l) \/ OpenChannelPanics(p, l) \/ OpenStep(p, l)
                 \/ ChannelOpens(p, l) \/ ChannelCloses(p, l)
          PROVE  IInv'
      BY <2>2, OpenChannelPreserves, OpenChannelPanicsPreserves, OpenHandlesPreserves,
         AddToPreserves, AddToMakesPreserves, AddToHandlesPreserves,
                ChannelStatePreserves DEF OpenStep
    <2>3. CASE UNCHANGED vars
      BY <2>3 DEF IInv, TypeOK, SessionOK, ChannelsOK, SubOK, OpenOK, SubAtHolds, OpenAtHolds,
                  MakingAlone, Making, Added, MakersHandle, BeingAdded, NobodyForgotten, AtWork, Has,
                  vars, sessionVars, subVars, openVars
    <2>4. QED
      BY <2>1, <2>2, <2>3 DEF Next
  <1>3. QED
    BY <1>1, <1>2, PTL DEF Spec

\* All variables keep their types, and the session's map holds just the peers
\* between AddPeer and RemovePeer.
THEOREM TypeCorrect == Spec => []TypeOK
  <1>1. IInv => TypeOK
    BY DEF IInv
  <1>2. QED
    BY <1>1, Invariance, PTL

\* Session.AddDatachannel and Session.Subscribe together forget nobody: a label
\* that somebody opened is there for every peer of the session whose connection
\* has not failed, with its messages handled, or somebody is about to see to it.
THEOREM LabelsReachEverybody == Spec => []NobodyForgotten
  <1>1. IInv => NobodyForgotten
    BY DEF IInv
  <1>2. QED
    BY <1>1, Invariance, PTL

=============================================================================
