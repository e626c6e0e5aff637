------------------------- MODULE SubscriptionProofs -------------------------
(***************************************************************************)
(* Invariance theorems about module Subscription, for any set of peers and *)
(* tracks: in particular that a join racing a publication never leaves a   *)
(* peer without the track, and never gives it the track twice.             *)
(***************************************************************************)
EXTENDS Subscription, TLAPS

\* A session without peers satisfies the inductive invariant.
LEMMA InitIInv == Init => IInv
  <1> SUFFICES ASSUME Init
               PROVE  IInv
    OBVIOUS
  <1> USE OwnerAssumption DEF OwnerAssumption, Init, Nobody, Unlocked
  <1>1. TypeOK
    BY DEF TypeOK, Stages, UpStates, Calls
  <1>2. AtMostOneDownTrack /\ ListsAgree
    BY DEF AtMostOneDownTrack, ListsAgree, InHand
  <1>3. NobodyForgotten
    BY DEF NobodyForgotten, Wanted
  <1>4. SupportingInv
    <2>1. \A p \in Peers :
            /\ call[p].by = "nobody" /\ call[p].todo = {} /\ call[p].given = {}
            /\ \A t \in call[p].todo \cup call[p].given : Owner[t] = p /\ call[p].sub # p
            /\ \A t, u \in call[p].given : t = u
      OBVIOUS
    <2>2. \A s \in Peers, t \in Tracks : ~InHand(s, t)
      BY <2>1 DEF InHand
    <2>3. \A s \in Peers, t \in Tracks : tracks[s][t] = 0 /\ downTracks[t][s] = 0
      OBVIOUS
    <2>4. \A s \in Peers, t \in Tracks :
             tracks[s][t] = downTracks[t][s] + IF InHand(s, t) THEN 1 ELSE 0
      BY <2>2, <2>3
    <2>5. /\ \A t \in Tracks : up[t] = "none" /\ pubTodo[t] = {}
          /\ \A s \in Peers : joinTodo[s] = {}
      OBVIOUS
    <2> HIDE DEF Init
    <2>6. QED
      BY <2>1, <2>4, <2>5 DEF SupportingInv
  <1>5. QED
    BY <1>1, <1>2, <1>3, <1>4 DEF IInv

\* A wanted track that is neither served nor on its way has no DownTrack at all.
LEMMA UnservedHasNone ==
  ASSUME IInv, NEW s \in Peers, NEW t \in Tracks, Wanted(s, t), ~Served(s, t), ~InHand(s, t)
  PROVE  tracks[s][t] = 0
  <1>1. tracks[s][t] \in Nat /\ downTracks[t][s] \in Nat
    BY DEF IInv, TypeOK
  <1>2. tracks[s][t] <= 1
    BY DEF IInv, AtMostOneDownTrack, Wanted
  <1>3. tracks[s][t] = downTracks[t][s]
    BY <1>1 DEF IInv, ListsAgree, Wanted
  <1>4. QED
    BY <1>1, <1>2, <1>3 DEF Served

\* What a call of AddDownTracks consists of.
LEMMA CallHas ==
  ASSUME TypeOK, NEW p \in Peers
  PROVE  /\ call[p] \in Calls /\ call[p].sub \in Peers
         /\ call[p].todo \subseteq Tracks /\ call[p].given \subseteq Tracks
  BY DEF TypeOK, Calls

-----------------------------------------------------------------------------
\* The steps of Peer.Join that add no down track.
LEMMA JoinStepPreserves ==
  ASSUME IInv, NEW p \in Peers, AddPeer(p) \/ Subscribe(p) \/ SubscribeDone(p)
  PROVE  IInv'
  <1> USE OwnerAssumption
      DEF OwnerAssumption, IInv, Stages, trackVars, downVars, pcVars, InHand, ToBeAdded
  <1>1. CASE AddPeer(p)
    <2> USE <1>1 DEF AddPeer
    <2>1. TypeOK'
      BY DEF TypeOK
    <2>2. AtMostOneDownTrack' /\ ListsAgree'
      BY DEF AtMostOneDownTrack, ListsAgree
    <2>3. SupportingInv'
      BY DEF SupportingInv, TypeOK
    <2>4. NobodyForgotten'
      BY DEF NobodyForgotten, Wanted, Served, SupportingInv, TypeOK
    <2>5. QED
      BY <2>1, <2>2, <2>3, <2>4
  <1>2. CASE Subscribe(p)
    <2> USE <1>2 DEF Subscribe
    <2>1. TypeOK'
      BY DEF TypeOK
    <2>2. AtMostOneDownTrack' /\ ListsAgree'
      BY DEF AtMostOneDownTrack, ListsAgree
    <2>3. SupportingInv'
      BY DEF SupportingInv, TypeOK
    <2>4. NobodyForgotten'
      BY DEF NobodyForgotten, Wanted, Served, TypeOK
    <2>5. QED
      BY <2>1, <2>2, <2>3, <2>4
  <1>3. CASE SubscribeDone(p)
    <2> USE <1>3 DEF SubscribeDone
    <2>1. TypeOK'
      BY DEF TypeOK
    <2>2. AtMostOneDownTrack' /\ ListsAgree'
      BY DEF AtMostOneDownTrack, ListsAgree
    <2>3. SupportingInv'
      BY DEF SupportingInv, TypeOK
    <2>4. NobodyForgotten'
      BY DEF NobodyForgotten, Wanted, Served, TypeOK
    <2>5. QED
      BY <2>1, <2>2, <2>3, <2>4
  <1>4. QED
    BY <1>1, <1>2, <1>3

\* A DownTrack that is no longer on its way.
LEMMA CallWithout ==
  ASSUME NEW c \in Calls, NEW d, d = [c EXCEPT !.given = {}]
  PROVE  d \in Calls /\ d.by = c.by /\ d.sub = c.sub /\ d.todo = c.todo /\ d.given = {}
  BY DEF Calls

\* A lock of a router that is taken.
LEMMA LockIs ==
  ASSUME TypeOK, NEW p \in Peers, NEW s \in Peers, NEW by \in {"Subscribe", "Publish"},
         NEW ts \in SUBSET Tracks, Lock(p, by, s, ts)
  PROVE  /\ call' \in [Peers -> Calls]
         /\ call'[p].sub = s /\ call'[p].todo = ts /\ call'[p].given = {}
         /\ \A q \in Peers : q # p => call'[q] = call[q]
  BY DEF TypeOK, Calls, Lock

\* A router whose lock is free is adding nothing.
LEMMA FreeIsIdle ==
  ASSUME IInv, NEW p \in Peers, call[p].by = "nobody"
  PROVE  call[p].todo = {} /\ call[p].given = {}
  BY DEF IInv, SupportingInv

\* A call that begins for a subscriber who is not the owner of the router.
LEMMA LockKeeps ==
  ASSUME IInv, NEW p \in Peers, NEW s \in Peers, NEW by \in {"Subscribe", "Publish"},
         NEW ts \in SUBSET Tracks, Lock(p, by, s, ts),
         s # p, \A t \in ts : Owner[t] = p
  PROVE  /\ \A q \in Peers, t \in Tracks :
              /\ InHand(q, t)' <=> InHand(q, t)
              /\ ToBeAdded(q, t) => ToBeAdded(q, t)'
              /\ q = s /\ t \in ts => ToBeAdded(q, t)'
         /\ \A q \in Peers : \A t \in call'[q].todo \cup call'[q].given :
              Owner[t] = q /\ call'[q].sub # q
         /\ \A q \in Peers : call'[q].by = "nobody" => call'[q].todo = {} /\ call'[q].given = {}
         /\ \A q \in Peers : \A t, u \in call'[q].given : t = u
  <1>1. /\ call'[p].sub = s /\ call'[p].todo = ts /\ call'[p].given = {}
        /\ \A q \in Peers : q # p => call'[q] = call[q]
    BY LockIs DEF IInv
  <1>2. call[p].todo = {} /\ call[p].given = {} /\ call'[p].by # "nobody"
    BY FreeIsIdle DEF Lock, IInv, TypeOK
  <1>3. \A t \in Tracks : Owner[t] \in Peers
    BY OwnerAssumption DEF OwnerAssumption
  <1>4. QED
    BY <1>1, <1>2, <1>3 DEF InHand, ToBeAdded, IInv, SupportingInv

\* A joining peer at the router of another one.
LEMMA SubscribeToPreserves ==
  ASSUME IInv, NEW s \in Peers, NEW p \in Peers, SubscribeTo(s, p)
  PROVE  IInv'
  <1> DEFINE ts == {t \in receivers : Owner[t] = p}
  <1>1. ts \in SUBSET Tracks /\ \A t \in ts : Owner[t] = p
    BY DEF IInv, TypeOK
  <1>2. \A t \in receivers : Owner[t] = p => t \in ts
    OBVIOUS
  <1>3. Lock(p, "Subscribe", s, ts) /\ s # p
    BY DEF SubscribeTo, IInv, SupportingInv
  <1> HIDE DEF ts
  <1>4. call' \in [Peers -> Calls]
    BY <1>1, <1>3, LockIs DEF IInv
  <1>5. /\ \A q \in Peers, t \in Tracks :
             /\ InHand(q, t)' <=> InHand(q, t)
             /\ ToBeAdded(q, t) => ToBeAdded(q, t)'
             /\ q = s /\ t \in ts => ToBeAdded(q, t)'
        /\ \A q \in Peers : \A t \in call'[q].todo \cup call'[q].given :
             Owner[t] = q /\ call'[q].sub # q
        /\ \A q \in Peers : call'[q].by = "nobody" => call'[q].todo = {} /\ call'[q].given = {}
        /\ \A q \in Peers : \A t, v \in call'[q].given : t = v
    BY <1>1, <1>3, LockKeeps
  <1>6. /\ UNCHANGED <<peers, stage, trackVars, downVars, pcVars>>
        /\ joinTodo' = [joinTodo EXCEPT ![s] = @ \ {p}]
    BY DEF SubscribeTo
  <1> USE OwnerAssumption DEF OwnerAssumption, IInv, trackVars, downVars, pcVars
  <1>7. TypeOK' /\ AtMostOneDownTrack'
    BY <1>4, <1>6 DEF TypeOK, AtMostOneDownTrack
  <1>8. SupportingInv'
    BY <1>5, <1>6 DEF SupportingInv, TypeOK
  <1>9. NobodyForgotten'
    <2> SUFFICES ASSUME NEW q \in Peers, NEW t \in Tracks, Wanted(q, t)', ~Served(q, t)'
                 PROVE  \/ publishing[t] = "added" \/ q \in pubTodo[t]
                        \/ stage[q] = "added" \/ Owner[t] \in joinTodo'[q] \/ ToBeAdded(q, t)'
      BY <1>6 DEF NobodyForgotten
    <2>1. Wanted(q, t) /\ ~Served(q, t)
      BY <1>6 DEF Wanted, Served
    <2>2. CASE q = s /\ Owner[t] = p
      <3>1. t \in ts
        BY <1>2, <2>1, <2>2 DEF Wanted, SupportingInv
      <3>2. QED
        BY <1>5, <2>2, <3>1
    <2>3. CASE ~(q = s /\ Owner[t] = p)
      BY <1>5, <1>6, <2>1, <2>3 DEF NobodyForgotten, TypeOK
    <2>4. QED
      BY <2>2, <2>3
  <1>10. ListsAgree'
    BY <1>8 DEF SupportingInv, ListsAgree
  <1>11. QED
    BY <1>7, <1>8, <1>9, <1>10

-----------------------------------------------------------------------------
\* A track arrives and its publication begins.
LEMMA PublicationPreserves ==
  ASSUME IInv, NEW t \in Tracks, AddReceiver(t) \/ Publish(t)
  PROVE  IInv'
  <1> USE OwnerAssumption
      DEF OwnerAssumption, IInv, UpStates, sessionVars, downVars, pcVars, InHand, ToBeAdded
  <1>1. CASE AddReceiver(t)
    <2> USE <1>1 DEF AddReceiver
    <2>1. TypeOK'
      BY DEF TypeOK
    <2>2. SupportingInv' /\ AtMostOneDownTrack' /\ ListsAgree'
      BY DEF AtMostOneDownTrack, ListsAgree, SupportingInv, TypeOK
    <2>3. NobodyForgotten'
      BY DEF NobodyForgotten, Wanted, Served, TypeOK
    <2>4. QED
      BY <2>1, <2>2, <2>3
  <1>2. CASE Publish(t)
    <2> USE <1>2 DEF Publish
    <2>1. TypeOK'
      BY DEF TypeOK
    <2>2. SupportingInv' /\ AtMostOneDownTrack' /\ ListsAgree'
      BY DEF AtMostOneDownTrack, ListsAgree, SupportingInv
    <2>3. NobodyForgotten'
      BY DEF NobodyForgotten, Wanted, Served, TypeOK
    <2>4. QED
      BY <2>1, <2>2, <2>3
  <1>3. QED
    BY <1>1, <1>2

\* A track at one of the peers it is published to.
LEMMA PublishToPreserves ==
  ASSUME IInv, NEW u \in Tracks, NEW s \in Peers, PublishTo(u, s)
  PROVE  IInv'
  <1>0. PICK p \in Peers : p = Owner[u]
    BY OwnerAssumption DEF OwnerAssumption
  <1>1. {u} \in SUBSET Tracks /\ \A t \in {u} : Owner[t] = p
    BY <1>0
  <1>2. Lock(p, "Publish", s, {u}) /\ s # p
    BY <1>0 DEF PublishTo, IInv, SupportingInv
  <1>3. call' \in [Peers -> Calls]
    BY <1>1, <1>2, LockIs DEF IInv
  <1>4. /\ \A q \in Peers, t \in Tracks :
             /\ InHand(q, t)' <=> InHand(q, t)
             /\ ToBeAdded(q, t) => ToBeAdded(q, t)'
             /\ q = s /\ t \in {u} => ToBeAdded(q, t)'
        /\ \A q \in Peers : \A t \in call'[q].todo \cup call'[q].given :
             Owner[t] = q /\ call'[q].sub # q
        /\ \A q \in Peers : call'[q].by = "nobody" => call'[q].todo = {} /\ call'[q].given = {}
        /\ \A q \in Peers : \A t, v \in call'[q].given : t = v
    BY <1>1, <1>2, LockKeeps
  <1>5. /\ UNCHANGED <<sessionVars, receivers, up, publishing, closing, downVars, pcVars>>
        /\ pubTodo' = [pubTodo EXCEPT ![u] = @ \ {s}]
    BY DEF PublishTo
  <1> USE OwnerAssumption DEF OwnerAssumption, IInv, sessionVars, downVars, pcVars
  <1>6. TypeOK' /\ AtMostOneDownTrack'
    BY <1>3, <1>5 DEF TypeOK, AtMostOneDownTrack
  <1>7. SupportingInv'
    BY <1>4, <1>5 DEF SupportingInv, TypeOK
  <1>8. NobodyForgotten'
    <2> SUFFICES ASSUME NEW q \in Peers, NEW t \in Tracks, Wanted(q, t)', ~Served(q, t)'
                 PROVE  \/ publishing[t] = "added" \/ q \in pubTodo'[t]
                        \/ stage[q] = "added" \/ Owner[t] \in joinTodo[q] \/ ToBeAdded(q, t)'
      BY <1>5 DEF NobodyForgotten
    <2>1. Wanted(q, t) /\ ~Served(q, t)
      BY <1>5 DEF Wanted, Served
    <2>2. CASE q = s /\ t = u
      BY <1>4, <2>2
    <2>3. CASE ~(q = s /\ t = u)
      BY <1>4, <1>5, <2>1, <2>3 DEF NobodyForgotten, TypeOK
    <2>4. QED
      BY <2>2, <2>3
  <1>9. ListsAgree'
    BY <1>7 DEF SupportingInv, ListsAgree
  <1>10. QED
    BY <1>6, <1>7, <1>8, <1>9

-----------------------------------------------------------------------------
(* The steps of AddDownTracks.                                             *)

\* The subscriber gets a DownTrack if it has none; then it is on its way to the
\* Receiver.  If it has one, the Receiver feeds it already.
LEMMA AddDownTrackPreserves ==
  ASSUME IInv, NEW p \in Peers, NEW u \in Tracks, AddDownTrack(p, u)
  PROVE  IInv'
  <1>1. PICK s \in Peers : s = call[p].sub
    BY CallHas DEF IInv
  <1>2. u \in call[p].todo /\ call[p].given = {} /\ Owner[u] = p /\ s # p
    BY <1>1 DEF AddDownTrack, IInv, SupportingInv
  <1>3. UNCHANGED <<sessionVars, trackVars, downTracks, pcVars>>
    BY DEF AddDownTrack
  <1>4. /\ call' \in [Peers -> Calls]
        /\ \A q \in Peers : /\ call'[q].by = call[q].by /\ call'[q].sub = call[q].sub
                            /\ q # p => call'[q] = call[q]
        /\ call'[p].todo = IF tracks[s][u] = 0 /\ ~subOpen[s] THEN {} ELSE call[p].todo \ {u}
        /\ call'[p].given = IF subOpen[s] /\ tracks[s][u] = 0 THEN {u} ELSE {}
    <2>1. PICK todo \in SUBSET Tracks, given \in SUBSET Tracks :
            /\ todo = IF tracks[s][u] = 0 /\ ~subOpen[s] THEN {} ELSE call[p].todo \ {u}
            /\ given = IF subOpen[s] /\ tracks[s][u] = 0 THEN {u} ELSE {}
      BY CallHas DEF IInv
    <2>2. PICK c : c = [by |-> call[p].by, sub |-> s, todo |-> todo, given |-> given]
      OBVIOUS
    <2>3. /\ c \in Calls /\ c.by = call[p].by /\ c.sub = call[p].sub
          /\ c.todo = todo /\ c.given = given
      BY <1>1, <2>2, CallHas DEF Calls, IInv
    <2>4. call' = [call EXCEPT ![p] = c]
      BY <1>1, <2>1, <2>2 DEF AddDownTrack, Missing
    <2>5. call \in [Peers -> Calls]
      BY DEF IInv, TypeOK
    <2>6. QED
      BY <2>1, <2>2, <2>3, <2>4, <2>5
  <1>5. /\ tracks' \in [Peers -> [Tracks -> Nat]]
        /\ \A q \in Peers, t \in Tracks :
             tracks'[q][t] = IF q = s /\ t = u /\ subOpen[s] /\ tracks[s][u] = 0
                             THEN 1 ELSE tracks[q][t]
    BY <1>1 DEF IInv, TypeOK, AddDownTrack, Missing
  <1> USE OwnerAssumption DEF OwnerAssumption, sessionVars, trackVars, pcVars
  <1>6. \A q \in Peers, t \in Tracks :
          InHand(q, t)' <=> \/ InHand(q, t)
                            \/ q = s /\ t = u /\ subOpen[s] /\ tracks[s][u] = 0
    BY <1>1, <1>2, <1>4 DEF InHand, IInv, SupportingInv
  <1>7. TypeOK'
    BY <1>3, <1>4, <1>5 DEF IInv, TypeOK
  <1>8. AtMostOneDownTrack'
    <2>1. \A q \in Peers, t \in Tracks : tracks[q][t] <= IF q = Owner[t] THEN 0 ELSE 1
      BY DEF IInv, AtMostOneDownTrack
    <2>2. \A q \in Peers, t \in Tracks : tracks'[q][t] <= IF q = Owner[t] THEN 0 ELSE 1
      BY <1>2, <1>5, <2>1
    <2>3. QED
      BY <2>2 DEF AtMostOneDownTrack
  <1>9. ~InHand(s, u) /\ tracks[s][u] \in Nat /\ downTracks[u][s] \in Nat
    BY <1>2 DEF InHand, IInv, TypeOK
  <1>10. SupportingInv'
    <2>1. \A q \in Peers : \A t \in call'[q].todo \cup call'[q].given :
            Owner[t] = q /\ call'[q].sub # q
      BY <1>1, <1>2, <1>4 DEF IInv, SupportingInv
    <2>2. \A q \in Peers : /\ call'[q].by = "nobody" => call'[q].todo = {} /\ call'[q].given = {}
                          /\ \A t, v \in call'[q].given : t = v
      BY <1>2, <1>4 DEF IInv, SupportingInv
    <2>3. ASSUME NEW q \in Peers, NEW t \in Tracks, up[t] \in {"none", "live", "ended", "copied"}
          PROVE  tracks'[q][t] = downTracks[t][q] + IF InHand(q, t)' THEN 1 ELSE 0
      <3>1. tracks[q][t] = downTracks[t][q] + IF InHand(q, t) THEN 1 ELSE 0
        BY <2>3 DEF IInv, SupportingInv
      <3>2. QED
        BY <1>5, <1>6, <1>9, <3>1
    <2>4. QED
      BY <1>3, <2>1, <2>2, <2>3 DEF IInv, SupportingInv
  <1>11. NobodyForgotten'
    <2> SUFFICES ASSUME NEW q \in Peers, NEW t \in Tracks, Wanted(q, t)', ~Served(q, t)'
                 PROVE  \/ publishing[t] = "added" \/ q \in pubTodo[t]
                        \/ stage[q] = "added" \/ Owner[t] \in joinTodo[q] \/ ToBeAdded(q, t)'
      BY <1>3 DEF NobodyForgotten
    <2>1. Wanted(q, t) /\ ~Served(q, t)
      BY <1>3 DEF Wanted, Served
    <2>2. CASE q = s /\ t = u
      <3>1. tracks[s][u] = 0 /\ subOpen[s]
        BY <1>9, <2>1, <2>2, UnservedHasNone DEF Wanted
      <3>2. QED
        BY <1>1, <1>2, <1>4, <2>2, <3>1 DEF ToBeAdded
    <2>3. CASE ~(q = s /\ t = u)
      <3>1. ToBeAdded(q, t) => ToBeAdded(q, t)'
        BY <1>1, <1>2, <1>4, <2>1, <2>3 DEF ToBeAdded, Wanted
      <3>2. QED
        BY <2>1, <3>1 DEF IInv, NobodyForgotten
    <2>4. QED
      BY <2>2, <2>3
  <1>12. ListsAgree'
    BY <1>10 DEF SupportingInv, ListsAgree
  <1>13. QED
    BY <1>7, <1>8, <1>10, <1>11, <1>12 DEF IInv

\* The DownTrack arrives at the Receiver.
LEMMA HandOverPreserves ==
  ASSUME IInv, NEW p \in Peers, NEW u \in Tracks, HandOver(p, u)
  PROVE  IInv'
  <1>1. PICK s \in Peers : s = call[p].sub
    BY CallHas DEF IInv
  <1>2. u \in call[p].given /\ Owner[u] = p /\ s # p /\ InHand(s, u)
    BY <1>1 DEF HandOver, IInv, SupportingInv, InHand
  <1>3. UNCHANGED <<sessionVars, trackVars, tracks, pcVars>>
    BY DEF HandOver
  <1>4. /\ call' \in [Peers -> Calls]
        /\ \A q \in Peers : /\ call'[q].by = call[q].by /\ call'[q].sub = call[q].sub
                            /\ call'[q].todo = call[q].todo
                            /\ q # p => call'[q] = call[q]
        /\ call'[p].given = {}
    <2>1. PICK c : c = [call[p] EXCEPT !.given = {}]
      OBVIOUS
    <2>2. /\ c \in Calls /\ c.by = call[p].by /\ c.sub = call[p].sub
          /\ c.todo = call[p].todo /\ c.given = {}
      BY <2>1, CallHas, CallWithout DEF IInv
    <2>3. call' = [call EXCEPT ![p] = c]
      BY <2>1 DEF HandOver
    <2>4. call \in [Peers -> Calls]
      BY DEF IInv, TypeOK
    <2>5. QED
      BY <2>1, <2>2, <2>3, <2>4
  <1>5. /\ downTracks' \in [Tracks -> [Peers -> Nat]]
        /\ \A q \in Peers, t \in Tracks :
             downTracks'[t][q] = IF q = s /\ t = u THEN downTracks[t][q] + 1 ELSE downTracks[t][q]
    BY <1>1 DEF IInv, TypeOK, HandOver
  <1> USE OwnerAssumption DEF OwnerAssumption, sessionVars, trackVars, pcVars
  <1>6. \A q \in Peers, t \in Tracks :
          InHand(q, t)' <=> InHand(q, t) /\ ~(q = s /\ t = u)
    BY <1>1, <1>2, <1>4 DEF InHand, IInv, SupportingInv
  <1>7. TypeOK' /\ AtMostOneDownTrack'
    BY <1>3, <1>4, <1>5 DEF IInv, TypeOK, AtMostOneDownTrack
  <1>8. SupportingInv'
    <2>1. \A q \in Peers :
            /\ call'[q].by = "nobody" => call'[q].todo = {} /\ call'[q].given = {}
            /\ \A t \in call'[q].todo \cup call'[q].given : Owner[t] = q /\ call'[q].sub # q
            /\ \A t, v \in call'[q].given : t = v
      BY <1>4 DEF IInv, SupportingInv
    <2>2. ASSUME NEW q \in Peers, NEW t \in Tracks
          PROVE  /\ up[t] \in {"none", "live", "ended", "copied"} =>
                      tracks[q][t] = downTracks'[t][q] + IF InHand(q, t)' THEN 1 ELSE 0
                 /\ up[t] = "copied" => closing[t][q] <= downTracks'[t][q]
      <3>1. /\ up[t] \in {"none", "live", "ended", "copied"} =>
                 tracks[q][t] = downTracks[t][q] + IF InHand(q, t) THEN 1 ELSE 0
            /\ up[t] = "copied" => closing[t][q] <= downTracks[t][q]
        BY DEF IInv, SupportingInv
      <3>2. tracks[q][t] \in Nat /\ downTracks[t][q] \in Nat /\ closing[t][q] \in Nat
        BY DEF IInv, TypeOK
      <3>3. CASE q = s /\ t = u
        <4>1. downTracks'[t][q] = downTracks[t][q] + 1 /\ InHand(q, t) /\ ~InHand(q, t)'
          BY <1>2, <1>5, <1>6, <3>3
        <4>2. QED
          BY <3>1, <3>2, <4>1
      <3>4. CASE ~(q = s /\ t = u)
        <4>1. downTracks'[t][q] = downTracks[t][q] /\ (InHand(q, t)' <=> InHand(q, t))
          BY <1>5, <1>6, <3>4
        <4>2. QED
          BY <3>1, <4>1
      <3>5. QED
        BY <3>3, <3>4
    <2>3. QED
      BY <1>3, <2>1, <2>2 DEF IInv, SupportingInv
  <1>9. NobodyForgotten'
    <2> SUFFICES ASSUME NEW q \in Peers, NEW t \in Tracks, Wanted(q, t)', ~Served(q, t)'
                 PROVE  \/ publishing[t] = "added" \/ q \in pubTodo[t]
                        \/ stage[q] = "added" \/ Owner[t] \in joinTodo[q] \/ ToBeAdded(q, t)'
      BY <1>3 DEF NobodyForgotten
    <2>1. Wanted(q, t)
      BY <1>3 DEF Wanted
    <2>2. CASE q = s /\ t = u
      <3>1. tracks[s][u] = downTracks[u][s] + 1
        BY <1>2, <2>1, <2>2 DEF IInv, ListsAgree, Wanted
      <3>2. tracks[s][u] \in Nat /\ downTracks[u][s] \in Nat /\ tracks[s][u] <= 1
        BY <1>2 DEF IInv, TypeOK, AtMostOneDownTrack
      <3>3. downTracks'[u][s] = 1
        BY <1>5, <3>1, <3>2
      <3>4. QED
        BY <2>2, <3>3 DEF Served
    <2>3. CASE ~(q = s /\ t = u)
      <3>1. ~Served(q, t)
        BY <1>5, <2>3 DEF Served
      <3>2. ToBeAdded(q, t) => ToBeAdded(q, t)'
        BY <1>1, <1>2, <1>4, <2>3 DEF ToBeAdded, IInv, SupportingInv
      <3>3. QED
        BY <2>1, <3>1, <3>2 DEF IInv, NobodyForgotten
    <2>4. QED
      BY <2>2, <2>3
  <1>10. ListsAgree'
    BY <1>8 DEF SupportingInv, ListsAgree
  <1>11. QED
    BY <1>7, <1>8, <1>9, <1>10 DEF IInv

\* A call that is through has nothing left on its way.
LEMMA UnlockPreserves ==
  ASSUME IInv, NEW p \in Peers, Unlock(p)
  PROVE  IInv'
  <1>1. call[p].todo = {} /\ call[p].given = {}
    BY DEF Unlock
  <1>2. UNCHANGED <<sessionVars, trackVars, downVars, pcVars>>
    BY DEF Unlock
  <1>3. /\ call' \in [Peers -> Calls]
        /\ call'[p].todo = {} /\ call'[p].given = {}
        /\ \A q \in Peers : q # p => call'[q] = call[q]
    BY DEF IInv, TypeOK, Unlock, Unlocked, Calls
  <1> USE OwnerAssumption DEF OwnerAssumption, sessionVars, trackVars, downVars, pcVars
  <1>4. \A q \in Peers, t \in Tracks :
          (InHand(q, t)' <=> InHand(q, t)) /\ (ToBeAdded(q, t)' <=> ToBeAdded(q, t))
    BY <1>1, <1>3 DEF InHand, ToBeAdded
  <1>5. TypeOK' /\ AtMostOneDownTrack'
    BY <1>2, <1>3 DEF IInv, TypeOK, AtMostOneDownTrack
  <1>6. SupportingInv'
    BY <1>2, <1>3, <1>4 DEF IInv, SupportingInv
  <1>7. NobodyForgotten' /\ ListsAgree'
    BY <1>2, <1>4 DEF IInv, NobodyForgotten, ListsAgree, Wanted, Served
  <1>8. QED
    BY <1>5, <1>6, <1>7 DEF IInv

-----------------------------------------------------------------------------
\* Forwarding deletes nothing, and a track that ends is no longer wanted.
LEMMA TrackStepPreserves ==
  ASSUME IInv, NEW t \in Tracks,
         Forward(t) \/ TrackEnds(t) \/ CloseTracksCopies(t) \/ DeleteReceiver(t)
  PROVE  IInv'
  <1> USE OwnerAssumption
      DEF OwnerAssumption, IInv, UpStates, sessionVars, downVars, pcVars, trackVars, InHand, ToBeAdded
  <1>1. CASE Forward(t)
    <2>1. downTracks' = downTracks
      BY <1>1 DEF Forward, WriteRTP, TypeOK
    <2>2. QED
      BY <1>1, <2>1 DEF Forward, TypeOK, AtMostOneDownTrack, ListsAgree,
                        NobodyForgotten, Wanted, Served, SupportingInv
  <1>2. CASE TrackEnds(t)
    BY <1>2 DEF TrackEnds, TypeOK, AtMostOneDownTrack, ListsAgree,
                NobodyForgotten, Wanted, Served, SupportingInv
  <1>3. CASE CloseTracksCopies(t)
    <2> USE <1>3 DEF CloseTracksCopies
    <2>1. TypeOK'
      BY DEF TypeOK
    <2>2. AtMostOneDownTrack' /\ ListsAgree' /\ NobodyForgotten'
      BY DEF TypeOK, AtMostOneDownTrack, ListsAgree, NobodyForgotten, Wanted, Served
    <2>3. SupportingInv'
      BY DEF SupportingInv, TypeOK
    <2>4. QED
      BY <2>1, <2>2, <2>3
  <1>4. CASE DeleteReceiver(t)
    BY <1>4 DEF DeleteReceiver, TypeOK, AtMostOneDownTrack, ListsAgree,
                NobodyForgotten, Wanted, Served, SupportingInv
  <1>5. QED
    BY <1>1, <1>2, <1>3, <1>4

\* closeTracks closes only down tracks that exist, and none of a live track.
LEMMA CloseTracksPreserves ==
  ASSUME IInv, NEW t \in Tracks, CloseTracksEmpties(t)
  PROVE  IInv'
  <1> USE OwnerAssumption
      DEF OwnerAssumption, IInv, CloseTracksEmpties, sessionVars, pcVars, InHand, ToBeAdded
  <1>0. \A s \in Peers : /\ tracks[s][t] \in Nat /\ closing[t][s] \in Nat
                         /\ closing[t][s] <= tracks[s][t]
    <2> TAKE s \in Peers
    <2>1. tracks[s][t] \in Nat /\ closing[t][s] \in Nat /\ downTracks[t][s] \in Nat
      BY DEF TypeOK
    <2>2. PICK h \in {0, 1} : tracks[s][t] = downTracks[t][s] + h
      BY DEF SupportingInv
    <2>3. closing[t][s] <= downTracks[t][s]
      BY DEF SupportingInv
    <2>4. QED
      BY <2>1, <2>2, <2>3
  <1>1. \A s \in Peers, u \in Tracks :
          /\ u # t => tracks'[s][u] = tracks[s][u] /\ downTracks'[u] = downTracks[u]
          /\ tracks'[s][u] <= tracks[s][u]
    BY <1>0 DEF CloseDownTracks, TypeOK
  <1>2. TypeOK'
    <2>1. tracks' \in [Peers -> [Tracks -> Nat]]
      <3>1. ASSUME NEW s \in Peers
            PROVE  (IF subOpen[s] THEN tracks[s][t] - closing[t][s] ELSE tracks[s][t]) \in Nat
        BY <1>0 DEF TypeOK
      <3>2. QED
        BY <3>1 DEF CloseDownTracks, TypeOK
    <2>2. QED
      BY <2>1 DEF TypeOK, UpStates, Nobody
  <1>3. AtMostOneDownTrack'
    <2> SUFFICES ASSUME NEW s \in Peers, NEW u \in Tracks
                 PROVE  tracks'[s][u] <= IF s = Owner[u] THEN 0 ELSE 1
      BY DEF AtMostOneDownTrack
    <2>1. tracks[s][u] \in Nat /\ tracks'[s][u] \in Nat /\ tracks'[s][u] <= tracks[s][u]
      BY <1>1, <1>2 DEF TypeOK
    <2>2. tracks[s][u] <= IF s = Owner[u] THEN 0 ELSE 1
      BY DEF AtMostOneDownTrack
    <2>3. QED
      BY <2>1, <2>2
  <1>4. ListsAgree' /\ NobodyForgotten'
    BY <1>1 DEF ListsAgree, NobodyForgotten, Wanted, Served, TypeOK
  <1>5. SupportingInv'
    BY <1>1 DEF SupportingInv, TypeOK
  <1>6. QED
    BY <1>2, <1>3, <1>4, <1>5

\* Leaving and failing connections.
LEMMA LeavePreserves ==
  ASSUME IInv, NEW p \in Peers,
         CloseStep(p) \/ RemovePeer(p) \/ PublisherFails(p) \/ SubscriberFails(p)
  PROVE  IInv'
  <1> USE OwnerAssumption
      DEF OwnerAssumption, IInv, Stages, UpStates, sessionVars, trackVars, downVars, pcVars,
          InHand, ToBeAdded
  <1>1. CASE RemovePeer(p)
    BY <1>1 DEF RemovePeer, TypeOK, AtMostOneDownTrack, ListsAgree,
                NobodyForgotten, Wanted, Served, SupportingInv
  <1>2. CASE PublisherCloses(p) \/ PublisherFails(p)
    <2> USE <1>2 DEF PublisherCloses, PublisherFails
    <2>0. ClosePublisher(p)
      OBVIOUS
    <2>1. TypeOK'
      <3>1. up' \in [Tracks -> UpStates]
        BY <2>0 DEF ClosePublisher, TypeOK
      <3>2. pubOpen' \in [Peers -> BOOLEAN]
        BY <2>0 DEF ClosePublisher, TypeOK
      <3>3. stage' \in [Peers -> Stages]
        BY DEF TypeOK
      <3>4. QED
        BY <3>1, <3>2, <3>3 DEF TypeOK
    <2>2. \A t \in Tracks : up'[t] = up[t] \/ (up[t] = "live" /\ up'[t] = "ended")
      BY <2>0 DEF ClosePublisher, TypeOK
    <2>3. AtMostOneDownTrack' /\ ListsAgree'
      BY <2>2 DEF AtMostOneDownTrack, ListsAgree
    <2>4. NobodyForgotten'
      BY <2>2 DEF TypeOK, NobodyForgotten, Wanted, Served
    <2>5. SupportingInv'
      BY <2>2 DEF SupportingInv, TypeOK
    <2>6. QED
      BY <2>1, <2>3, <2>4, <2>5
  <1>3. CASE SubscriberCloses(p) \/ SubscriberFails(p)
    <2> USE <1>3 DEF SubscriberCloses, SubscriberFails
    <2>1. TypeOK'
      BY DEF TypeOK
    <2>2. AtMostOneDownTrack' /\ ListsAgree'
      BY DEF AtMostOneDownTrack, ListsAgree
    <2>3. NobodyForgotten'
      BY DEF TypeOK, NobodyForgotten, Wanted, Served
    <2>4. SupportingInv'
      BY DEF TypeOK, SupportingInv
    <2>5. QED
      BY <2>1, <2>2, <2>3, <2>4
  <1>4. QED
    BY <1>1, <1>2, <1>3 DEF CloseStep

LEMMA NextIInv == IInv /\ [Next]_vars => IInv'
  <1> SUFFICES ASSUME IInv, [Next]_vars
               PROVE  IInv'
    OBVIOUS
  <1>1. CASE Next
    BY <1>1, JoinStepPreserves, SubscribeToPreserves, PublicationPreserves,
       PublishToPreserves, AddDownTrackPreserves, HandOverPreserves, UnlockPreserves,
       TrackStepPreserves, CloseTracksPreserves, LeavePreserves
    DEF Next, JoinStep, PublishStep, AddDownTracks, CloseTracksStep
  <1>2. CASE UNCHANGED vars
    BY <1>2 DEF vars, sessionVars, trackVars, downVars, pcVars, IInv, TypeOK,
                AtMostOneDownTrack, ListsAgree, NobodyForgotten, Wanted, Served, SupportingInv,
                InHand, ToBeAdded
  <1>3. QED
    BY <1>1, <1>2

\* The conjunction of all invariants holds in every reachable state.
THEOREM Invariance == Spec => []IInv
  BY InitIInv, NextIInv, PTL DEF Spec

\* The maps and lists of Session, Router, Receiver and Subscriber keep their types.
THEOREM TypeCorrect == Spec => []TypeOK
  <1>1. IInv => TypeOK
    BY DEF IInv
  <1>2. QED
    BY <1>1, Invariance, PTL

\* No subscriber has a track twice, or its own.
THEOREM NoDuplicateDownTracks == Spec => []AtMostOneDownTrack
  <1>1. IInv => AtMostOneDownTrack
    BY DEF IInv
  <1>2. QED
    BY <1>1, Invariance, PTL

\* The Receiver of a live track feeds exactly the DownTracks its subscribers have,
\* but for one that AddDownTracks is about to hand to it.
THEOREM LiveListsAgree == Spec => []ListsAgree
  <1>1. IInv => ListsAgree
    BY DEF IInv
  <1>2. QED
    BY <1>1, Invariance, PTL

\* A join racing a publication never leaves a peer without the track.
THEOREM RaceIsCovered == Spec => []NobodyForgotten
  <1>1. IInv => NobodyForgotten
    BY DEF IInv
  <1>2. QED
    BY <1>1, Invariance, PTL

=============================================================================
