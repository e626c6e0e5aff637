------------------------- MODULE LayerSwitchProofs -------------------------
(***************************************************************************)
(* Proofs about LayerSwitch, for any set of down tracks.                   *)
(*                                                                         *)
(* A down track's life is a path of few situations (TrackOK), and a writer *)
(* that has found its key frame is at one of two steps of it (WriterOK).   *)
(* The lemmas on lists say what Append and DeleteDownTrack do to one; two  *)
(* frame lemmas say which steps leave a down track and a writer as they    *)
(* are; then there is one lemma per action.                                *)
(***************************************************************************)
EXTENDS LayerSwitch, TLAPS

Occurs(t, list) == \E i \in DOMAIN list : list[i] = t

Once(list) == \A i, j \in DOMAIN list : list[i] = list[j] => i = j

-----------------------------------------------------------------------------
(* Lists of down tracks.                                                   *)

\* SubDownTrack and AddDownTrack append: the new one occurs, the others as before.
LEMMA AppendOccurs ==
  ASSUME NEW list \in Seq(Subs), NEW s \in Subs
  PROVE  /\ Append(list, s) \in Seq(Subs)
         /\ \A t \in Subs : Occurs(t, Append(list, s)) <=> Occurs(t, list) \/ t = s
         /\ Once(list) /\ ~Occurs(s, list) => Once(Append(list, s))
  <1> DEFINE new == Append(list, s)
  <1>1. /\ new \in Seq(Subs)
        /\ DOMAIN new = 1 .. Len(list) + 1
        /\ new[Len(list) + 1] = s
        /\ \A i \in 1 .. Len(list) : new[i] = list[i]
        /\ DOMAIN list = 1 .. Len(list) /\ Len(list) \in Nat
    OBVIOUS
  <1> HIDE DEF new
  <1>2. ASSUME NEW t \in Subs
        PROVE  Occurs(t, new) <=> Occurs(t, list) \/ t = s
    BY <1>1 DEF Occurs
  <1>3. Once(list) /\ ~Occurs(s, list) => Once(new)
    BY <1>1 DEF Occurs, Once
  <1>4. QED
    BY <1>1, <1>2, <1>3 DEF new

\* DeleteDownTrack takes off the one it is asked to, and only that.
LEMMA WithoutOccurs ==
  ASSUME NEW list \in Seq(Subs), NEW s \in Subs, Once(list)
  PROVE  /\ Without(list, s) \in Seq(Subs)
         /\ \A t \in Subs : Occurs(t, Without(list, s)) <=> Occurs(t, list) /\ t # s
         /\ Once(Without(list, s))
  <1> DEFINE n == Len(list)
             found == {i \in 1 .. n : list[i] = s}
             first == CHOOSE i \in found : \A j \in found : i <= j
             new == [i \in 1 .. n - 1 |-> IF i = first THEN list[n] ELSE list[i]]
  <1>1. n \in Nat /\ DOMAIN list = 1 .. n /\ \A i \in 1 .. n : list[i] \in Subs
    OBVIOUS
  <1> HIDE DEF n
  <1>2. CASE found = {}
    <2>1. Without(list, s) = list
      BY <1>2 DEF Without, n
    <2>2. ~Occurs(s, list)
      BY <1>1, <1>2 DEF Occurs
    <2>3. QED
      BY <2>1, <2>2 DEF Occurs
  <1>3. CASE found # {}
    <2>1. PICK k \in 1 .. n : list[k] = s
      BY <1>3
    <2>2. found = {k}
      BY <1>1, <2>1 DEF Once
    <2>3. first = k
      BY <1>1, <2>1, <2>2
    <2>4. Without(list, s) = new
      BY <1>3 DEF Without, n
    <2> HIDE DEF first, found
    <2>5. /\ new \in Seq(Subs)
          /\ DOMAIN new = 1 .. n - 1
          /\ \A i \in 1 .. n - 1 : new[i] = IF i = k THEN list[n] ELSE list[i]
      BY <1>1, <2>1, <2>3
    <2> HIDE DEF new
    <2>6. ASSUME NEW t \in Subs
          PROVE  Occurs(t, new) <=> Occurs(t, list) /\ t # s
      <3>1. ASSUME Occurs(t, new) PROVE Occurs(t, list) /\ t # s
        BY <1>1, <2>1, <2>5, <3>1 DEF Occurs, Once
      <3>2. ASSUME Occurs(t, list), t # s PROVE Occurs(t, new)
        <4>1. PICK i \in 1 .. n : list[i] = t
          BY <1>1, <3>2 DEF Occurs
        <4>2. CASE i = n
          BY <1>1, <2>1, <2>5, <3>2, <4>1, <4>2 DEF Occurs
        <4>3. CASE i # n
          <5>1. i \in 1 .. n - 1 /\ i # k
            BY <1>1, <2>1, <3>2, <4>1, <4>3
          <5>2. new[i] = t
            BY <2>5, <4>1, <5>1
          <5>3. QED
            BY <2>5, <5>1, <5>2 DEF Occurs
        <4>4. QED
          BY <4>2, <4>3
      <3>3. QED
        BY <3>1, <3>2
    <2>7. Once(new)
      BY <1>1, <2>1, <2>5 DEF Once
    <2>8. QED
      BY <2>4, <2>5, <2>6, <2>7
  <1>4. QED
    BY <1>2, <1>3

\* A writer goes on to the rest of its list.
LEMMA TailOccurs ==
  ASSUME NEW list \in Seq(Subs), list # <<>>
  PROVE  /\ Head(list) \in Subs /\ Tail(list) \in Seq(Subs)
         /\ \A i \in DOMAIN Tail(list) : \E j \in DOMAIN list : Tail(list)[i] = list[j]
         /\ \E j \in DOMAIN list : list[j] = Head(list)
  <1>1. /\ Len(list) \in Nat /\ Len(list) > 0 /\ DOMAIN list = 1 .. Len(list)
        /\ Head(list) = list[1] /\ Tail(list) \in Seq(Subs)
        /\ DOMAIN Tail(list) = 1 .. Len(list) - 1
        /\ \A i \in 1 .. Len(list) - 1 : Tail(list)[i] = list[i + 1]
    OBVIOUS
  <1>2. QED
    BY <1>1
-----------------------------------------------------------------------------
(* What the type of a writer says, and what leaves a situation as it is.   *)

LEMMA LayersAre == Layers = {0, 1, 2}
  BY DEF Layers

\* The three kinds of writers, by their step.
LEMMA WriterTypes ==
  ASSUME TypeOK, NEW l \in Layers
  PROVE  /\ writer[l] = Idle \/ writer[l].step \in {"write", "delete", "store"}
         /\ writer[l] = Idle => writer[l].step = "idle"
         /\ writer[l] # Idle => writer[l].todo \in Seq(Subs) /\ writer[l].key \in BOOLEAN
         /\ writer[l].step \in {"delete", "store"} =>
               /\ writer[l].key = TRUE /\ writer[l].todo # <<>>
               /\ writer[l].current \in Layers /\ writer[l].target \in Layers
  <1>1. \/ writer[l] = Idle
        \/ writer[l] \in [step : {"write"}, key : BOOLEAN, todo : Seq(Subs)]
        \/ writer[l] \in [step : {"delete", "store"}, key : {TRUE}, todo : Seq(Subs) \ {<<>>},
                         current : Layers, target : Layers]
    BY DEF TypeOK, WriterStates
  <1>2. CASE writer[l] = Idle
    BY <1>2 DEF Idle
  <1>3. CASE writer[l] \in [step : {"write"}, key : BOOLEAN, todo : Seq(Subs)]
    BY <1>3 DEF Idle
  <1>4. CASE writer[l] \in [step : {"delete", "store"}, key : {TRUE}, todo : Seq(Subs) \ {<<>>},
                           current : Layers, target : Layers]
    <2>1. writer[l].key \in {TRUE}
      BY <1>4, Zenon
    <2>2. writer[l].step \in {"delete", "store"} /\ writer[l].todo \in Seq(Subs) \ {<<>>}
      BY <1>4
    <2>3. writer[l].current \in Layers /\ writer[l].target \in Layers
      BY <1>4
    <2>4. writer[l] # Idle
      BY <2>2 DEF Idle
    <2>5. QED
      BY <2>1, <2>2, <2>3, <2>4
  <1>5. QED
    BY <1>1, <1>2, <1>3, <1>4

\* The records the writers' steps make are writers.
LEMMA WriterMade ==
  ASSUME NEW key \in BOOLEAN, NEW todo \in Seq(Subs), NEW current \in Layers, NEW target \in Layers,
         NEW step \in {"delete", "store"}
  PROVE  /\ [step |-> "write", key |-> key, todo |-> todo] \in WriterStates
         /\ todo # <<>> =>
               [step |-> step, key |-> TRUE, todo |-> todo, current |-> current, target |-> target]
               \in WriterStates
  BY DEF WriterStates

\* The parts of the invariant about a down track depend on the lists through Lists only.
LEMMA ListsSame ==
  ASSUME NEW s \in Subs, \A l \in Layers : InList(s, l)' <=> InList(s, l)
  PROVE  Lists(s)' = Lists(s)
  BY DEF Lists

\* A down track that no step touches stays where it is in its life.
LEMMA TrackKept ==
  ASSUME NEW s \in Subs,
         stage'[s] = stage[s], spatialLayer'[s] = spatialLayer[s],
         lastSSRC'[s] = lastSSRC[s], handler'[s] = handler[s],
         Lists(s)' = Lists(s)
  PROVE  /\ New(s) => New(s)'
         /\ \A l \in Layers : WaitsOn(s, l) => WaitsOn(s, l)'
         /\ AtZero(s) => AtZero(s)'
         /\ GoesUp(s) => GoesUp(s)'
         /\ HasLeft(s) /\ Moving(s, 1)' => HasLeft(s)'
         /\ Stays(s) => Stays(s)'
         /\ TrackOK(s) /\ (Moving(s, 1) => Moving(s, 1)') /\ reSync'[s] = reSync[s] => TrackOK(s)'
  <1>1. New(s) => New(s)'
    BY DEF New, Idle
  <1>2. \A l \in Layers : WaitsOn(s, l) => WaitsOn(s, l)'
    BY DEF WaitsOn, IsAt, Idle
  <1>3. AtZero(s) => AtZero(s)'
    BY DEF AtZero, IsAt, Idle
  <1>4. GoesUp(s) => GoesUp(s)'
    BY DEF GoesUp, IsAt, Idle
  <1>5. HasLeft(s) /\ Moving(s, 1)' => HasLeft(s)'
    BY DEF HasLeft, IsAt, Idle
  <1>6. Stays(s) => Stays(s)'
    BY DEF Stays, IsAt, Idle
  <1>7. HasLeft(s) => Moving(s, 1)
    BY DEF HasLeft
  <1>8. TrackOK(s) /\ (Moving(s, 1) => Moving(s, 1)') /\ reSync'[s] = reSync[s] => TrackOK(s)'
    BY <1>1, <1>2, <1>3, <1>4, <1>5, <1>6, <1>7 DEF TrackOK
  <1>9. QED
    BY <1>1, <1>2, <1>3, <1>4, <1>5, <1>6, <1>8

\* A writer that does not move, and whose down track does not either, is as it was.
LEMMA WriterKept ==
  ASSUME TypeOK, NEW l \in Layers, WriterOK(l),
         writer'[l] = writer[l], locks'[l] = locks[l],
         \A s \in Subs : InList(s, l) => InList(s, l)',
         \A s \in Subs : stage[s] \in {"bound", "unbound"} => stage'[s] \in {"bound", "unbound"},
         \A s \in Subs : /\ writer[l].step \in {"delete", "store"} /\ At(l) = s
                           => /\ GoesUp(s) => GoesUp(s)'
                              /\ WaitsOn(s, l) => WaitsOn(s, l)'
                              /\ l = 1 /\ HasLeft(s) => HasLeft(s)'
  PROVE  WriterOK(l)'
  <1>1. At(l)' = At(l)
    BY DEF At
  <1>2. writer[l] # Idle => writer[l].todo \in Seq(Subs)
    BY WriterTypes
  <1>3. writer[l].step \in {"delete", "store"} => At(l) \in Subs /\ writer[l] # Idle
    BY <1>2, TailOccurs, WriterTypes DEF WriterOK, At, Idle
  <1>4. writer[l] # Idle =>
          \A i \in DOMAIN writer[l].todo : InList(writer[l].todo[i], l)'
    <2> SUFFICES ASSUME writer[l] # Idle, NEW i \in DOMAIN writer[l].todo
                 PROVE  InList(writer[l].todo[i], l)'
      OBVIOUS
    <2>1. writer[l].todo[i] \in Subs /\ InList(writer[l].todo[i], l)
      BY <1>2 DEF WriterOK
    <2> DEFINE s == writer[l].todo[i]
    <2>2. s' = s
      OBVIOUS
    <2> HIDE DEF s
    <2>3. QED
      BY <2>1, <2>2 DEF s
  <1>5. locks'[l] = IF writer'[l] = Idle THEN None ELSE l
    BY DEF WriterOK
  <1>6. writer'[l].step \in {"delete", "store"} =>
          stage'[At(l)'] \in {"bound", "unbound"}
    BY <1>1, <1>3 DEF WriterOK
  <1>7. writer'[l].step = "delete" =>
          l = 1 /\ writer'[l].current = 0 /\ writer'[l].target = 1 /\ GoesUp(At(l))'
    BY <1>1, <1>3 DEF WriterOK
  <1>8. writer'[l].step = "store" =>
          writer'[l].target = l /\ (WaitsOn(At(l), l)' \/ (l = 1 /\ HasLeft(At(l))'))
    BY <1>1, <1>3 DEF WriterOK
  <1>9. QED
    BY <1>4, <1>5, <1>6, <1>7, <1>8 DEF WriterOK, Idle

\* Steps that leave the lists alone.
LEMMA SameLists ==
  ASSUME downTracks' = downTracks
  PROVE  \A s \in Subs : /\ \A l \in Layers : InList(s, l)' <=> InList(s, l)
                         /\ Lists(s)' = Lists(s)
  BY DEF InList, Lists

\* A layer's list and who is on it.
LEMMA OnList ==
  ASSUME TypeOK, NEW l \in Layers
  PROVE  /\ downTracks[l] \in Seq(Subs)
         /\ \A s \in Subs : InList(s, l) <=> Occurs(s, downTracks[l])
         /\ ListOK(l) => Once(downTracks[l])
  BY DEF TypeOK, InList, Occurs, ListOK, Once

\* A down track that a writer has still to serve is on the writer's list.
LEMMA AtIsListed ==
  ASSUME TypeOK, NEW l \in Layers, WriterOK(l), writer[l] # Idle, writer[l].todo # <<>>
  PROVE  /\ At(l) \in Subs /\ InList(At(l), l) /\ l \in Lists(At(l))
         /\ Tail(writer[l].todo) \in Seq(Subs)
         /\ \A i \in DOMAIN Tail(writer[l].todo) : InList(Tail(writer[l].todo)[i], l)
  <1>1. writer[l].todo \in Seq(Subs)
    BY WriterTypes
  <1>2. /\ At(l) \in Subs /\ Tail(writer[l].todo) \in Seq(Subs)
        /\ \A i \in DOMAIN Tail(writer[l].todo) :
              \E j \in DOMAIN writer[l].todo : Tail(writer[l].todo)[i] = writer[l].todo[j]
        /\ \E j \in DOMAIN writer[l].todo : writer[l].todo[j] = At(l)
    BY <1>1, TailOccurs DEF At
  <1>3. \A j \in DOMAIN writer[l].todo : InList(writer[l].todo[j], l)
    BY DEF WriterOK
  <1>4. InList(At(l), l)
    BY <1>2, <1>3
  <1>5. QED
    BY <1>2, <1>3, <1>4 DEF Lists

-----------------------------------------------------------------------------
(* Init and the actions.                                                   *)

LEMMA InitIInv == Init => IInv
  <1> SUFFICES ASSUME Init PROVE IInv
    OBVIOUS
  <1>1. TypeOK
    BY DEF Init, TypeOK, Layers, WriterStates, HandlerStates
  <1>2. ASSUME NEW s \in Subs PROVE TrackOK(s)
    <2>1. Lists(s) = {}
      BY DEF Init, Lists, InList
    <2>2. New(s)
      BY <2>1 DEF Init, New
    <2>3. QED
      BY <2>2 DEF Init, TrackOK
  <1>3. ASSUME NEW l \in Layers PROVE WriterOK(l) /\ ListOK(l)
    BY DEF Init, WriterOK, ListOK, Idle
  <1>4. QED
    BY <1>1, <1>2, <1>3 DEF IInv

\* A layer that was not there had no down tracks.
LEMMA AddUpTrackPreserves ==
  ASSUME IInv, NEW l \in Layers, AddUpTrack(l)
  PROVE  IInv'
  <1>1. TypeOK /\ (\A s \in Subs : TrackOK(s)) /\ \A k \in Layers : WriterOK(k) /\ ListOK(k)
    BY DEF IInv
  <1>2. downTracks' = downTracks
    BY <1>1 DEF AddUpTrack, ListOK, TypeOK
  <1>3. UNCHANGED <<locks, writer, stage, spatialLayer, reSync, lastSSRC, handler>> /\ upTracks' = upTracks \cup {l}
    BY DEF AddUpTrack, trackVars
  <1>4. TypeOK'
    BY <1>1, <1>2, <1>3 DEF TypeOK
  <1>5. ASSUME NEW s \in Subs PROVE TrackOK(s)'
    BY <1>1, <1>2, <1>3, SameLists, TrackKept DEF Moving, At
  <1>6. ASSUME NEW k \in Layers PROVE WriterOK(k)'
    <2>1. \A s \in Subs : /\ GoesUp(s) => GoesUp(s)'
                          /\ WaitsOn(s, k) => WaitsOn(s, k)'
                          /\ HasLeft(s) => HasLeft(s)'
      BY <1>2, <1>3, SameLists, TrackKept DEF Moving, At, HasLeft
    <2>2. QED
      BY <1>1, <1>2, <1>3, <2>1, SameLists, WriterKept
  <1>7. ASSUME NEW k \in Layers PROVE ListOK(k)'
    BY <1>1, <1>2, <1>3 DEF ListOK
  <1>8. QED
    BY <1>4, <1>5, <1>6, <1>7 DEF IInv

\* Binding and unbinding: only a down track without a source is bound.
LEMMA BindPreserves ==
  ASSUME IInv, NEW s \in Subs, Bind(s) \/ Unbind(s)
  PROVE  IInv'
  <1>1. TypeOK /\ (\A t \in Subs : TrackOK(t)) /\ \A k \in Layers : WriterOK(k) /\ ListOK(k)
    BY DEF IInv
  <1>2. UNCHANGED <<upTracks, downTracks, locks, writer, spatialLayer, lastSSRC, handler>>
    BY DEF Bind, Unbind, receiverVars
  <1>3. /\ stage[s] \in {"added", "bound"} /\ stage'[s] \in {"bound", "unbound"}
        /\ stage[s] = "bound" => reSync' = reSync
        /\ \A t \in Subs \ {s} : stage'[t] = stage[t] /\ reSync'[t] = reSync[t]
    BY <1>1 DEF Bind, Unbind, TypeOK
  <1>4. TypeOK'
    BY <1>1, <1>2 DEF Bind, Unbind, TypeOK
  <1>5. ASSUME NEW t \in Subs, NEW l \in Layers
        PROVE  /\ GoesUp(t) => GoesUp(t)'
               /\ WaitsOn(t, l) => WaitsOn(t, l)'
               /\ HasLeft(t) => HasLeft(t)'
    BY <1>2, <1>3, SameLists DEF GoesUp, WaitsOn, HasLeft, Moving, At, IsAt, Idle
  <1>6. ASSUME NEW t \in Subs PROVE TrackOK(t)'
    <2>1. CASE t # s
      BY <1>1, <1>2, <1>3, <2>1, SameLists, TrackKept DEF Moving, At
    <2>2. CASE t = s
      <3>1. lastSSRC[s] # None => ~reSync'[s]
        BY <1>1, <1>3 DEF TrackOK
      <3>2. AtZero(s) => AtZero(s)'
        BY <1>2, SameLists DEF AtZero, IsAt, Idle
      <3>3. Stays(s) => Stays(s)'
        BY <1>2, SameLists DEF Stays, IsAt, Idle
      <3>4. ~New(s)
        BY <1>3 DEF New
      <3>5. \/ \E l \in Layers : WaitsOn(s, l)
            \/ AtZero(s) \/ GoesUp(s) \/ HasLeft(s) \/ Stays(s)
        BY <1>1, <3>4 DEF TrackOK
      <3>6. \/ \E l \in Layers : WaitsOn(s, l)'
            \/ AtZero(s)' \/ GoesUp(s)' \/ HasLeft(s)' \/ Stays(s)'
        <4>1. CASE \E l \in Layers : WaitsOn(s, l)
          BY <1>5, <4>1
        <4>2. CASE AtZero(s) \/ Stays(s)
          BY <3>2, <3>3, <4>2
        <4>3. CASE GoesUp(s) \/ HasLeft(s)
          BY <1>5, <4>3, LayersAre
        <4>4. QED
          BY <3>5, <4>1, <4>2, <4>3
      <3>7. lastSSRC'[s] # None => stage'[s] \in {"bound", "unbound"} /\ ~reSync'[s]
        BY <1>2, <1>3, <3>1
      <3>8. QED
        BY <2>2, <3>6, <3>7 DEF TrackOK
    <2>3. QED
      BY <2>1, <2>2
  <1>7. ASSUME NEW k \in Layers PROVE WriterOK(k)'
    <2>1. \A t \in Subs : stage[t] \in {"bound", "unbound"} => stage'[t] \in {"bound", "unbound"}
      BY <1>3
    <2>2. QED
      BY <1>1, <1>2, <1>5, <2>1, SameLists, WriterKept
  <1>8. ASSUME NEW k \in Layers PROVE ListOK(k)'
    BY <1>1, <1>2 DEF ListOK
  <1>9. QED
    BY <1>4, <1>6, <1>7, <1>8 DEF IInv

\* A writer's step that touches neither the lists nor a down track.
LEMMA WriterMoves ==
  ASSUME IInv, NEW l \in upTracks, writer[l].step # "store",
         UNCHANGED <<upTracks, downTracks, trackVars, handler>>,
         \A k \in Layers \ {l} : writer'[k] = writer[k] /\ locks'[k] = locks[k],
         TypeOK', WriterOK(l)'
  PROVE  IInv'
  <1>1. TypeOK /\ (\A s \in Subs : TrackOK(s)) /\ \A k \in Layers : WriterOK(k) /\ ListOK(k)
    BY DEF IInv
  <1>2. UNCHANGED <<stage, spatialLayer, reSync, lastSSRC, handler>>
    BY DEF trackVars
  <1>3. l \in Layers
    BY <1>1 DEF TypeOK
  <1>4. \A s \in Subs : Moving(s, 1) => Moving(s, 1)'
    BY <1>3, LayersAre DEF Moving, At
  <1>5. ASSUME NEW s \in Subs PROVE TrackOK(s)'
    BY <1>1, <1>2, <1>4, SameLists, TrackKept
  <1>6. ASSUME NEW k \in Layers, k # l PROVE WriterOK(k)'
    <2>1. \A s \in Subs : /\ GoesUp(s) => GoesUp(s)'
                          /\ WaitsOn(s, k) => WaitsOn(s, k)'
                          /\ HasLeft(s) => HasLeft(s)'
      BY <1>2, <1>4, SameLists, TrackKept DEF HasLeft
    <2>2. QED
      BY <1>1, <1>2, <1>6, <2>1, SameLists, WriterKept
  <1>7. ASSUME NEW k \in Layers PROVE ListOK(k)'
    BY <1>1, <1>7 DEF ListOK
  <1>8. QED
    BY <1>5, <1>6, <1>7 DEF IInv

LEMMA ReadPacketPreserves ==
  ASSUME IInv, NEW l \in Layers, NEW keyFrame \in BOOLEAN, ReadPacket(l, keyFrame)
  PROVE  IInv'
  <1>1. TypeOK /\ WriterOK(l)
    BY DEF IInv
  <1> DEFINE new == [step |-> "write", key |-> keyFrame, todo |-> downTracks[l]]
  <1>2. /\ l \in upTracks /\ writer[l] = Idle
        /\ writer' = [writer EXCEPT ![l] = new] /\ locks' = [locks EXCEPT ![l] = l]
        /\ UNCHANGED <<upTracks, downTracks, trackVars, handler>>
    BY DEF ReadPacket
  <1>3. new \in WriterStates
    BY <1>1, WriterMade, OnList, LayersAre
  <1>4. new # Idle /\ new.step = "write" /\ new.todo = downTracks[l]
    BY DEF Idle
  <1> HIDE DEF new
  <1>5. /\ writer'[l] = new /\ locks'[l] = l
        /\ \A k \in Layers \ {l} : writer'[k] = writer[k] /\ locks'[k] = locks[k]
    BY <1>1, <1>2 DEF TypeOK
  <1>6. TypeOK'
    BY <1>1, <1>2, <1>3 DEF TypeOK, trackVars
  <1>7. WriterOK(l)'
    BY <1>2, <1>4, <1>5 DEF WriterOK, InList, Idle
  <1>8. QED
    BY <1>2, <1>5, <1>6, <1>7, WriterMoves DEF Idle

LEMMA EndOfListPreserves ==
  ASSUME IInv, NEW l \in Layers, EndOfList(l)
  PROVE  IInv'
  <1>1. TypeOK /\ WriterOK(l) /\ ListOK(l)
    BY DEF IInv
  <1>2. /\ writer[l].step = "write"
        /\ writer' = [writer EXCEPT ![l] = Idle] /\ locks' = [locks EXCEPT ![l] = None]
        /\ UNCHANGED <<upTracks, downTracks, trackVars, handler>>
    BY DEF EndOfList
  <1>3. Idle \in WriterStates
    BY DEF WriterStates
  <1>4. /\ writer'[l] = Idle /\ locks'[l] = None
        /\ \A k \in Layers \ {l} : writer'[k] = writer[k] /\ locks'[k] = locks[k]
    BY <1>1, <1>2 DEF TypeOK
  <1>5. TypeOK'
    BY <1>1, <1>2, <1>3 DEF TypeOK, trackVars
  <1>6. WriterOK(l)'
    BY <1>4 DEF WriterOK, Idle
  <1>7. l \in upTracks
    BY <1>1, <1>2 DEF ListOK, Idle
  <1>8. QED
    BY <1>2, <1>4, <1>5, <1>6, <1>7, WriterMoves

LEMMA WritePacketPreserves ==
  ASSUME IInv, NEW l \in Layers, WritePacket(l)
  PROVE  IInv'
  <1>1. TypeOK /\ WriterOK(l) /\ ListOK(l)
    BY DEF IInv
  <1>2. /\ writer[l].step = "write" /\ writer[l].todo # <<>>
        /\ writer' = [writer EXCEPT ![l] = NextDownTrack(l)]
        /\ UNCHANGED <<upTracks, downTracks, locks, trackVars, handler>>
    BY DEF WritePacket, receiverVars
  <1>3. writer[l] # Idle
    BY <1>2 DEF Idle
  <1>4. /\ NextDownTrack(l) \in WriterStates
        /\ NextDownTrack(l).step = "write" /\ NextDownTrack(l).todo = Tail(writer[l].todo)
        /\ NextDownTrack(l) # Idle
    BY <1>1, <1>2, <1>3, WriterMade, WriterTypes, AtIsListed, LayersAre DEF NextDownTrack, Idle
  <1>5. /\ writer'[l] = NextDownTrack(l)
        /\ \A k \in Layers \ {l} : writer'[k] = writer[k] /\ locks'[k] = locks[k]
    BY <1>1, <1>2 DEF TypeOK
  <1>6. TypeOK'
    BY <1>1, <1>2, <1>4 DEF TypeOK, trackVars
  <1>7. WriterOK(l)'
    <2>1. \A i \in DOMAIN writer'[l].todo : (InList(writer[l].todo[i], l))'
      <3>1. \A i \in DOMAIN Tail(writer[l].todo) : InList(Tail(writer[l].todo)[i], l)
        BY <1>1, <1>2, <1>3, AtIsListed
      <3>2. writer'[l].todo = Tail(writer[l].todo) /\ downTracks' = downTracks
        BY <1>2, <1>4, <1>5
      <3>3. QED
        BY <3>1, <3>2 DEF InList
    <2>2. locks'[l] = l
      BY <1>1, <1>2, <1>3 DEF WriterOK
    <2>3. QED
      BY <1>4, <1>5, <2>1, <2>2 DEF WriterOK, Idle
  <1>8. l \in upTracks
    BY <1>1, <1>2 DEF ListOK, Idle
  <1>9. QED
    BY <1>2, <1>5, <1>6, <1>7, <1>8, WriterMoves

\* The key frame that is resumed on is the first one, or the first of the target layer.
LEMMA ResumePreserves ==
  ASSUME IInv, NEW l \in Layers, Resume(l)
  PROVE  IInv'
  <1>1. TypeOK /\ WriterOK(l) /\ ListOK(l) /\ \A t \in Subs : TrackOK(t)
    BY DEF IInv
  <1>2. writer[l] # Idle /\ writer[l].todo # <<>>
    BY DEF Resume, Idle
  <1>3. PICK s \in Subs : s = At(l) /\ l \in Lists(s)
    BY <1>1, <1>2, AtIsListed
  <1> DEFINE layer == spatialLayer[s]
             new == [step |-> IF layer.current # layer.target THEN "delete" ELSE "store",
                     key |-> writer[l].key, todo |-> writer[l].todo,
                     current |-> layer.current, target |-> layer.target]
  <1>4. /\ writer[l].step = "write" /\ ~Passes(s, l)
        /\ writer' = [writer EXCEPT ![l] = new]
        /\ UNCHANGED <<upTracks, downTracks, locks, trackVars, handler>>
    BY <1>3 DEF Resume, receiverVars
  <1>5. stage[s] = "bound" /\ writer[l].key = TRUE /\ ~Synced(s, l) /\ ~Unexpected(s, l)
    BY <1>1, <1>4, <1>2, WriterTypes DEF Passes
  <1>6. layer.current \in Layers /\ layer.target \in Layers
    BY <1>1, <1>3 DEF TypeOK
  <1>7. /\ new \in WriterStates /\ new # Idle
        /\ new.step = IF layer.current # layer.target THEN "delete" ELSE "store"
        /\ new.todo = writer[l].todo /\ new.current = layer.current /\ new.target = layer.target
    <2>1. writer[l].todo \in Seq(Subs)
      BY <1>1, <1>2, WriterTypes
    <2>2. new \in WriterStates
      BY <1>2, <1>5, <1>6, <2>1, WriterMade
    <2>3. QED
      BY <2>2 DEF Idle
  <1> HIDE DEF new
  <1>8. /\ writer'[l] = new
        /\ \A k \in Layers \ {l} : writer'[k] = writer[k] /\ locks'[k] = locks[k]
    BY <1>1, <1>4 DEF TypeOK
  <1>9. TypeOK'
    BY <1>1, <1>4, <1>7 DEF TypeOK, trackVars
  <1>10. \/ WaitsOn(s, l)
         \/ l = 1 /\ GoesUp(s)
    <2>1. lastSSRC[s] # None => ~reSync[s]
      BY <1>1, <1>3 DEF TrackOK
    <2>2. ~New(s)
      BY <1>5 DEF New
    <2>3. ~Stays(s)
      BY <1>3, <1>5, <2>1, SwitchAssumption DEF Stays, Synced
    <2>4. ~AtZero(s)
      <3>1. SUFFICES ASSUME AtZero(s) PROVE FALSE
        OBVIOUS
      <3>2. lastSSRC[s] = 0 /\ layer.current = layer.target /\ 0 # None
        BY <3>1, SwitchAssumption DEF AtZero, IsAt
      <3>3. QED
        BY <1>5, <2>1, <3>2 DEF Synced, Unexpected
    <2>5. ~HasLeft(s)
      <3>1. SUFFICES ASSUME HasLeft(s) PROVE FALSE
        OBVIOUS
      <3>2. l = 1 /\ writer[1].step = "store"
        BY <1>3, <3>1 DEF HasLeft, Moving
      <3>3. QED
        BY <1>4, <3>2
    <2>6. GoesUp(s) => l = 1
      BY <1>3, <1>5, <2>1, SwitchAssumption DEF GoesUp, Synced
    <2>7. (\E k \in Layers : WaitsOn(s, k)) => WaitsOn(s, l)
      BY <1>3 DEF WaitsOn
    <2>8. QED
      BY <1>1, <1>3, <2>2, <2>3, <2>4, <2>5, <2>6, <2>7 DEF TrackOK
  <1>11. At(l)' = s
    BY <1>3, <1>7, <1>8 DEF At
  <1>12. Lists(s)' = Lists(s) /\ stage' = stage /\ spatialLayer' = spatialLayer /\ lastSSRC' = lastSSRC /\ handler' = handler
    BY <1>4, <1>3, SameLists DEF trackVars
  <1>13. (WaitsOn(s, l) => WaitsOn(s, l)') /\ (GoesUp(s) => GoesUp(s)')
    BY <1>12 DEF WaitsOn, GoesUp, IsAt, Idle
  <1>14. WriterOK(l)'
    <2>1. \A i \in DOMAIN writer'[l].todo : (InList(writer[l].todo[i], l))'
      BY <1>1, <1>4, <1>2, <1>7, <1>8 DEF InList, WriterOK
    <2>2. locks'[l] = l
      BY <1>1, <1>4, <1>2 DEF WriterOK
    <2>3. CASE WaitsOn(s, l)
      <3>1. layer.current = l /\ layer.target = l
        BY <2>3 DEF WaitsOn, IsAt
      <3>2. QED
        BY <1>2, <1>4, <1>5, <1>7, <1>8, <1>11, <1>12, <1>13, <2>1, <2>2, <2>3, <3>1 DEF WriterOK, Idle
    <2>4. CASE l = 1 /\ GoesUp(s)
      <3>1. layer.current = 0 /\ layer.target = 1
        BY <2>4 DEF GoesUp, IsAt
      <3>2. QED
        BY <1>2, <1>4, <1>5, <1>7, <1>8, <1>11, <1>12, <1>13, <2>1, <2>2, <2>4, <3>1 DEF WriterOK, Idle
    <2>5. QED
      BY <1>10, <2>3, <2>4
  <1>15. l \in upTracks
    BY <1>1, <1>4 DEF ListOK, Idle
  <1>16. QED
    BY <1>4, <1>8, <1>9, <1>14, <1>15, WriterMoves

\* The writer of layer 1 takes the down track off layer 0, whose writer is idle.
LEMMA DeleteDownTrackPreserves ==
  ASSUME IInv, NEW l \in Layers, DeleteDownTrack(l)
  PROVE  IInv'
  <1>1. TypeOK /\ (\A t \in Subs : TrackOK(t)) /\ \A k \in Layers : WriterOK(k) /\ ListOK(k)
    BY DEF IInv
  <1>2. writer[l].step = "delete" /\ writer[l] # Idle /\ writer[l].todo # <<>>
    BY <1>1, WriterTypes DEF DeleteDownTrack, Idle
  <1>3. PICK s \in Subs : s = At(l)
    BY <1>1, <1>2, AtIsListed
  <1>4. l = 1 /\ Leaves(1) = 0 /\ writer[1].target = 1 /\ GoesUp(s) /\ stage[s] \in {"bound", "unbound"}
    BY <1>1, <1>2, <1>3 DEF WriterOK, Leaves
  <1> DEFINE new == [writer[1] EXCEPT !.step = "store"]
  <1>5. /\ locks[0] = None
        /\ downTracks' = [downTracks EXCEPT ![0] = Without(downTracks[0], s)]
        /\ writer' = [writer EXCEPT ![1] = new]
        /\ UNCHANGED <<upTracks, locks, stage, spatialLayer, reSync, lastSSRC, handler>>
    BY <1>3, <1>4 DEF DeleteDownTrack, trackVars
  <1>6. /\ new \in WriterStates /\ new # Idle /\ new.step = "store"
        /\ new.todo = writer[1].todo /\ new.target = 1
    <2>1. writer[1] \in [step : {"delete", "store"}, key : {TRUE}, todo : Seq(Subs) \ {<<>>},
                         current : Layers, target : Layers]
      BY <1>1, <1>2, <1>4 DEF TypeOK, WriterStates, Idle
    <2>2. /\ new \in [step : {"delete", "store"}, key : {TRUE}, todo : Seq(Subs) \ {<<>>},
                      current : Layers, target : Layers]
          /\ new.step = "store" /\ new.todo = writer[1].todo /\ new.target = writer[1].target
      BY <2>1
    <2>3. QED
      BY <1>4, <2>2 DEF WriterStates, Idle
  <1> HIDE DEF new
  <1>7. writer[0] = Idle
    BY <1>1, <1>5, LayersAre, SwitchAssumption DEF WriterOK
  <1>8. /\ writer'[1] = new
        /\ \A k \in Layers \ {1} : writer'[k] = writer[k]
        /\ downTracks'[0] = Without(downTracks[0], s)
        /\ \A k \in Layers \ {0} : downTracks'[k] = downTracks[k]
    BY <1>1, <1>5, LayersAre DEF TypeOK
  <1>9. /\ Without(downTracks[0], s) \in Seq(Subs)
        /\ \A t \in Subs : Occurs(t, Without(downTracks[0], s)) <=> InList(t, 0) /\ t # s
        /\ Once(Without(downTracks[0], s))
    BY <1>1, LayersAre, OnList, WithoutOccurs
  <1>10. TypeOK'
    BY <1>1, <1>5, <1>6, <1>9 DEF TypeOK
  <1>11. /\ \A t \in Subs : InList(t, 0)' <=> InList(t, 0) /\ t # s
         /\ \A t \in Subs, k \in Layers \ {0} : InList(t, k)' <=> InList(t, k)
    BY <1>8, <1>9 DEF InList, Occurs
  <1>12. ASSUME NEW t \in Subs, t # s PROVE Lists(t)' = Lists(t)
    BY <1>11, <1>12 DEF Lists
  <1>13. Lists(s)' = {1}
    BY <1>4, <1>11, LayersAre DEF GoesUp, Lists
  <1>14. At(1)' = s
    BY <1>3, <1>4, <1>6, <1>8 DEF At
  <1>15. HasLeft(s)'
    <2>1. Moving(s, 1)'
      BY <1>6, <1>8, <1>14 DEF Moving
    <2>2. QED
      BY <1>4, <1>5, <1>13, <2>1 DEF HasLeft, GoesUp, IsAt, Idle
  <1>16. ASSUME NEW t \in Subs, t # s
         PROVE  /\ ~HasLeft(t)
                /\ \A k \in Layers : WaitsOn(t, k) => WaitsOn(t, k)'
    <2>1. ~Moving(t, 1)
      BY <1>2, <1>4 DEF Moving
    <2>2. QED
      BY <1>5, <1>12, <1>16, <2>1, TrackKept DEF HasLeft
  <1>17. ASSUME NEW t \in Subs PROVE TrackOK(t)'
    <2>1. CASE t = s
      <3>1. lastSSRC'[s] # None => stage'[s] \in {"bound", "unbound"} /\ ~reSync'[s]
        BY <1>1, <1>5 DEF TrackOK
      <3>2. QED
        BY <1>15, <2>1, <3>1 DEF TrackOK
    <2>2. CASE t # s
      <3>1. ~Moving(t, 1)
        BY <1>2, <1>4 DEF Moving
      <3>2. QED
        BY <1>1, <1>5, <1>12, <2>2, <3>1, TrackKept
    <2>3. QED
      BY <2>1, <2>2
  <1>18. WriterOK(1)'
    <2>1. \A i \in DOMAIN writer'[1].todo : (InList(writer[1].todo[i], 1))'
      <3>1. \A i \in DOMAIN writer[1].todo : InList(writer[1].todo[i], 1)
        BY <1>1, <1>2, <1>4 DEF WriterOK
      <3>2. writer'[1].todo = writer[1].todo /\ downTracks'[1] = downTracks[1]
        BY <1>6, <1>8, LayersAre
      <3>3. QED
        BY <3>1, <3>2 DEF InList
    <2>2. locks'[1] = 1
      BY <1>1, <1>2, <1>4, <1>5 DEF WriterOK
    <2>3. QED
      BY <1>2, <1>4, <1>5, <1>6, <1>8, <1>14, <1>15, <2>1, <2>2 DEF WriterOK, Idle
  <1>19. ASSUME NEW k \in Layers, k # 1 PROVE WriterOK(k)'
    <2>1. CASE k = 0
      BY <1>1, <1>5, <1>7, <1>8, <2>1 DEF WriterOK, Idle
    <2>2. CASE k # 0
      <3>1. \A t \in Subs : At(k) = t /\ writer[k].step \in {"delete", "store"} => WaitsOn(t, k) /\ t # s
        BY <1>1, <1>4, <1>19, SwitchAssumption DEF WriterOK, WaitsOn, GoesUp
      <3>2. \A t \in Subs : At(k) = t /\ writer[k].step \in {"delete", "store"} =>
               ~GoesUp(t) /\ WaitsOn(t, k)'
        BY <1>16, <3>1 DEF WaitsOn, GoesUp
      <3>3. QED
        BY <1>1, <1>5, <1>8, <1>11, <1>19, <2>2, <3>2, WriterKept
    <2>3. QED
      BY <2>1, <2>2
  <1>20. ASSUME NEW k \in Layers PROVE ListOK(k)'
    <2>1. CASE k = 0
      <3>1. 0 \notin upTracks' => downTracks'[0] = <<>>
        <4>1. 0 \in upTracks
          BY <1>1, <1>4, LayersAre DEF ListOK, GoesUp, Lists, InList
        <4>2. QED
          BY <1>5, <4>1
      <3>2. QED
        BY <1>7, <1>8, <1>9, <2>1, <3>1, LayersAre DEF ListOK, Once
    <2>2. CASE k # 0
      <3>1. 1 \in upTracks
        BY <1>1, <1>2, <1>4 DEF ListOK
      <3>2. downTracks'[k] = downTracks[k] /\ upTracks' = upTracks
        BY <1>5, <1>8, <2>2
      <3>3. k # 1 => writer'[k] = writer[k]
        BY <1>8
      <3>4. QED
        BY <1>1, <3>1, <3>2, <3>3 DEF ListOK, Idle
    <2>3. QED
      BY <2>1, <2>2
  <1>21. QED
    BY <1>10, <1>17, <1>18, <1>19, <1>20 DEF IInv

\* The switch is stored: the down track has its first source, or its new one.
LEMMA StoreLayerPreserves ==
  ASSUME IInv, NEW l \in Layers, StoreLayer(l)
  PROVE  IInv'
  <1>1. TypeOK /\ (\A t \in Subs : TrackOK(t)) /\ \A k \in Layers : WriterOK(k) /\ ListOK(k)
    BY DEF IInv
  <1>2. writer[l].step = "store" /\ writer[l] # Idle /\ writer[l].todo # <<>>
    BY <1>1, WriterTypes DEF StoreLayer, Idle
  <1>3. PICK s \in Subs : s = At(l)
    BY <1>1, <1>2, AtIsListed
  <1>4. /\ writer[l].target = l /\ stage[s] \in {"bound", "unbound"}
        /\ WaitsOn(s, l) \/ (l = 1 /\ HasLeft(s))
    BY <1>1, <1>2, <1>3 DEF WriterOK
  <1> DEFINE layer == [current |-> l, target |-> 0]
  <1>5. /\ spatialLayer' = [spatialLayer EXCEPT ![s] = layer]
        /\ reSync' = [reSync EXCEPT ![s] = FALSE]
        /\ lastSSRC' = [lastSSRC EXCEPT ![s] = l]
        /\ writer' = [writer EXCEPT ![l] = NextDownTrack(l)]
        /\ UNCHANGED <<upTracks, downTracks, locks, stage, handler>>
    BY <1>3, <1>4 DEF StoreLayer, receiverVars
  <1>6. layer \in [current : Layers, target : Layers]
    BY LayersAre
  <1>7. /\ NextDownTrack(l) \in WriterStates
        /\ NextDownTrack(l).step = "write" /\ NextDownTrack(l).todo = Tail(writer[l].todo)
        /\ NextDownTrack(l) # Idle
    BY <1>1, <1>2, WriterMade, WriterTypes, AtIsListed, LayersAre DEF NextDownTrack, Idle
  <1>8. /\ spatialLayer'[s] = [current |-> l, target |-> 0] /\ ~reSync'[s] /\ lastSSRC'[s] = l
        /\ \A t \in Subs \ {s} : /\ spatialLayer'[t] = spatialLayer[t]
                                 /\ reSync'[t] = reSync[t] /\ lastSSRC'[t] = lastSSRC[t]
        /\ writer'[l] = NextDownTrack(l)
        /\ \A k \in Layers \ {l} : writer'[k] = writer[k]
    BY <1>1, <1>5 DEF TypeOK
  <1>9. TypeOK'
    <2> HIDE DEF layer
    <2>1. QED
      BY <1>1, <1>5, <1>6, <1>7 DEF TypeOK
  <1>10. Lists(s) = {l} /\ handler[s] = Idle
    BY <1>4 DEF WaitsOn, HasLeft
  <1>11. ASSUME NEW t \in Subs, t # s PROVE Moving(t, 1) => Moving(t, 1)'
    BY <1>3, <1>8, <1>11, LayersAre DEF Moving, At
  <1>12. ASSUME NEW t \in Subs PROVE TrackOK(t)'
    <2>1. CASE t = s
      <3>1. Lists(s)' = {l} /\ handler'[s] = Idle /\ IsAt(s, l, 0)'
        BY <1>5, <1>8, <1>10, SameLists DEF IsAt
      <3>2. CASE l = 0
        <4>1. AtZero(s)'
          BY <1>8, <3>1, <3>2 DEF AtZero, Idle
        <4>2. QED
          BY <1>4, <1>5, <1>8, <2>1, <4>1 DEF TrackOK
      <3>3. CASE l # 0
        <4>1. Stays(s)'
          BY <1>8, <3>1, <3>3, LayersAre DEF Stays, Idle
        <4>2. QED
          BY <1>4, <1>5, <1>8, <2>1, <4>1 DEF TrackOK
      <3>4. QED
        BY <3>2, <3>3
    <2>2. CASE t # s
      <3>1. Lists(t)' = Lists(t)
        BY <1>5, SameLists
      <3>2. QED
        BY <1>1, <1>5, <1>8, <1>11, <2>2, <3>1, TrackKept
    <2>3. QED
      BY <2>1, <2>2
  <1>13. WriterOK(l)'
    <2>1. \A i \in DOMAIN writer'[l].todo : (InList(writer[l].todo[i], l))'
      <3>1. \A i \in DOMAIN Tail(writer[l].todo) : InList(Tail(writer[l].todo)[i], l)
        BY <1>1, <1>2, AtIsListed
      <3>2. writer'[l].todo = Tail(writer[l].todo) /\ downTracks' = downTracks
        BY <1>5, <1>7, <1>8
      <3>3. QED
        BY <3>1, <3>2 DEF InList
    <2>2. locks'[l] = l
      BY <1>1, <1>2, <1>5 DEF WriterOK
    <2>3. QED
      BY <1>7, <1>8, <2>1, <2>2 DEF WriterOK, Idle
  <1>14. ASSUME NEW k \in Layers, k # l PROVE WriterOK(k)'
    <2>1. ASSUME writer[k].step \in {"delete", "store"} PROVE At(k) # s
      <3>1. At(k) = s => \/ k = 1 /\ GoesUp(s)
                         \/ WaitsOn(s, k)
                         \/ k = 1 /\ HasLeft(s)
        BY <1>1, <2>1 DEF WriterOK
      <3>2. QED
        BY <1>10, <1>14, <3>1 DEF GoesUp, WaitsOn, HasLeft
    <2>2. ASSUME NEW t \in Subs, t # s
          PROVE  /\ GoesUp(t) => GoesUp(t)'
                 /\ WaitsOn(t, k) => WaitsOn(t, k)'
                 /\ HasLeft(t) => HasLeft(t)'
      <3>1. Lists(t)' = Lists(t)
        BY <1>5, SameLists
      <3>2. QED
        BY <1>5, <1>8, <1>11, <2>2, <3>1, TrackKept DEF HasLeft
    <2>3. QED
      BY <1>1, <1>5, <1>8, <1>14, <2>1, <2>2, SameLists, WriterKept
  <1>15. ASSUME NEW k \in Layers PROVE ListOK(k)'
    <2>1. l \in upTracks
      BY <1>1, <1>2 DEF ListOK
    <2>2. QED
      BY <1>1, <1>5, <1>8, <2>1 DEF ListOK, Idle
  <1>16. QED
    BY <1>9, <1>12, <1>13, <1>14, <1>15 DEF IInv

\* A down track is put on the list of one more layer, by AddDownTrack or SubDownTrack.
LEMMA ListAppended ==
  ASSUME TypeOK, NEW s \in Subs, NEW l \in Layers, ~InList(s, l), ListOK(l),
         downTracks' = [downTracks EXCEPT ![l] = Append(@, s)]
  PROVE  /\ downTracks' \in [Layers -> Seq(Subs)]
         /\ Once(downTracks'[l])
         /\ \A k \in Layers \ {l} : downTracks'[k] = downTracks[k]
         /\ \A t \in Subs, k \in Layers : InList(t, k)' <=> InList(t, k) \/ (t = s /\ k = l)
         /\ Lists(s)' = Lists(s) \cup {l}
         /\ \A t \in Subs \ {s} : Lists(t)' = Lists(t)
  <1>1. /\ downTracks' = [downTracks EXCEPT ![l] = Append(downTracks[l], s)]
        /\ downTracks \in [Layers -> Seq(Subs)]
    BY DEF TypeOK
  <1>2. /\ Append(downTracks[l], s) \in Seq(Subs)
        /\ \A t \in Subs : Occurs(t, Append(downTracks[l], s)) <=> InList(t, l) \/ t = s
        /\ Once(Append(downTracks[l], s))
    BY OnList, AppendOccurs
  <1>3. /\ downTracks' \in [Layers -> Seq(Subs)]
        /\ downTracks'[l] = Append(downTracks[l], s)
        /\ \A k \in Layers \ {l} : downTracks'[k] = downTracks[k]
    BY <1>1, <1>2
  <1>4. \A t \in Subs, k \in Layers : InList(t, k)' <=> InList(t, k) \/ (t = s /\ k = l)
    BY <1>2, <1>3 DEF InList, Occurs
  <1>5. QED
    BY <1>2, <1>3, <1>4 DEF Lists

\* The initial layer is one that is there.
LEMMA InitialLayerIsThere ==
  ASSUME TypeOK, upTracks # {}
  PROVE  InitialLayer \in upTracks
  <1>1. upTracks \subseteq {0, 1, 2}
    BY LayersAre DEF TypeOK
  <1>2. CASE BestQualityFirst
    <2>1. \E l \in upTracks : \A k \in upTracks : k <= l
      <3>1. CASE 2 \in upTracks
        BY <1>1, <3>1
      <3>2. CASE 2 \notin upTracks /\ 1 \in upTracks
        BY <1>1, <3>2
      <3>3. CASE upTracks = {0}
        BY <3>3
      <3>4. QED
        BY <1>1, <3>1, <3>2, <3>3
    <2>2. QED
      BY <1>2, <2>1 DEF InitialLayer
  <1>3. CASE ~BestQualityFirst
    <2>1. \E l \in upTracks : \A k \in upTracks : l <= k
      <3>1. CASE 0 \in upTracks
        BY <1>1, <3>1
      <3>2. CASE 0 \notin upTracks /\ 1 \in upTracks
        BY <1>1, <3>2
      <3>3. CASE upTracks = {2}
        BY <3>3
      <3>4. QED
        BY <1>1, <3>1, <3>2, <3>3
    <2>2. QED
      BY <1>3, <2>1 DEF InitialLayer
  <1>4. QED
    BY <1>2, <1>3

\* A new down track waits on its initial layer.
LEMMA AddDownTrackPreserves ==
  ASSUME IInv, NEW s \in Subs, AddDownTrack(s)
  PROVE  IInv'
  <1>1. TypeOK /\ (\A t \in Subs : TrackOK(t)) /\ \A k \in Layers : WriterOK(k) /\ ListOK(k)
    BY DEF IInv
  <1>2. InitialLayer \in upTracks /\ InitialLayer \in Layers
    BY <1>1, InitialLayerIsThere DEF AddDownTrack, TypeOK
  <1>3. PICK l \in Layers : l = InitialLayer /\ l \in upTracks
    BY <1>2
  <1> DEFINE layer == [current |-> l, target |-> l]
  <1>4. /\ stage[s] = "new" /\ locks[l] = None
        /\ downTracks' = [downTracks EXCEPT ![l] = Append(@, s)]
        /\ spatialLayer' = [spatialLayer EXCEPT ![s] = layer]
        /\ stage' = [stage EXCEPT ![s] = "added"]
        /\ UNCHANGED <<upTracks, locks, writer, reSync, lastSSRC, handler>>
    BY <1>3 DEF AddDownTrack
  <1>5. New(s)
    BY <1>1, <1>4, SwitchAssumption DEF TrackOK, WaitsOn, AtZero, GoesUp, HasLeft, Stays
  <1>6. ~InList(s, l)
    BY <1>5 DEF New, Lists
  <1>7. writer[l] = Idle
    BY <1>1, <1>4, SwitchAssumption DEF WriterOK, Layers
  <1>8. /\ spatialLayer'[s] = layer /\ stage'[s] = "added"
        /\ \A t \in Subs \ {s} : spatialLayer'[t] = spatialLayer[t] /\ stage'[t] = stage[t]
    BY <1>1, <1>4 DEF TypeOK
  <1>9. layer \in [current : Layers, target : Layers]
    OBVIOUS
  <1>10. /\ downTracks' \in [Layers -> Seq(Subs)]
         /\ Once(downTracks'[l])
         /\ \A k \in Layers \ {l} : downTracks'[k] = downTracks[k]
         /\ \A t \in Subs, k \in Layers : InList(t, k) => InList(t, k)'
         /\ Lists(s)' = Lists(s) \cup {l}
         /\ \A t \in Subs \ {s} : Lists(t)' = Lists(t)
    BY <1>1, <1>4, <1>6, ListAppended
  <1>11. TypeOK'
    <2> HIDE DEF layer
    <2>1. QED
      BY <1>1, <1>4, <1>9, <1>10 DEF TypeOK
  <1>12. ASSUME NEW t \in Subs PROVE TrackOK(t)'
    <2>1. CASE t = s
      <3>1. WaitsOn(s, l)'
        BY <1>4, <1>5, <1>8, <1>10 DEF WaitsOn, New, IsAt, Idle
      <3>2. QED
        BY <1>4, <1>5, <2>1, <3>1 DEF TrackOK, New
    <2>2. CASE t # s
      BY <1>1, <1>4, <1>8, <1>10, <2>2, TrackKept DEF Moving, At
    <2>3. QED
      BY <2>1, <2>2
  <1>13. ASSUME NEW k \in Layers PROVE WriterOK(k)'
    <2>1. CASE writer[k].step \in {"delete", "store"}
      <3>1. At(k) # s
        BY <1>1, <1>4, <2>1 DEF WriterOK
      <3>2. ASSUME NEW t \in Subs, t # s
            PROVE  /\ GoesUp(t) => GoesUp(t)'
                   /\ WaitsOn(t, k) => WaitsOn(t, k)'
                   /\ HasLeft(t) => HasLeft(t)'
        BY <1>4, <1>8, <1>10, <3>2, TrackKept DEF Moving, At, HasLeft
      <3>3. QED
        BY <1>1, <1>4, <1>8, <1>10, <3>1, <3>2, WriterKept
    <2>2. CASE writer[k].step \notin {"delete", "store"}
      BY <1>1, <1>4, <1>8, <1>10, <2>2, WriterKept
    <2>3. QED
      BY <2>1, <2>2
  <1>14. ASSUME NEW k \in Layers PROVE ListOK(k)'
    <2>1. CASE k = l
      BY <1>3, <1>4, <1>10, <2>1 DEF ListOK, Once
    <2>2. CASE k # l
      BY <1>1, <1>4, <1>10, <2>2 DEF ListOK, Idle
    <2>3. QED
      BY <2>1, <2>2
  <1>15. QED
    BY <1>11, <1>12, <1>13, <1>14 DEF IInv

\* The situations in which the handler of s is at a step, or takes up a report.
LEMMA HandlerAt ==
  ASSUME NEW s \in Subs, TrackOK(s)
  PROVE  /\ handler[s].step = "sub" =>
               /\ AtZero(s) /\ Lists(s) = {0}
               /\ handler[s] = [step |-> "sub", current |-> 0, target |-> 1]
         /\ handler[s].step = "store" =>
               /\ AtZero(s) /\ Lists(s) = {0, 1}
               /\ handler[s] = [step |-> "store", current |-> 0, target |-> 1]
         /\ handler[s] = Idle /\ lastSSRC[s] # None /\ Settled(s) =>
               AtZero(s) /\ Lists(s) = {0} /\ spatialLayer[s].current = 0
  <1>1. handler[s].step \in {"sub", "store"} => AtZero(s)
    BY DEF TrackOK, New, WaitsOn, GoesUp, HasLeft, Stays, Idle
  <1>2. lastSSRC[s] # None /\ Settled(s) => AtZero(s)
    <2>1. GoesUp(s) \/ HasLeft(s) => ~Settled(s)
      BY DEF GoesUp, HasLeft, Settled, IsAt
    <2>2. Stays(s) => ~Settled(s)
      BY DEF Stays, Settled, IsAt
    <2>3. New(s) \/ (\E l \in Layers : WaitsOn(s, l)) => lastSSRC[s] = None
      BY DEF New, WaitsOn
    <2>4. QED
      BY <2>1, <2>2, <2>3 DEF TrackOK
  <1>3. AtZero(s) => spatialLayer[s].current = 0
    BY DEF AtZero, IsAt
  <1>4. QED
    BY <1>1, <1>2, <1>3 DEF AtZero, Idle

\* A step of the handler of s that leaves the lists and the word alone.
LEMMA HandlerMoves ==
  ASSUME IInv, NEW s \in Subs, AtZero(s), AtZero(s)', handler' \in [Subs -> HandlerStates],
         \A t \in Subs \ {s} : handler'[t] = handler[t],
         UNCHANGED <<receiverVars, writer, trackVars>>
  PROVE  IInv'
  <1>1. TypeOK /\ (\A t \in Subs : TrackOK(t)) /\ \A k \in Layers : WriterOK(k) /\ ListOK(k)
    BY DEF IInv
  <1>2. UNCHANGED <<upTracks, downTracks, locks, writer, stage, spatialLayer, reSync, lastSSRC>>
    BY DEF receiverVars, trackVars
  <1>3. TypeOK'
    BY <1>1, <1>2 DEF TypeOK
  <1>4. ASSUME NEW t \in Subs PROVE TrackOK(t)'
    <2>1. CASE t = s
      BY <1>1, <1>2, <2>1 DEF TrackOK
    <2>2. CASE t # s
      BY <1>1, <1>2, <2>2, SameLists, TrackKept DEF Moving, At
    <2>3. QED
      BY <2>1, <2>2
  <1>5. ASSUME NEW k \in Layers PROVE WriterOK(k)'
    <2>1. ~GoesUp(s) /\ ~WaitsOn(s, k) /\ ~HasLeft(s)
      BY SwitchAssumption DEF AtZero, GoesUp, WaitsOn, HasLeft, IsAt
    <2>2. ASSUME NEW t \in Subs, t # s
          PROVE  /\ GoesUp(t) => GoesUp(t)'
                 /\ WaitsOn(t, k) => WaitsOn(t, k)'
                 /\ HasLeft(t) => HasLeft(t)'
      BY <1>2, <2>2, SameLists, TrackKept DEF Moving, At, HasLeft
    <2>3. QED
      BY <1>1, <1>2, <2>1, <2>2, SameLists, WriterKept
  <1>6. ASSUME NEW k \in Layers PROVE ListOK(k)'
    BY <1>1, <1>2 DEF ListOK, Idle
  <1>7. QED
    BY <1>3, <1>4, <1>5, <1>6 DEF IInv

\* A switch begins only from layer 0, where it can only go up.
LEMMA ChangeLayerPreserves ==
  ASSUME ~EarlyReports, IInv, NEW s \in Subs, NEW l \in Layers, ChangeLayer(s, l)
  PROVE  IInv'
  <1>1. TypeOK /\ TrackOK(s)
    BY DEF IInv
  <1>2. AtZero(s) /\ Lists(s) = {0} /\ spatialLayer[s].current = 0
    BY <1>1, HandlerAt DEF ChangeLayer
  <1>3. l = 1
    BY <1>2, LayersAre DEF ChangeLayer, Choices
  <1> DEFINE new == [step |-> "sub", current |-> 0, target |-> 1]
  <1>4. handler' = [handler EXCEPT ![s] = new] /\ UNCHANGED <<receiverVars, writer, trackVars>>
    BY <1>2, <1>3 DEF ChangeLayer
  <1>5. new \in HandlerStates
    BY LayersAre DEF HandlerStates
  <1>6. /\ handler'[s] = new /\ handler' \in [Subs -> HandlerStates]
        /\ \A t \in Subs \ {s} : handler'[t] = handler[t]
    <2> HIDE DEF new
    <2>1. QED
      BY <1>1, <1>4, <1>5 DEF TypeOK
  <1>7. Lists(s)' = {0} /\ IsAt(s, 0, 0)' /\ lastSSRC'[s] = 0
    BY <1>2, <1>4, SameLists DEF receiverVars, trackVars, AtZero, IsAt
  <1>8. AtZero(s)'
    BY <1>6, <1>7 DEF AtZero
  <1>9. QED
    BY <1>2, <1>4, <1>6, <1>8, HandlerMoves

\* The first half of a switch: on the target layer's list too, if it is there.
LEMMA SubDownTrackPreserves ==
  ASSUME IInv, NEW s \in Subs, SubDownTrack(s)
  PROVE  IInv'
  <1>1. TypeOK /\ (\A t \in Subs : TrackOK(t)) /\ \A k \in Layers : WriterOK(k) /\ ListOK(k)
    BY DEF IInv
  <1>2. /\ AtZero(s) /\ Lists(s) = {0}
        /\ handler[s] = [step |-> "sub", current |-> 0, target |-> 1]
    BY <1>1, HandlerAt DEF SubDownTrack
  <1>3. CASE 1 \notin upTracks
    <2>1. /\ handler' = [handler EXCEPT ![s] = Idle] /\ UNCHANGED <<receiverVars, writer, trackVars>>
      BY <1>2, <1>3 DEF SubDownTrack, receiverVars
    <2>2. /\ handler'[s] = Idle /\ handler' \in [Subs -> HandlerStates]
          /\ \A t \in Subs \ {s} : handler'[t] = handler[t]
      BY <1>1, <2>1 DEF TypeOK, HandlerStates
    <2>3. Lists(s)' = {0} /\ IsAt(s, 0, 0)' /\ lastSSRC'[s] = 0
      BY <1>2, <2>1, SameLists DEF receiverVars, trackVars, AtZero, IsAt
    <2>4. AtZero(s)'
      BY <2>2, <2>3 DEF AtZero, Idle
    <2>5. QED
      BY <1>2, <2>1, <2>2, <2>4, HandlerMoves
  <1>4. CASE 1 \in upTracks
    <2> DEFINE new == [step |-> "store", current |-> 0, target |-> 1]
    <2>1. /\ locks[1] = None
          /\ handler' = [handler EXCEPT ![s] = new]
          /\ downTracks' = [downTracks EXCEPT ![1] = Append(@, s)]
          /\ UNCHANGED <<upTracks, locks, writer, stage, spatialLayer, reSync, lastSSRC>>
      BY <1>2, <1>4 DEF SubDownTrack, trackVars
    <2>2. new \in HandlerStates
      BY LayersAre DEF HandlerStates
    <2>3. /\ handler'[s] = new /\ handler' \in [Subs -> HandlerStates]
          /\ \A t \in Subs \ {s} : handler'[t] = handler[t]
      <3> HIDE DEF new
      <3>1. QED
        BY <1>1, <2>1, <2>2 DEF TypeOK
    <2>4. ~InList(s, 1) /\ 1 \in Layers
      BY <1>2, LayersAre DEF Lists
    <2>5. /\ downTracks' \in [Layers -> Seq(Subs)]
          /\ Once(downTracks'[1])
          /\ \A k \in Layers \ {1} : downTracks'[k] = downTracks[k]
          /\ \A t \in Subs, k \in Layers : InList(t, k) => InList(t, k)'
          /\ Lists(s)' = Lists(s) \cup {1}
          /\ \A t \in Subs \ {s} : Lists(t)' = Lists(t)
      BY <1>1, <2>1, <2>4, ListAppended
    <2>6. writer[1] = Idle
      BY <1>1, <2>1, <2>4, SwitchAssumption DEF WriterOK
    <2>7. TypeOK'
      BY <1>1, <2>1, <2>3, <2>5 DEF TypeOK
    <2>8. ASSUME NEW t \in Subs PROVE TrackOK(t)'
      <3>1. CASE t = s
        <4>1. Lists(s)' = {0, 1} /\ IsAt(s, 0, 0)' /\ lastSSRC'[s] = 0
          BY <1>2, <2>1, <2>5 DEF AtZero, IsAt
        <4>2. AtZero(s)'
          BY <2>3, <4>1 DEF AtZero
        <4>3. QED
          BY <1>1, <2>1, <3>1, <4>2 DEF TrackOK
      <3>2. CASE t # s
        BY <1>1, <2>1, <2>3, <2>5, <3>2, TrackKept DEF Moving, At
      <3>3. QED
        BY <3>1, <3>2
    <2>9. ASSUME NEW k \in Layers PROVE WriterOK(k)'
      <3>1. ~GoesUp(s) /\ ~WaitsOn(s, k) /\ ~HasLeft(s)
        BY <1>2, SwitchAssumption DEF AtZero, GoesUp, WaitsOn, HasLeft, IsAt
      <3>2. ASSUME NEW t \in Subs, t # s
            PROVE  /\ GoesUp(t) => GoesUp(t)'
                   /\ WaitsOn(t, k) => WaitsOn(t, k)'
                   /\ HasLeft(t) => HasLeft(t)'
        BY <2>1, <2>3, <2>5, <3>2, TrackKept DEF Moving, At, HasLeft
      <3>3. QED
        BY <1>1, <2>1, <2>5, <3>1, <3>2, WriterKept
    <2>10. ASSUME NEW k \in Layers PROVE ListOK(k)'
      <3>1. CASE k = 1
        BY <1>4, <2>1, <2>5, <3>1 DEF ListOK, Once
      <3>2. CASE k # 1
        BY <1>1, <2>1, <2>5, <3>2 DEF ListOK, Idle
      <3>3. QED
        BY <3>1, <3>2
    <2>11. QED
      BY <2>7, <2>8, <2>9, <2>10 DEF IInv
  <1>5. QED
    BY <1>3, <1>4

\* The target is noted: from now on the writer of layer 1 may complete the switch.
LEMMA StoreTargetPreserves ==
  ASSUME IInv, NEW s \in Subs, StoreTarget(s)
  PROVE  IInv'
  <1>1. TypeOK /\ (\A t \in Subs : TrackOK(t)) /\ \A k \in Layers : WriterOK(k) /\ ListOK(k)
    BY DEF IInv
  <1>2. /\ AtZero(s) /\ Lists(s) = {0, 1}
        /\ handler[s] = [step |-> "store", current |-> 0, target |-> 1]
    BY <1>1, HandlerAt DEF StoreTarget
  <1> DEFINE layer == [current |-> 0, target |-> 1]
  <1>3. /\ spatialLayer' = [spatialLayer EXCEPT ![s] = layer]
        /\ handler' = [handler EXCEPT ![s] = Idle]
        /\ UNCHANGED <<upTracks, downTracks, locks, writer, stage, reSync, lastSSRC>>
    BY <1>2 DEF StoreTarget, receiverVars
  <1>4. layer \in [current : Layers, target : Layers] /\ Idle \in HandlerStates
    BY LayersAre DEF HandlerStates
  <1>5. /\ spatialLayer'[s] = layer /\ handler'[s] = Idle
        /\ \A t \in Subs \ {s} : spatialLayer'[t] = spatialLayer[t] /\ handler'[t] = handler[t]
    BY <1>1, <1>3 DEF TypeOK
  <1>6. TypeOK'
    <2> HIDE DEF layer
    <2>1. QED
      BY <1>1, <1>3, <1>4 DEF TypeOK
  <1>7. GoesUp(s)'
    BY <1>2, <1>3, <1>5, SameLists DEF GoesUp, AtZero, IsAt, Idle
  <1>8. ASSUME NEW t \in Subs PROVE TrackOK(t)'
    <2>1. CASE t = s
      BY <1>1, <1>3, <1>7, <2>1 DEF TrackOK
    <2>2. CASE t # s
      BY <1>1, <1>3, <1>5, <2>2, SameLists, TrackKept DEF Moving, At
    <2>3. QED
      BY <2>1, <2>2
  <1>9. ASSUME NEW k \in Layers PROVE WriterOK(k)'
    <2>1. ~GoesUp(s) /\ ~WaitsOn(s, k) /\ ~HasLeft(s)
      BY <1>2, SwitchAssumption DEF AtZero, GoesUp, WaitsOn, HasLeft, IsAt
    <2>2. ASSUME NEW t \in Subs, t # s
          PROVE  /\ GoesUp(t) => GoesUp(t)'
                 /\ WaitsOn(t, k) => WaitsOn(t, k)'
                 /\ HasLeft(t) => HasLeft(t)'
      BY <1>3, <1>5, <2>2, SameLists, TrackKept DEF Moving, At, HasLeft
    <2>3. QED
      BY <1>1, <1>3, <2>1, <2>2, SameLists, WriterKept
  <1>10. ASSUME NEW k \in Layers PROVE ListOK(k)'
    BY <1>1, <1>3 DEF ListOK, Idle
  <1>11. QED
    BY <1>6, <1>8, <1>9, <1>10 DEF IInv

-----------------------------------------------------------------------------
(* The theorems.                                                           *)

\* The inductive invariant, unless reports precede the first key frame.
THEOREM Invariance == ~EarlyReports => (Spec => []IInv)
  <1> SUFFICES ASSUME ~EarlyReports PROVE Spec => []IInv
    OBVIOUS
  <1>1. Init => IInv
    BY InitIInv
  <1>2. IInv /\ [Next]_vars => IInv'
    <2> SUFFICES ASSUME IInv, [Next]_vars PROVE IInv'
      OBVIOUS
    <2>1. CASE \E l \in Layers :
                  AddUpTrack(l) \/ WriterStep(l) \/ \E k \in BOOLEAN : ReadPacket(l, k)
      BY <2>1, AddUpTrackPreserves, EndOfListPreserves, WritePacketPreserves, ResumePreserves,
         DeleteDownTrackPreserves, StoreLayerPreserves, ReadPacketPreserves DEF WriterStep
    <2>2. CASE \E s \in Subs :
                  \/ AddDownTrack(s) \/ Bind(s) \/ Unbind(s)
                  \/ HandlerStep(s) \/ \E l \in Layers : ChangeLayer(s, l)
      BY <2>2, AddDownTrackPreserves, BindPreserves, SubDownTrackPreserves, StoreTargetPreserves,
         ChangeLayerPreserves DEF HandlerStep
    <2>3. CASE UNCHANGED vars
      <3>1. UNCHANGED <<upTracks, downTracks, locks, writer, stage, spatialLayer, reSync, lastSSRC, handler>>
        BY <2>3 DEF vars, receiverVars, trackVars
      <3>2. TypeOK'
        BY <3>1 DEF IInv, TypeOK
      <3>3. ASSUME NEW s \in Subs PROVE TrackOK(s)'
        BY <3>1, SameLists, TrackKept DEF IInv, Moving, At
      <3>4. ASSUME NEW l \in Layers PROVE WriterOK(l)' /\ ListOK(l)'
        <4>1. \A s \in Subs : /\ GoesUp(s) => GoesUp(s)'
                              /\ WaitsOn(s, l) => WaitsOn(s, l)'
                              /\ HasLeft(s) => HasLeft(s)'
          BY <3>1, SameLists, TrackKept DEF Moving, At, HasLeft
        <4>2. WriterOK(l)'
          BY <3>1, <4>1, SameLists, WriterKept DEF IInv
        <4>3. ListOK(l)'
          BY <3>1 DEF IInv, ListOK
        <4>4. QED
          BY <4>2, <4>3
      <3>5. QED
        BY <3>2, <3>3, <3>4 DEF IInv
    <2>4. QED
      BY <2>1, <2>2, <2>3 DEF Next
  <1>3. QED
    BY <1>1, <1>2, PTL DEF Spec

\* NeverDetached (receiver.go DeleteDownTrack and SubDownTrack against writeRTP):
\* whatever the writers do between the two halves of a switch, a down track is on
\* its current layer's list, for any number of down tracks.
THEOREM AlwaysFed == ~EarlyReports => (Spec => []NeverDetached)
  <1>1. IInv => NeverDetached
    <2> SUFFICES ASSUME IInv, NEW s \in Subs, stage[s] # "new"
                 PROVE  \/ InList(s, spatialLayer[s].current)
                        \/ \E l \in Layers : Moving(s, l) /\ InList(s, l)
      BY DEF NeverDetached
    <2>1. TrackOK(s)
      BY DEF IInv
    <2>2. CASE HasLeft(s)
      BY <2>2, LayersAre DEF HasLeft, Lists
    <2>3. CASE \E l \in Layers : WaitsOn(s, l)
      BY <2>3 DEF WaitsOn, IsAt, Lists
    <2>4. CASE AtZero(s)
      BY <2>4 DEF AtZero, IsAt, Lists
    <2>5. CASE GoesUp(s)
      BY <2>5 DEF GoesUp, IsAt, Lists
    <2>6. CASE Stays(s)
      BY <2>6 DEF Stays, IsAt, Lists
    <2>7. QED
      BY <2>1, <2>2, <2>3, <2>4, <2>5, <2>6 DEF TrackOK, New
  <1>2. QED
    BY <1>1, Invariance, PTL

\* OneSource (downtrack.go WriteRTP): what a down track forwards is its current
\* layer, and it is on another list only while it goes there, once.
THEOREM NeverTwoSources == ~EarlyReports => (Spec => []OneSource)
  <1>1. IInv => OneSource
    <2> SUFFICES ASSUME IInv, NEW s \in Subs
        PROVE  /\ lastSSRC[s] \in {None, spatialLayer[s].current}
               /\ \A l \in Layers :
                     InList(s, l) /\ l # spatialLayer[s].current =>
                         \/ spatialLayer[s].target = l
                         \/ handler[s].step = "store" /\ handler[s].target = l
               /\ \A l \in Layers : \A i, j \in DOMAIN downTracks[l] :
                     downTracks[l][i] = s /\ downTracks[l][j] = s => i = j
      BY DEF OneSource
    <2>1. TrackOK(s)
      BY DEF IInv
    <2>2. \A l \in Layers : \A i, j \in DOMAIN downTracks[l] :
             downTracks[l][i] = s /\ downTracks[l][j] = s => i = j
      BY DEF IInv, ListOK
    <2>3. CASE New(s)
      BY <2>2, <2>3 DEF New, Lists
    <2>4. CASE \E l \in Layers : WaitsOn(s, l)
      BY <2>2, <2>4 DEF WaitsOn, IsAt, Lists
    <2>5. CASE AtZero(s)
      BY <2>2, <2>5 DEF AtZero, IsAt, Lists
    <2>6. CASE GoesUp(s)
      BY <2>2, <2>6 DEF GoesUp, IsAt, Lists
    <2>7. CASE HasLeft(s)
      BY <2>2, <2>7 DEF HasLeft, IsAt, Lists
    <2>8. CASE Stays(s)
      BY <2>2, <2>8 DEF Stays, IsAt, Lists
    <2>9. QED
      BY <2>1, <2>3, <2>4, <2>5, <2>6, <2>7, <2>8 DEF TrackOK
  <1>2. QED
    BY <1>1, Invariance, PTL

\* The types alone, which hold even if reports are early.
LEMMA TypeStep ==
  ASSUME TypeOK, [Next]_vars
  PROVE  TypeOK'
  <1>1. ASSUME NEW l \in Layers, AddUpTrack(l) \/ EndOfList(l) PROVE TypeOK'
    <2>1. Idle \in WriterStates /\ <<>> \in Seq(Subs)
      BY DEF WriterStates
    <2>2. CASE AddUpTrack(l)
      BY <2>1, <2>2 DEF AddUpTrack, TypeOK, trackVars
    <2>3. CASE EndOfList(l)
      BY <2>1, <2>3 DEF EndOfList, TypeOK, trackVars
    <2>4. QED
      BY <1>1, <2>2, <2>3
  <1>2. ASSUME NEW l \in Layers, NEW k \in BOOLEAN, ReadPacket(l, k) PROVE TypeOK'
    <2>1. [step |-> "write", key |-> k, todo |-> downTracks[l]] \in WriterStates
      BY OnList, WriterMade
    <2>2. QED
      BY <1>2, <2>1 DEF ReadPacket, TypeOK, trackVars
  <1>3. ASSUME NEW l \in Layers, writer[l].step \in {"write", "store"}, writer[l].todo # <<>>
        PROVE  NextDownTrack(l) \in WriterStates /\ At(l) \in Subs
    <2>1. writer[l] # Idle
      BY <1>3 DEF Idle
    <2>2. QED
      BY <1>3, <2>1, WriterTypes, WriterMade, TailOccurs DEF NextDownTrack, At
  <1>4. ASSUME NEW l \in Layers, WritePacket(l) PROVE TypeOK'
    BY <1>3, <1>4 DEF WritePacket, TypeOK, trackVars, receiverVars
  <1>5. ASSUME NEW l \in Layers, Resume(l) PROVE TypeOK'
    <2>1. writer[l] # Idle /\ writer[l].todo # <<>> /\ writer[l].step = "write"
      BY <1>5 DEF Resume, Idle
    <2>2. writer[l].key = TRUE /\ writer[l].todo \in Seq(Subs)
      BY <1>5, <2>1, WriterTypes DEF Resume, Passes
    <2>3. At(l) \in Subs
      BY <1>3, <2>1
    <2> DEFINE layer == spatialLayer[At(l)]
               new == [step |-> IF layer.current # layer.target THEN "delete" ELSE "store",
                       key |-> writer[l].key, todo |-> writer[l].todo,
                       current |-> layer.current, target |-> layer.target]
    <2>4. layer.current \in Layers /\ layer.target \in Layers
      BY <2>3 DEF TypeOK
    <2>5. new \in WriterStates
      BY <2>1, <2>2, <2>4, WriterMade
    <2>6. writer' = [writer EXCEPT ![l] = new] /\ UNCHANGED <<receiverVars, trackVars, handler>>
      BY <1>5 DEF Resume
    <2> HIDE DEF new
    <2>7. QED
      BY <2>5, <2>6 DEF TypeOK, trackVars, receiverVars
  <1>6. ASSUME NEW l \in Layers, DeleteDownTrack(l) PROVE TypeOK'
    <2>1. writer[l].step = "delete" /\ writer[l].current \in Layers
      BY <1>6, WriterTypes DEF DeleteDownTrack
    <2> DEFINE new == [writer[l] EXCEPT !.step = "store"]
    <2>2. writer[l] \in [step : {"delete", "store"}, key : {TRUE}, todo : Seq(Subs) \ {<<>>},
                         current : Layers, target : Layers]
      <3>1. writer[l] \in WriterStates
        BY DEF TypeOK
      <3>2. writer[l] # Idle /\ writer[l] \notin [step : {"write"}, key : BOOLEAN, todo : Seq(Subs)]
        BY <2>1 DEF Idle
      <3>3. QED
        BY <3>1, <3>2 DEF WriterStates
    <2>3. new \in WriterStates
      BY <2>2 DEF WriterStates
    <2>4. ASSUME NEW list \in Seq(Subs), NEW s
          PROVE  Without(list, s) \in Seq(Subs)
      <3> DEFINE n == Len(list)
                 found == {i \in 1 .. n : list[i] = s}
                 first == CHOOSE i \in found : \A j \in found : i <= j
      <3>1. n \in Nat /\ \A i \in 1 .. n : list[i] \in Subs
        OBVIOUS
      <3>2. CASE found = {}
        BY <3>2 DEF Without
      <3>3. CASE found # {}
        <4>1. Without(list, s) = [i \in 1 .. n - 1 |-> IF i = first THEN list[n] ELSE list[i]]
          BY <3>3 DEF Without
        <4>2. n > 0
          BY <3>1, <3>3
        <4> HIDE DEF n, first, found
        <4>3. QED
          BY <3>1, <4>1, <4>2
      <3>4. QED
        BY <3>2, <3>3
    <2>5. /\ downTracks' = [downTracks EXCEPT ![Leaves(l)] = Without(downTracks[Leaves(l)], At(l))]
          /\ writer' = [writer EXCEPT ![l] = new]
          /\ UNCHANGED <<upTracks, locks, trackVars, handler>>
          /\ Leaves(l) \in Layers
      BY <1>6, <2>1 DEF DeleteDownTrack, Leaves
    <2>6. Without(downTracks[Leaves(l)], At(l)) \in Seq(Subs)
      BY <2>4, <2>5 DEF TypeOK
    <2> HIDE DEF new
    <2>7. QED
      BY <2>3, <2>5, <2>6 DEF TypeOK, trackVars
  <1>7. ASSUME NEW l \in Layers, StoreLayer(l) PROVE TypeOK'
    <2>1. writer[l].step = "store" /\ writer[l].todo # <<>> /\ writer[l].target \in Layers
      BY <1>7, WriterTypes DEF StoreLayer
    <2> DEFINE layer == [current |-> writer[l].target, target |-> 0]
    <2>2. layer \in [current : Layers, target : Layers]
      BY <2>1, LayersAre
    <2>3. /\ spatialLayer' = [spatialLayer EXCEPT ![At(l)] = layer]
          /\ reSync' = [reSync EXCEPT ![At(l)] = FALSE]
          /\ lastSSRC' = [lastSSRC EXCEPT ![At(l)] = l]
          /\ writer' = [writer EXCEPT ![l] = NextDownTrack(l)]
          /\ UNCHANGED <<upTracks, downTracks, locks, stage, handler>>
      BY <1>7 DEF StoreLayer, receiverVars
    <2> HIDE DEF layer
    <2>4. QED
      BY <1>3, <2>1, <2>2, <2>3 DEF TypeOK
  <1>8. ASSUME NEW s \in Subs, AddDownTrack(s) PROVE TypeOK'
    <2>1. InitialLayer \in Layers
      BY <1>8, InitialLayerIsThere DEF AddDownTrack, TypeOK
    <2> DEFINE layer == [current |-> InitialLayer, target |-> InitialLayer]
    <2>2. layer \in [current : Layers, target : Layers] /\ Append(downTracks[InitialLayer], s) \in Seq(Subs)
      BY <2>1, OnList, AppendOccurs
    <2>3. /\ downTracks' = [downTracks EXCEPT ![InitialLayer] = Append(downTracks[InitialLayer], s)]
          /\ spatialLayer' = [spatialLayer EXCEPT ![s] = layer]
          /\ stage' = [stage EXCEPT ![s] = "added"]
          /\ UNCHANGED <<upTracks, locks, writer, reSync, lastSSRC, handler>>
      BY <1>8 DEF AddDownTrack
    <2> HIDE DEF layer
    <2>4. QED
      BY <2>1, <2>2, <2>3 DEF TypeOK
  <1>9. ASSUME NEW s \in Subs, Bind(s) \/ Unbind(s) PROVE TypeOK'
    BY <1>9 DEF Bind, Unbind, TypeOK, receiverVars
  <1>10. ASSUME NEW s \in Subs, NEW l \in Layers, ChangeLayer(s, l) PROVE TypeOK'
    <2>1. spatialLayer[s].current \in Layers
      BY DEF TypeOK
    <2>2. [step |-> "sub", current |-> spatialLayer[s].current, target |-> l] \in HandlerStates
      BY <2>1 DEF HandlerStates
    <2>3. QED
      BY <1>10, <2>2 DEF ChangeLayer, TypeOK, receiverVars, trackVars
  <1>11. ASSUME NEW s \in Subs, HandlerStep(s) PROVE TypeOK'
    <2>1. handler[s] \in [step : {"sub", "store"}, current : Layers, target : Layers]
      BY <1>11 DEF HandlerStep, SubDownTrack, StoreTarget, TypeOK, HandlerStates, Idle
    <2>2. handler[s].target \in Layers /\ handler[s].current \in Layers
      BY <2>1
    <2> DEFINE new == [handler[s] EXCEPT !.step = "store"]
               layer == [current |-> handler[s].current, target |-> handler[s].target]
    <2>3. new \in HandlerStates /\ Idle \in HandlerStates
      BY <2>1 DEF HandlerStates
    <2>4. layer \in [current : Layers, target : Layers]
      BY <2>2
    <2>5. Append(downTracks[handler[s].target], s) \in Seq(Subs)
      BY <2>2, OnList, AppendOccurs
    <2>6. CASE SubDownTrack(s)
      <3>1. handler' \in {[handler EXCEPT ![s] = Idle], [handler EXCEPT ![s] = new]}
        BY <2>6 DEF SubDownTrack
      <3>2. \/ downTracks' = downTracks
            \/ downTracks' = [downTracks EXCEPT ![handler[s].target] = Append(downTracks[handler[s].target], s)]
        BY <2>6 DEF SubDownTrack
      <3>3. UNCHANGED <<upTracks, locks, writer, stage, spatialLayer, reSync, lastSSRC>>
        BY <2>6 DEF SubDownTrack, trackVars
      <3> HIDE DEF new
      <3>4. handler' \in [Subs -> HandlerStates]
        BY <2>3, <3>1 DEF TypeOK
      <3>5. downTracks' \in [Layers -> Seq(Subs)]
        BY <2>2, <2>5, <3>2 DEF TypeOK
      <3>6. QED
        BY <3>3, <3>4, <3>5 DEF TypeOK
    <2>7. CASE StoreTarget(s)
      <3>1. /\ spatialLayer' = [spatialLayer EXCEPT ![s] = layer]
            /\ handler' = [handler EXCEPT ![s] = Idle]
            /\ UNCHANGED <<upTracks, downTracks, locks, writer, stage, reSync, lastSSRC>>
        BY <2>7 DEF StoreTarget, receiverVars
      <3> HIDE DEF layer
      <3>2. QED
        BY <2>3, <2>4, <3>1 DEF TypeOK
    <2>8. QED
      BY <1>11, <2>6, <2>7 DEF HandlerStep
  <1>12. CASE UNCHANGED vars
    BY <1>12 DEF vars, receiverVars, trackVars, TypeOK
  <1>13. QED
    BY <1>1, <1>2, <1>4, <1>5, <1>6, <1>7, <1>8, <1>9, <1>10, <1>11, <1>12 DEF Next, WriterStep

\* All variables keep their types, early reports or not.
THEOREM TypeCorrect == Spec => []TypeOK
  <1>1. Init => TypeOK
    BY InitIInv DEF IInv
  <1>2. TypeOK /\ [Next]_vars => TypeOK'
    BY TypeStep
  <1>3. QED
    BY <1>1, <1>2, PTL DEF Spec

\* SwitchesOnKeyFrame (downtrack.go writeSimulcastRTP): lastSSRC changes only while
\* the writer of the new source has a key frame for this very down track, whatever
\* the other goroutines did since it was read, and even if reports are early.
THEOREM KeyFrameFirst == Spec => SwitchesOnKeyFrame
  <1> DEFINE Justified ==
        \A s \in Subs :
          lastSSRC'[s] # lastSSRC[s] =>
              \E l \in Layers : lastSSRC'[s] = l /\ At(l) = s /\ writer[l].key
  <1>1. TypeOK /\ [Next]_vars => [Justified]_vars
    <2> SUFFICES ASSUME TypeOK, Next, NEW s \in Subs, lastSSRC'[s] # lastSSRC[s]
                 PROVE  \E l \in Layers : lastSSRC'[s] = l /\ At(l) = s /\ writer[l].key
      OBVIOUS
    <2>1. PICK l \in Layers : StoreLayer(l)
      BY DEF Next, WriterStep, HandlerStep, AddUpTrack, EndOfList, WritePacket, Resume, DeleteDownTrack,
         ReadPacket, AddDownTrack, Bind, Unbind, SubDownTrack, StoreTarget, ChangeLayer, trackVars
    <2>2. writer[l].key
      BY <2>1, WriterTypes DEF StoreLayer
    <2>3. lastSSRC' = [lastSSRC EXCEPT ![At(l)] = l]
      BY <2>1 DEF StoreLayer
    <2>4. QED
      BY <2>2, <2>3 DEF TypeOK
  <1>2. QED
    BY <1>1, TypeCorrect, PTL DEF Spec, SwitchesOnKeyFrame

=============================================================================
