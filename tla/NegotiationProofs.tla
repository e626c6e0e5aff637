-------------------------- MODULE NegotiationProofs --------------------------
(***************************************************************************)
(* Invariance and refinement theorems about module Negotiation, for every  *)
(* bound on the requests and on the refused answers.                       *)
(***************************************************************************)
EXTENDS Negotiation, TLAPS

\* All invariants but the types of the flags, which the SMT solver and the
\* first-order prover handle apart.
CoreInv ==
    /\ CountersOK
    /\ PendingFlagMatchesSignaling
    /\ OneExchangeAtATime
    /\ NoLostRenegotiation
    /\ SupportingInv

\* A queue that holds at most one message.
LEMMA OneMessage ==
  ASSUME NEW v \in Nat
  PROVE  Append(<<>>, v) = <<v>> /\ Head(<<v>>) = v /\ Tail(<<v>>) = <<>>
  OBVIOUS

\* The state after Peer.Join satisfies the inductive invariant.
LEMMA InitIInv == Init => IInv
  <1>1. Init => FlagsOK
    BY DEF Init, FlagsOK
  <1>2. Init => CoreInv
    BY BoundsAssumption
    DEF BoundsAssumption, Init, CoreInv, CountersOK, PendingFlagMatchesSignaling,
        OneExchangeAtATime, NoLostRenegotiation, SupportingInv, pcOpen
  <1>3. QED
    BY <1>1, <1>2 DEF IInv, TypeOK, CoreInv

\* Every step leaves the flags Boolean.
LEMMA FlagsStep == FlagsOK /\ [Next]_vars => FlagsOK'
  BY Zenon
  DEF FlagsOK, Next, ChangeTracks, RequestWithoutChange, Negotiate, TimerFires,
      OnNegotiationNeeded, ClientAnswer, ClientAnswerInvalid, ConnectionLost,
      SetRemoteDescription, SetRemoteDescriptionFails, FinishNegotiation,
      Close, IceFailed, vars, callerVars, peerVars, pcVars, wireVars, timerVars

\* An answer the PeerConnection accepts answers the outstanding offer.
LEMMA AcceptedAnswerIsCurrent ==
  ASSUME IInv, answers # <<>>, AcceptsAnswer
  PROVE  connected /\ answers = <<offered>> /\ offers = <<>> /\ remoteAnswerPending
  BY DEF IInv, CoreInv, TypeOK, CountersOK, PendingFlagMatchesSignaling, OneExchangeAtATime,
         SupportingInv, AcceptsAnswer, pcOpen

\* The steps of the other goroutines and of the timer.
LEMMA CallerStep ==
  ASSUME IInv, ChangeTracks \/ RequestWithoutChange \/ Negotiate \/ TimerFires
  PROVE  CoreInv'
  <1> USE BoundsAssumption
      DEF BoundsAssumption, IInv, CoreInv, TypeOK, CountersOK, PendingFlagMatchesSignaling, OneExchangeAtATime,
          NoLostRenegotiation, SupportingInv, pcOpen,
          callerVars, peerVars, pcVars, wireVars, timerVars
  <1>1. CASE ChangeTracks
    BY <1>1 DEF ChangeTracks
  <1>2. CASE RequestWithoutChange
    BY <1>2 DEF RequestWithoutChange
  <1>3. CASE Negotiate
    BY <1>3 DEF Negotiate
  <1>4. CASE TimerFires
    BY <1>4 DEF TimerFires
  <1>5. QED
    BY <1>1, <1>2, <1>3, <1>4

\* The debounced callback: it defers, fails or sends an offer.
LEMMA CallbackStep ==
  ASSUME IInv, OnNegotiationNeeded
  PROVE  CoreInv'
  <1> USE DEF IInv, CoreInv, TypeOK, CountersOK, PendingFlagMatchesSignaling, OneExchangeAtATime,
              NoLostRenegotiation, SupportingInv, pcOpen,
              callerVars, pcVars, OnNegotiationNeeded
  <1>1. CASE remoteAnswerPending
    BY <1>1
  <1>2. CASE ~remoteAnswerPending /\ signaling # "stable"
    BY <1>2 DEF CreateOffer
  <1>3. CASE ~remoteAnswerPending /\ signaling = "stable"
    <2>1. offered' = version /\ signaling' = "have-local-offer" /\ remoteAnswerPending'
      BY <1>3 DEF CreateOffer
    <2>2. offers' = IF ~closed /\ connected THEN Append(offers, version) ELSE offers
      BY <1>3, <2>1 DEF SendOffer
    <2>3. connected => offers' = <<version>> /\ answers = <<>>
      <3>1. connected => ~closed /\ offers = <<>> /\ answers = <<>>
        BY <1>3
      <3>2. Append(<<>>, version) = <<version>>
        BY OneMessage
      <3>3. QED
        BY <2>2, <3>1, <3>2
    <2>4. UNCHANGED <<callerVars, timer, closed, connected, answers, invalid,
                      sentInvalid, negotiationPending, applied>>
      BY <1>3 DEF CreateOffer
    <2>5. QED
      BY <1>3, <2>1, <2>2, <2>3, <2>4
  <1>4. QED
    BY <1>1, <1>2, <1>3

\* The client and the wire.
LEMMA WireStep ==
  ASSUME IInv, ClientAnswer \/ ClientAnswerInvalid \/ ConnectionLost
  PROVE  CoreInv'
  <1> USE DEF IInv, CoreInv, TypeOK, CountersOK, PendingFlagMatchesSignaling, OneExchangeAtATime,
              NoLostRenegotiation, SupportingInv, pcOpen,
              callerVars, peerVars, pcVars, wireVars, timerVars
  <1>1. CASE ClientAnswer
    <2>1. Head(offers) \in Nat \ {0} /\ Tail(offers) \in Seq(Nat \ {0})
      BY <1>1 DEF ClientAnswer
    <2>2. answers' \in Seq(Nat \ {0}) /\ offers' \in Seq(Nat \ {0})
      BY <1>1, <2>1 DEF ClientAnswer
    <2>3. connected /\ pcOpen =>
            offers' = <<>> /\ answers' = <<offered>> /\ remoteAnswerPending
      <3>1. connected /\ pcOpen =>
              offers = <<offered>> /\ answers = <<>> /\ remoteAnswerPending
        BY <1>1 DEF ClientAnswer
      <3>2. QED
        BY <1>1, <3>1, OneMessage DEF ClientAnswer
    <2>4. QED
      BY <1>1, <2>2, <2>3 DEF ClientAnswer
  <1>2. CASE ClientAnswerInvalid
    BY <1>2, BoundsAssumption DEF BoundsAssumption, ClientAnswerInvalid
  <1>3. CASE ConnectionLost
    BY <1>3 DEF ConnectionLost
  <1>4. QED
    BY <1>1, <1>2, <1>3

\* The handling of the client's answers.
LEMMA AnswerStep ==
  ASSUME IInv, SetRemoteDescription \/ SetRemoteDescriptionFails
  PROVE  CoreInv'
  <1> USE DEF IInv, CoreInv, TypeOK, CountersOK, PendingFlagMatchesSignaling, OneExchangeAtATime,
              NoLostRenegotiation, SupportingInv, pcOpen,
              callerVars, peerVars, pcVars, wireVars, timerVars
  <1>1. CASE SetRemoteDescription /\ ~AcceptsAnswer
    BY <1>1 DEF SetRemoteDescription, AcceptsAnswer
  <1>2. CASE SetRemoteDescription /\ AcceptsAnswer
    <2>1. connected /\ answers = <<offered>> /\ offers = <<>> /\ remoteAnswerPending
      BY <1>2, AcceptedAnswerIsCurrent DEF SetRemoteDescription
    <2>2. Head(answers) = offered /\ Tail(answers) = <<>>
      BY <2>1
    <2>3. QED
      BY <1>2, <2>1, <2>2 DEF SetRemoteDescription, FinishNegotiation, AcceptsAnswer
  <1>3. CASE SetRemoteDescriptionFails
    BY <1>3 DEF SetRemoteDescriptionFails
  <1>4. QED
    BY <1>1, <1>2, <1>3

\* Shutdown by the signalling layer or by ICE.
LEMMA ShutdownStep ==
  ASSUME IInv, Close \/ IceFailed
  PROVE  CoreInv'
  BY DEF IInv, CoreInv, TypeOK, CountersOK, PendingFlagMatchesSignaling, OneExchangeAtATime,
         NoLostRenegotiation, SupportingInv, pcOpen,
         callerVars, peerVars, pcVars, wireVars, timerVars, Close, IceFailed

LEMMA NextIInv == IInv /\ [Next]_vars => IInv'
  <1> SUFFICES ASSUME IInv, [Next]_vars
               PROVE  IInv'
    OBVIOUS
  <1>1. CASE Next
    <2>1. CoreInv'
      BY <1>1, CallerStep, CallbackStep, WireStep, AnswerStep, ShutdownStep DEF Next
    <2>2. FlagsOK'
      BY FlagsStep DEF IInv, TypeOK
    <2>3. QED
      BY <2>1, <2>2 DEF IInv, TypeOK, CoreInv
  <1>2. CASE UNCHANGED vars
    BY <1>2 DEF IInv, TypeOK, FlagsOK, CountersOK, PendingFlagMatchesSignaling, OneExchangeAtATime,
                NoLostRenegotiation, SupportingInv, pcOpen,
                vars, callerVars, peerVars, pcVars, wireVars, timerVars
  <1>3. QED
    BY <1>1, <1>2

\* The conjunction of all invariants holds in every reachable state.
THEOREM Invariance == Spec => []IInv
  BY InitIInv, NextIInv, PTL DEF Spec

\* All variables of Peer, Subscriber and the wire keep their types.
THEOREM TypeCorrect == Spec => []TypeOK
  <1>1. IInv => TypeOK
    BY DEF IInv
  <1>2. QED
    BY <1>1, Invariance, PTL

\* Peer.remoteAnswerPending and the signaling state never disagree.
THEOREM PendingFlagSound == Spec => []PendingFlagMatchesSignaling
  <1>1. IInv => PendingFlagMatchesSignaling
    BY DEF IInv
  <1>2. QED
    BY <1>1, Invariance, PTL

\* There is one exchange at a time, and answers meet the offer they answer.
THEOREM ExchangesDoNotOverlap == Spec => []OneExchangeAtATime
  <1>1. IInv => OneExchangeAtATime
    BY DEF IInv
  <1>2. QED
    BY <1>1, Invariance, PTL

\* No change of the subscriber's tracks is forgotten.
THEOREM NothingForgotten == Spec => []NoLostRenegotiation
  <1>1. IInv => NoLostRenegotiation
    BY DEF IInv
  <1>2. QED
    BY <1>1, Invariance, PTL

-----------------------------------------------------------------------------
\* Each step of the code is a step of the abstract exchange or none.
LEMMA StepRefines == IInv /\ [Next]_vars => [OA!Next]_(OA!absVars)
  <1> SUFFICES ASSUME IInv, [Next]_vars
               PROVE  [OA!Next]_(OA!absVars)
    OBVIOUS
  <1> USE DEF OA!Next, OA!absVars, OA!NoOffer, pcOpen
  <1>1. CASE ChangeTracks
    BY <1>1 DEF ChangeTracks, OA!Change, peerVars, pcVars, wireVars
  <1>2. CASE RequestWithoutChange \/ Negotiate \/ TimerFires \/ ClientAnswer
             \/ ClientAnswerInvalid \/ SetRemoteDescriptionFails
    BY <1>2 DEF RequestWithoutChange, Negotiate, TimerFires, ClientAnswer,
                ClientAnswerInvalid, SetRemoteDescriptionFails,
                callerVars, peerVars, pcVars, wireVars
  <1>3. CASE OnNegotiationNeeded
    <2>1. CASE remoteAnswerPending \/ signaling # "stable"
      BY <1>3, <2>1 DEF OnNegotiationNeeded, CreateOffer, callerVars, pcVars
    <2>2. CASE ~remoteAnswerPending /\ signaling = "stable"
      BY <1>3, <2>2 DEF OnNegotiationNeeded, CreateOffer, callerVars, OA!Offer
    <2>3. QED
      BY <2>1, <2>2
  <1>4. CASE SetRemoteDescription
    <2>1. CASE ~AcceptsAnswer
      BY <1>4, <2>1 DEF SetRemoteDescription, callerVars, pcVars
    <2>2. CASE AcceptsAnswer
      <3>1. connected /\ answers = <<offered>> /\ remoteAnswerPending /\ pcOpen
        BY <1>4, <2>2, AcceptedAnswerIsCurrent DEF SetRemoteDescription, AcceptsAnswer, pcOpen
      <3>2. offered # 0
        BY <3>1 DEF IInv, TypeOK, CountersOK
      <3>3. QED
        BY <1>4, <2>2, <3>1, <3>2
        DEF SetRemoteDescription, FinishNegotiation, callerVars, OA!Complete
    <2>3. QED
      BY <2>1, <2>2
  <1>5. CASE ConnectionLost \/ Close \/ IceFailed
    BY <1>5 DEF ConnectionLost, Close, IceFailed, OA!GoDown,
                callerVars, peerVars, pcVars, wireVars
  <1>6. CASE UNCHANGED vars
    BY <1>6 DEF vars, callerVars, peerVars, pcVars, wireVars
  <1>7. QED
    BY <1>1, <1>2, <1>3, <1>4, <1>5, <1>6 DEF Next

\* Negotiation implements the safety part of OfferAnswer: one exchange after
\* another, each offering the version current when it starts.
THEOREM RefinesOfferAnswer == Spec => OA!SafeSpec
  <1>1. Init => OA!Init
    BY DEF Init, OA!Init, OA!NoOffer, pcOpen
  <1>2. QED
    BY <1>1, StepRefines, Invariance, PTL DEF Spec, OA!SafeSpec

=============================================================================
