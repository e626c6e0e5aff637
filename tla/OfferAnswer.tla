----------------------------- MODULE OfferAnswer -----------------------------
(***************************************************************************)
(* What the offer/answer machinery of a subscriber promises, without its   *)
(* timers, flags and queues: the set of media sections of the subscriber's *)
(* PeerConnection changes, its current version is offered to the client    *)
(* one offer at a time, and the client's answer puts that version into     *)
(* effect.  Module Negotiation is shown to implement this specification.   *)
(***************************************************************************)
EXTENDS Naturals

VARIABLES
    version,   \* version of the media sections the SFU wants the client to have
    inflight,  \* version in the unanswered offer, or NoOffer
    applied,   \* version of the last offer that was answered
    up         \* the client can be reached and the connection is not closed

absVars == <<version, inflight, applied, up>>

NoOffer == 0

Init ==
    /\ version = 1
    /\ inflight = NoOffer
    /\ applied = 0
    /\ up = TRUE

\* A track or a data channel is added or removed.
Change ==
    /\ version' = version + 1
    /\ UNCHANGED <<inflight, applied, up>>

\* The current version is offered; never while another offer is unanswered.
Offer ==
    /\ inflight = NoOffer
    /\ inflight' = version
    /\ UNCHANGED <<version, applied, up>>

\* The unanswered offer is answered and takes effect.
Complete ==
    /\ up
    /\ inflight # NoOffer
    /\ applied' = inflight
    /\ inflight' = NoOffer
    /\ UNCHANGED <<version, up>>

\* The client goes away or the connection is closed, for good.
GoDown ==
    /\ up
    /\ up' = FALSE
    /\ UNCHANGED <<version, inflight, applied>>

Next == Change \/ Offer \/ Complete \/ GoDown

SafeSpec == Init /\ [][Next]_absVars

\* A stale client is offered the current version, and offers are answered.
Spec ==
    /\ SafeSpec
    /\ WF_absVars(up /\ applied < version /\ Offer)
    /\ WF_absVars(Complete)

=============================================================================
