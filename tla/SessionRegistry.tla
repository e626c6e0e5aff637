--------------------------- MODULE SessionRegistry ---------------------------
(***************************************************************************)
(* The life of the sessions of one session id: SFU.GetSession and          *)
(* newSession (internal/sfu/sfu.go), Session.AddPeer and RemovePeer        *)
(* (session.go), called by Peer.Join and Peer.Close (peer.go).             *)
(*                                                                         *)
(* Peers come and go in goroutines of their own.  The lookup of a session, *)
(* its creation, the entry of the peer, the removal of the peer, the test  *)
(* for an empty session and its deletion from the SFU's map are separate   *)
(* critical sections, so all of them interleave.  A Session object is      *)
(* named after the peer whose Join created it; a peer joins once.          *)
(***************************************************************************)
CONSTANTS
    Peers,  \* the peers that join under the same session id
    None    \* nil

ASSUME NoneAssumption == None \notin Peers

VARIABLES
    sessions,  \* SFU.sessions[sid]: a Session or None
    session,   \* Peer.session
    members,   \* Session.peers
    closed,    \* Session.closed
    pc         \* progress of a peer's Join and Close

vars == <<sessions, session, members, closed, pc>>

\* "new" -> getSession -> "missed" -> newSession -> "found" -> AddPeer -> "in"
\* -> delete(s.peers) -> "deleted" -> len == 0 -> "empty" -> closed.set ->
\* "closing" -> onCloseHandler -> "gone"; "failed": Join returned an error
Stages == {"new", "missed", "found", "in", "failed", "deleted", "empty", "closing", "gone"}

Init ==
    /\ sessions = None
    /\ session = [p \in Peers |-> None]
    /\ members = [x \in Peers |-> {}]
    /\ closed = [x \in Peers |-> FALSE]
    /\ pc = [p \in Peers |-> "new"]

-----------------------------------------------------------------------------
(* Peer.Join.                                                              *)

\* SFU.getSession, under the SFU's read lock.
GetSession(p) ==
    /\ pc[p] = "new"
    /\ session' = [session EXCEPT ![p] = sessions]
    /\ pc' = [pc EXCEPT ![p] = IF sessions = None THEN "missed" ELSE "found"]
    /\ UNCHANGED <<sessions, members, closed>>

\* SFU.newSession: stored under the SFU's lock, whatever is stored there now.
NewSession(p) ==
    /\ pc[p] = "missed"
    /\ session' = [session EXCEPT ![p] = p]
    /\ sessions' = p
    /\ pc' = [pc EXCEPT ![p] = "found"]
    /\ UNCHANGED <<members, closed>>

\* Session.AddPeer, after the PeerConnections have been made.
AddPeer(p) ==
    /\ pc[p] = "found"
    /\ members' = [members EXCEPT ![session[p]] = @ \cup {p}]
    /\ pc' = [pc EXCEPT ![p] = "in"]
    /\ UNCHANGED <<sessions, session, closed>>

\* A PeerConnection or a data channel could not be made.
JoinFails(p) ==
    /\ pc[p] = "found"
    /\ pc' = [pc EXCEPT ![p] = "failed"]
    /\ UNCHANGED <<sessions, session, members, closed>>

-----------------------------------------------------------------------------
(* Peer.Close: Session.RemovePeer.                                         *)

\* The peer leaves the map, under the session's read lock.
RemovePeer(p) ==
    /\ pc[p] \in {"in", "failed"}
    /\ members' = [members EXCEPT ![session[p]] = @ \ {p}]
    /\ pc' = [pc EXCEPT ![p] = "deleted"]
    /\ UNCHANGED <<sessions, session, closed>>

\* Variant: the peer counts itself although it has been deleted already.
LastPeerCountsItself(p) ==
    (\E q \in Peers : members[session[p]] = {q}) /\ ~closed[session[p]]

\* len(s.peers) == 0 && !s.closed.get()
LastPeer(p) == members[session[p]] = {} /\ ~closed[session[p]]

\* The test, without any lock.
CheckEmpty(p) ==
    /\ pc[p] = "deleted"
    /\ pc' = [pc EXCEPT ![p] = IF LastPeer(p) THEN "empty" ELSE "gone"]
    /\ UNCHANGED <<sessions, session, members, closed>>

SetClosed(p) ==
    /\ pc[p] = "empty"
    /\ closed' = [closed EXCEPT ![session[p]] = TRUE]
    /\ pc' = [pc EXCEPT ![p] = "closing"]
    /\ UNCHANGED <<sessions, session, members>>

\* Variant: the session is closed but stays in the SFU's map.
OnCloseKeeps(p) ==
    /\ pc[p] = "closing"
    /\ pc' = [pc EXCEPT ![p] = "gone"]
    /\ UNCHANGED <<sessions, session, members, closed>>

\* The close handler of newSession deletes the session id from the SFU's map,
\* under the SFU's lock, whatever Session is stored there now.
OnClose(p) ==
    /\ pc[p] = "closing"
    /\ sessions' = None
    /\ pc' = [pc EXCEPT ![p] = "gone"]
    /\ UNCHANGED <<session, members, closed>>

-----------------------------------------------------------------------------
Next ==
    \E p \in Peers :
        \/ GetSession(p) \/ NewSession(p) \/ AddPeer(p) \/ JoinFails(p)
        \/ RemovePeer(p) \/ CheckEmpty(p) \/ SetClosed(p) \/ OnClose(p)

Spec == Init /\ [][Next]_vars

-----------------------------------------------------------------------------
(* Properties.                                                             *)

TypeOK ==
    /\ sessions \in Peers \cup {None}
    /\ session \in [Peers -> Peers \cup {None}]
    /\ members \in [Peers -> SUBSET Peers]
    /\ closed \in [Peers -> BOOLEAN]
    /\ pc \in [Peers -> Stages]
    /\ \A p \in Peers : pc[p] \notin {"new", "missed"} => session[p] \in Peers

\* A closed Session is offered to joining peers only for the moment until the
\* peer that closed it has deleted it.  A peer that has found it before may
\* still enter it.
ClosedIsUnregistered ==
    \A x \in Peers :
        sessions = x /\ closed[x] =>
            \E p \in Peers : session[p] = x /\ pc[p] = "closing"

\* An empty Session in the SFU's map has somebody who will fill or remove it.
EmptyIsTransient ==
    \A x \in Peers :
        sessions = x /\ members[x] = {} /\ ~closed[x] =>
            \E p \in Peers :
                session[p] = x /\ pc[p] \in {"found", "failed", "deleted", "empty"}

\* When everybody has left, or failed to enter and left, the SFU's map is
\* empty again, in whatever order the peers came and went.
SessionsAreReleased == (\A p \in Peers : pc[p] \in {"new", "gone"}) => sessions = None

\* Every member of a Session joined it and has not left.
MembersAreIn == \A x, p \in Peers : p \in members[x] <=> pc[p] = "in" /\ session[p] = x

Created(x) == pc[x] \notin {"new", "missed"} /\ session[x] = x

\* Only Sessions that some Join created are stored, joined or closed.
OnlyCreated ==
    /\ sessions # None => Created(sessions)
    /\ \A p \in Peers : session[p] # None => Created(session[p])
    /\ \A x \in Peers : closed[x] => Created(x)

\* The inductive invariant behind the theorems of SessionRegistryProofs.
IInv == TypeOK /\ MembersAreIn /\ OnlyCreated /\ ClosedIsUnregistered /\ EmptyIsTransient

\* Join enters the session of the given id, as its comment says: whoever is in
\* a session is in the one that the SFU has under the id, where later peers
\* will find it.  Violated: two peers may both find no session and create one
\* each, and a leaving peer deletes the id while another one enters.
InTheSessionOfItsId == \A p \in Peers : pc[p] = "in" => sessions = session[p]

=============================================================================
