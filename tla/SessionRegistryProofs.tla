------------------------ MODULE SessionRegistryProofs ------------------------
(***************************************************************************)
(* Theorems about module SessionRegistry for any number of peers: whatever *)
(* the order in which peers look up, create, enter, leave and close        *)
(* sessions of one id, nothing is left in the SFU's map when all are gone. *)
(***************************************************************************)
EXTENDS SessionRegistry, TLAPS

\* An SFU that knows no session satisfies the inductive invariant.
LEMMA InitIInv == Init => IInv
  <1> SUFFICES ASSUME Init
               PROVE  IInv
    OBVIOUS
  <1> USE NoneAssumption DEF NoneAssumption, Init
  <1>1. TypeOK
    BY DEF TypeOK, Stages
  <1>2. MembersAreIn /\ OnlyCreated
    BY DEF MembersAreIn, OnlyCreated
  <1>3. ClosedIsUnregistered /\ EmptyIsTransient
    BY DEF ClosedIsUnregistered, EmptyIsTransient
  <1>4. QED
    BY <1>1, <1>2, <1>3 DEF IInv

\* Peer.Join: finding or creating a session and entering it.
LEMMA JoinPreserves ==
  ASSUME IInv, NEW p \in Peers,
         GetSession(p) \/ NewSession(p) \/ AddPeer(p) \/ JoinFails(p)
  PROVE  IInv'
  <1> USE NoneAssumption DEF NoneAssumption, IInv, Stages
  <1>1. CASE GetSession(p)
    <2> USE <1>1 DEF GetSession
    <2>1. TypeOK'
      BY DEF TypeOK
    <2>2. MembersAreIn'
      BY DEF MembersAreIn, TypeOK
    <2>3. OnlyCreated'
      BY DEF OnlyCreated, Created, TypeOK
    <2>4. ClosedIsUnregistered'
      BY DEF ClosedIsUnregistered, TypeOK
    <2>5. EmptyIsTransient'
      BY DEF EmptyIsTransient, TypeOK
    <2>6. QED
      BY <2>1, <2>2, <2>3, <2>4, <2>5
  <1>2. CASE NewSession(p)
    <2> USE <1>2 DEF NewSession
    <2>1. TypeOK'
      BY DEF TypeOK
    <2>2. MembersAreIn'
      BY DEF MembersAreIn, TypeOK
    <2>3. OnlyCreated'
      BY DEF OnlyCreated, Created, TypeOK
    <2>4. ClosedIsUnregistered'
      BY DEF ClosedIsUnregistered, OnlyCreated, Created, TypeOK
    <2>5. EmptyIsTransient'
      BY DEF EmptyIsTransient, TypeOK
    <2>6. QED
      BY <2>1, <2>2, <2>3, <2>4, <2>5
  <1>3. CASE AddPeer(p)
    <2> USE <1>3 DEF AddPeer
    <2>1. TypeOK'
      BY DEF TypeOK
    <2>2. MembersAreIn'
      BY DEF MembersAreIn, TypeOK
    <2>3. OnlyCreated'
      BY DEF OnlyCreated, Created, TypeOK
    <2>4. ClosedIsUnregistered'
      BY DEF ClosedIsUnregistered, TypeOK
    <2>5. EmptyIsTransient'
      BY DEF EmptyIsTransient, TypeOK
    <2>6. QED
      BY <2>1, <2>2, <2>3, <2>4, <2>5
  <1>4. CASE JoinFails(p)
    <2> USE <1>4 DEF JoinFails
    <2>1. TypeOK'
      BY DEF TypeOK
    <2>2. MembersAreIn'
      BY DEF MembersAreIn, TypeOK
    <2>3. OnlyCreated'
      BY DEF OnlyCreated, Created, TypeOK
    <2>4. ClosedIsUnregistered'
      BY DEF ClosedIsUnregistered, TypeOK
    <2>5. EmptyIsTransient'
      BY DEF EmptyIsTransient, TypeOK
    <2>6. QED
      BY <2>1, <2>2, <2>3, <2>4, <2>5
  <1>5. QED
    BY <1>1, <1>2, <1>3, <1>4

\* Peer.Close: leaving the session, which the last peer closes.
LEMMA ClosePreserves ==
  ASSUME IInv, NEW p \in Peers,
         RemovePeer(p) \/ CheckEmpty(p) \/ SetClosed(p) \/ OnClose(p)
  PROVE  IInv'
  <1> USE NoneAssumption DEF NoneAssumption, IInv, Stages
  <1>1. CASE RemovePeer(p)
    <2> USE <1>1 DEF RemovePeer
    <2>1. TypeOK'
      BY DEF TypeOK
    <2>2. MembersAreIn'
      BY DEF MembersAreIn, TypeOK
    <2>3. OnlyCreated'
      BY DEF OnlyCreated, Created, TypeOK
    <2>4. ClosedIsUnregistered'
      BY DEF ClosedIsUnregistered, TypeOK
    <2>5. EmptyIsTransient'
      BY DEF EmptyIsTransient, TypeOK
    <2>6. QED
      BY <2>1, <2>2, <2>3, <2>4, <2>5
  <1>2. CASE CheckEmpty(p)
    <2> USE <1>2 DEF CheckEmpty, LastPeer
    <2>1. TypeOK'
      BY DEF TypeOK
    <2>2. MembersAreIn'
      BY DEF MembersAreIn, TypeOK
    <2>3. OnlyCreated'
      BY DEF OnlyCreated, Created, TypeOK
    <2>4. ClosedIsUnregistered'
      BY DEF ClosedIsUnregistered, TypeOK
    <2>5. EmptyIsTransient'
      BY DEF EmptyIsTransient, TypeOK
    <2>6. QED
      BY <2>1, <2>2, <2>3, <2>4, <2>5
  <1>3. CASE SetClosed(p)
    <2> USE <1>3 DEF SetClosed
    <2>1. TypeOK'
      BY DEF TypeOK
    <2>2. MembersAreIn'
      BY DEF MembersAreIn, TypeOK
    <2>3. OnlyCreated'
      BY DEF OnlyCreated, Created, TypeOK
    <2>4. ClosedIsUnregistered'
      BY DEF ClosedIsUnregistered, TypeOK
    <2>5. EmptyIsTransient'
      BY DEF EmptyIsTransient, TypeOK
    <2>6. QED
      BY <2>1, <2>2, <2>3, <2>4, <2>5
  <1>4. CASE OnClose(p)
    <2> USE <1>4 DEF OnClose
    <2>1. TypeOK'
      BY DEF TypeOK
    <2>2. MembersAreIn'
      BY DEF MembersAreIn, TypeOK
    <2>3. OnlyCreated'
      BY DEF OnlyCreated, Created, TypeOK
    <2>4. ClosedIsUnregistered'
      BY DEF ClosedIsUnregistered, TypeOK
    <2>5. EmptyIsTransient'
      BY DEF EmptyIsTransient, TypeOK
    <2>6. QED
      BY <2>1, <2>2, <2>3, <2>4, <2>5
  <1>5. QED
    BY <1>1, <1>2, <1>3, <1>4

LEMMA NextIInv == IInv /\ [Next]_vars => IInv'
  <1> SUFFICES ASSUME IInv, [Next]_vars
               PROVE  IInv'
    OBVIOUS
  <1>1. CASE Next
    BY <1>1, JoinPreserves, ClosePreserves DEF Next
  <1>2. CASE UNCHANGED vars
    BY <1>2 DEF vars, IInv, TypeOK, MembersAreIn, OnlyCreated, Created,
                ClosedIsUnregistered, EmptyIsTransient
  <1>3. QED
    BY <1>1, <1>2

\* The conjunction of all invariants holds in every reachable state.
THEOREM Invariance == Spec => []IInv
  BY InitIInv, NextIInv, PTL DEF Spec

\* All variables of the registry keep their types, and a peer that is past the
\* lookup holds a Session.
THEOREM TypeCorrect == Spec => []TypeOK
  <1>1. IInv => TypeOK
    BY DEF IInv
  <1>2. QED
    BY <1>1, Invariance, PTL

\* An empty Session in the SFU's map is about to be entered or removed.
THEOREM EmptySessionsPass == Spec => []EmptyIsTransient
  <1>1. IInv => EmptyIsTransient
    BY DEF IInv
  <1>2. QED
    BY <1>1, Invariance, PTL

\* The SFU's map never keeps a closed Session that nobody is about to delete.
THEOREM NoDeadSession == Spec => []ClosedIsUnregistered
  <1>1. IInv => ClosedIsUnregistered
    BY DEF IInv
  <1>2. QED
    BY <1>1, Invariance, PTL

\* When all peers have left, the SFU's map has no Session left.
THEOREM NoSessionLeak == Spec => []SessionsAreReleased
  <1>1. IInv => SessionsAreReleased
    <2> SUFFICES ASSUME IInv, \A p \in Peers : pc[p] \in {"new", "gone"}, sessions # None
                 PROVE  FALSE
      BY DEF SessionsAreReleased
    <2>1. sessions \in Peers
      BY DEF IInv, TypeOK
    <2>2. members[sessions] = {}
      BY <2>1 DEF IInv, MembersAreIn, TypeOK
    <2>3. QED
      BY <2>1, <2>2 DEF IInv, TypeOK, ClosedIsUnregistered, EmptyIsTransient
  <1>2. QED
    BY <1>1, Invariance, PTL

=============================================================================
