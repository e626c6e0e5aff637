----------------------------- MODULE NackQueue -----------------------------
(***************************************************************************)
(* The queue of missing packets of an incoming stream                      *)
(* (internal/buffer/nack.go).  Its operations are operators from one queue *)
(* to the next.  Entries are kept sorted by extended sequence number: the  *)
(* sequence number plus the cycles the queue has counted so far.  A list   *)
(* of NackPairs is represented by the sequence numbers it asks for.        *)
(***************************************************************************)
EXTENDS Integers, SequencesExt

CONSTANTS
    Modulus,       \* sequence numbers are below it (2^16)
    MaxNackTimes,  \* maxNackTimes
    MaxNackCache,  \* maxNackCache
    PairSpan       \* packets a NackPair can name beside its PacketID (16)

ASSUME NackAssumption ==
    /\ {Modulus, MaxNackTimes, MaxNackCache, PairSpan} \subseteq Nat \ {0}
    /\ Modulus % 2 = 0
    /\ PairSpan < Modulus \div 2

\* a - b in the width of a sequence number.
Minus(a, b) == (Modulus + a - b) % Modulus

\* (a - b) & 0x8000 == 0
AtOrAfter(a, b) == Minus(a, b) < Modulus \div 2

NackEntries == [sn : Nat, nacked : 0 .. MaxNackTimes]

\* counter is a byte in the code: it stays small, see PacketBuffer's RoomOK.
NackQueues ==
    [nacks : Seq(NackEntries), counter : Nat, maxSN : Nat, kfSN : Nat, cycles : Nat]

NewNackQueue ==
    [nacks   |-> [i \in 1 .. MaxNackCache + 1 |-> [sn |-> 0, nacked |-> 0]],
     counter |-> 0,
     maxSN   |-> 0,
     kfSN    |-> 0,
     cycles  |-> 0]

\* The number of entries before extSN.
Before(q, extSN) == Cardinality({i \in DOMAIN q.nacks : q.nacks[i].sn < extSN})

Holds(q, extSN) == \E i \in DOMAIN q.nacks : q.nacks[i].sn = extSN

\* The queue after counting a cycle if sn has wrapped around.
Advance(q, sn) ==
    IF q.maxSN = 0 THEN [q EXCEPT !.maxSN = sn]
    ELSE IF ~AtOrAfter(sn, q.maxSN) THEN q
    ELSE [q EXCEPT !.maxSN = sn, !.cycles = IF sn < q.maxSN THEN @ + Modulus ELSE @]

\* nackQueue.push: no duplicates; the smallest entry makes room.
PushNack(q, sn) ==
    LET a     == Advance(q, sn)
        extSN == a.cycles + sn
        n     == InsertAt(a.nacks, Before(a, extSN) + 1, [sn |-> extSN, nacked |-> 0])
    IN  IF Holds(a, extSN) THEN a
        ELSE [a EXCEPT !.nacks = IF Len(n) > MaxNackCache THEN Tail(n) ELSE n,
                       !.counter = @ + 1]

\* Variant: nothing is removed.
RemoveNoNack(q, sn) == q

\* nackQueue.remove
RemoveNack(q, sn) ==
    LET extSN == q.cycles + sn
    IN  IF Holds(q, extSN) THEN [q EXCEPT !.nacks = RemoveAt(@, Before(q, extSN) + 1)] ELSE q

\* One more sequence number for the NackPairs: PacketID 0 means none yet, a
\* number beyond the span of the PacketID begins a new pair.
AddToPairs(np, sn) ==
    IF np.id = 0 \/ sn > (np.id + PairSpan) % Modulus
    THEN [np EXCEPT !.id = sn, !.asked = IF sn = 0 THEN @ ELSE @ \cup {sn}]
    ELSE [np EXCEPT !.asked = IF Minus(sn, np.id) \in 1 .. PairSpan THEN @ \cup {sn} ELSE @]

GivenUp(e) == e.nacked >= MaxNackTimes

\* The body of the loop in pairs: an entry that is not given up is kept, counted
\* and asked for.
Visit(np, e) ==
    IF GivenUp(e) THEN np
    ELSE [AddToPairs(np, e.sn % Modulus) EXCEPT
             !.kept = Append(@, [sn |-> e.sn, nacked |-> e.nacked + 1])]

\* The loop of pairs.
VisitAll(nacks) ==
    LET visit[k \in 0 .. Len(nacks)] ==
            IF k = 0 THEN [id |-> 0, asked |-> {}, kept |-> <<>>]
            ELSE Visit(visit[k - 1], nacks[k])
    IN  visit[Len(nacks)]

\* nackQueue.pairs, every third call or push: the sequence numbers to ask for
\* once more, whether a key frame is to be asked for, and the queue after it.
Pairs(q) ==
    LET all  == VisitAll(q.nacks)
        late == {x \in {q.nacks[i].sn : i \in {j \in DOMAIN q.nacks : GivenUp(q.nacks[j])}} :
                    x > q.kfSN}
    IN  IF q.counter < 2
        THEN [asked |-> {}, keyFrame |-> FALSE, queue |-> [q EXCEPT !.counter = @ + 1]]
        ELSE [asked |-> all.asked,
              keyFrame |-> late # {},
              queue |-> [q EXCEPT
                  !.counter = 0,
                  !.kfSN = IF late = {} THEN @ ELSE Max(late),
                  !.nacks = all.kept]]

=============================================================================
