---------------------------- MODULE PacketBuffer ----------------------------
(***************************************************************************)
(* The packets of one incoming video stream: Buffer.calc                   *)
(* (internal/buffer/buffer.go) and Bucket (bucket.go) with its nackQueue   *)
(* (nack.go).  calc, under the Buffer's lock, decides by the 16-bit        *)
(* sequence number whether a packet is the newest one; the Bucket stores   *)
(* it in a ring, relative to the position of the newest, and has the       *)
(* nackQueue ask for what is missing in between.                           *)
(*                                                                         *)
(* The sender numbers its packets 1, 2, 3, ...; the sequence number is     *)
(* taken modulo Modulus.  A packet's content is its number.  The network   *)
(* may lose, delay and reorder packets, within bounds; a packet does not   *)
(* arrive twice (SRTP's replay protection, external).  The memory of the   *)
(* ring comes from a pool, where the Buffer of an earlier stream has put   *)
(* it back with its packets in it.                                         *)
(***************************************************************************)
EXTENDS NackQueue

CONSTANTS
    MaxSteps,    \* Bucket.maxSteps
    StartSN,     \* packet i has sequence number (StartSN + i) % Modulus
    MaxIndex,    \* bound: packets sent
    Leftover,    \* sequence numbers of the packets that an earlier stream has left
    MaxGap,      \* bound: how many packets the newest one may be ahead
    MaxLate      \* bound: how many packets a late one may be behind

ASSUME BufferAssumption ==
    /\ {MaxSteps, MaxIndex, MaxGap} \subseteq Nat \ {0}
    /\ {StartSN, MaxLate} \subseteq Nat
    /\ Leftover \subseteq 0 .. Modulus - 1
    /\ MaxSteps + 1 < Modulus \div 2
    /\ MaxGap < Modulus \div 2 /\ MaxLate < Modulus \div 2

VARIABLES
    received,  \* packets that have arrived (history)
    maxSeqNo,  \* Buffer.maxSeqNo
    headSN,    \* Bucket.headSN
    step,      \* Bucket.step
    buf,       \* Bucket.buf: the packet in each slot
    nacker,    \* Bucket.nacker
    asked      \* how often each packet has been asked for (history)

bucketVars == <<headSN, step, buf>>
bufferVars == <<received, maxSeqNo, bucketVars, nacker, asked>>

Packets == 1 .. MaxIndex
Empty == 0

\* The packet of an earlier stream with sequence number sn is -1 - sn.
Stale == {-1 - sn : sn \in Leftover}

Contents == Packets \cup {Empty} \cup Stale

SNOf(i) == (StartSN + i) % Modulus

\* The sequence number in a slot that is not empty.
NumberIn(x) == IF x < 0 THEN -1 - x ELSE SNOf(x)

newest == IF received = {} THEN 0 ELSE Max(received)

\* Bind takes the memory of the ring from videoPool: new memory is zero, used
\* memory is as Close has put it back.
PoolMemory == [0 .. MaxSteps - 1 -> {Empty} \cup Stale]

BucketInit ==
    /\ received = {}
    /\ maxSeqNo = 0
    /\ headSN = 0
    /\ step = 0
    /\ buf \in PoolMemory
    /\ nacker = NewNackQueue
    /\ asked = [i \in Packets |-> 0]

-----------------------------------------------------------------------------
(* The Bucket.                                                             *)

\* Where set and get look for sn.
Position(sn) == step - ((Minus(headSN, sn) + 1) % Modulus)

\* Variant: the sequence number in the slot is not compared.
GetUnchecked(sn) ==
    LET pos  == Position(sn)
        slot == IF pos < 0 THEN MaxSteps + pos ELSE pos
    IN  IF slot < 0 THEN Empty ELSE buf[slot]

\* Bucket.get: the packet with sequence number sn, or Empty.
Get(sn) ==
    LET pos  == Position(sn)
        slot == IF pos < 0 THEN MaxSteps + pos ELSE pos
    IN  IF slot < 0 THEN Empty
        ELSE IF buf[slot] # Empty /\ NumberIn(buf[slot]) = sn THEN buf[slot] ELSE Empty

TooOld(sn) == Minus(headSN, sn) >= MaxSteps + 1

\* Bucket.set: a late packet.  It is refused if it is too old.
Set(i) ==
    LET pos  == Position(SNOf(i))
        slot == IF pos < 0 THEN MaxSteps + pos ELSE pos
    IN  IF TooOld(SNOf(i)) \/ slot < 0 THEN buf ELSE [buf EXCEPT ![slot] = i]

\* Variant: the places of the missing packets are not left free.
StepOverNothing(diff) == step

\* step after the loop over the missing packets.
StepOver(diff) == (step + diff - 1) % MaxSteps

\* The n sequence numbers before sn are pushed, the highest first.
PushBefore(q, sn, n) ==
    LET push[k \in 0 .. n] == IF k = 0 THEN q ELSE PushNack(push[k - 1], Minus(sn, k))
    IN  push[n]

\* Variant: the last missing packet is overlooked.
PushMissingButOne(q, sn, diff) == PushBefore(q, sn, IF diff < 2 THEN 0 ELSE diff - 2)

\* The sequence numbers between the old head and sn.
PushMissing(q, sn, diff) == PushBefore(q, sn, diff - 1)

\* onLost is called only if there is something to ask for; otherwise a request
\* for a key frame, result.keyFrame, is dropped.  A sequence number asks for the
\* newest packet that has it.
OnLost(result) ==
    asked' = [i \in Packets |->
        IF SNOf(i) \in result.asked /\ i \in Max(received') + 1 - Modulus .. Max(received')
        THEN asked[i] + 1 ELSE asked[i]]

\* Bucket.addPacket for the newest packet; head is the head before it.
AddLatest(i, head) ==
    LET diff   == Minus(SNOf(i), head)
        at     == StepOver(diff)
        result == Pairs(PushMissing(nacker, SNOf(i), diff))
    IN  /\ headSN' = SNOf(i)
        /\ nacker' = result.queue
        /\ OnLost(result)
        /\ buf' = [buf EXCEPT ![at] = i]
        /\ step' = (at + 1) % MaxSteps

\* Bucket.addPacket for a packet that is not the newest.
AddLate(i) ==
    /\ nacker' = RemoveNack(nacker, SNOf(i))
    /\ buf' = Set(i)
    /\ UNCHANGED <<headSN, step, asked>>

-----------------------------------------------------------------------------
(* Buffer.calc.                                                            *)

\* The first packet.  One that was sent before it may still arrive.
First(i) ==
    /\ received = {}
    /\ i \in {1, 2}
    /\ received' = {i}
    /\ maxSeqNo' = SNOf(i)
    /\ AddLatest(i, Minus(SNOf(i), 1))

\* A packet that the sequence numbers show to be newer than all others.
Newer(i) ==
    /\ received # {}
    /\ i \in newest - MaxLate .. newest + MaxGap
    /\ i \notin received
    /\ AtOrAfter(SNOf(i), maxSeqNo)
    /\ received' = received \cup {i}
    /\ maxSeqNo' = SNOf(i)
    /\ AddLatest(i, headSN)

Late(i) ==
    /\ received # {}
    /\ i \in newest - MaxLate .. newest + MaxGap
    /\ i \notin received
    /\ ~AtOrAfter(SNOf(i), maxSeqNo)
    /\ received' = received \cup {i}
    /\ UNCHANGED maxSeqNo
    /\ AddLate(i)

BucketNext == \E i \in Packets : First(i) \/ Newer(i) \/ Late(i)

BucketSpec == BucketInit /\ [][BucketNext]_bufferVars

-----------------------------------------------------------------------------
(* Properties.                                                             *)

BucketTypeOK ==
    /\ received \subseteq Packets
    /\ {maxSeqNo, headSN} \subseteq 0 .. Modulus - 1
    /\ step \in 0 .. MaxSteps - 1
    /\ buf \in [0 .. MaxSteps - 1 -> Contents]
    /\ nacker \in NackQueues
    /\ asked \in [Packets -> Nat]

\* Every packet that arrived and is less than MaxSteps behind the newest can
\* be retransmitted: it is found under its sequence number, whatever was lost
\* or reordered around it.
RecentAreCached ==
    \A i \in received : newest - i < MaxSteps => Get(SNOf(i)) = i

\* A packet that has arrived is found under its sequence number or no longer,
\* but never another one in its place.  The number of a lost packet may yield a
\* packet that is a whole cycle of the numbers older, or one of an earlier
\* stream, but only as long as nothing has arrived for its slot since.
NeverAnotherPacket ==
    \A i \in Packets :
        i \in newest + 1 - Modulus \div 2 .. newest =>
            LET j == Get(SNOf(i))
            IN  \/ j \in {i, Empty}
                \/ /\ i \notin received
                   /\ j \in Stale \/ (j \in received /\ i - j >= Modulus)
                   /\ \A k \in received : k > j => (k - i) % MaxSteps # 0

\* The packets after the first one that are missing.
Missing == {i \in Packets : i < newest /\ i \notin received /\ \E j \in received : j < i}

Queued(i) == \E k \in DOMAIN nacker.nacks : nacker.nacks[k].sn % Modulus = SNOf(i)

\* Before the sequence numbers wrap around for the first time.
FirstCycle == StartSN + newest < Modulus

\* What has arrived is not asked for again: a late packet is taken off the
\* nackQueue, as long as the sequence numbers have not wrapped around.
ArrivedIsNotAskedFor == FirstCycle => \A i \in received : ~Queued(i)

\* In the first cycle every packet that is missing between two heads is put
\* on the queue and asked for exactly maxNackTimes times before it is given
\* up, however the rounds of NACKs fall between further losses and arrivals.
MissingIsAskedFor ==
    FirstCycle =>
        \A i \in Missing : asked[i] = MaxNackTimes \/ (Queued(i) /\ asked[i] < MaxNackTimes)

-----------------------------------------------------------------------------
(* The inductive invariant of the ring.                                    *)

\* The slot of a packet is as far behind the step as the packet is behind the
\* newest one; it stays the same while both go on.
Slot(i) == (step - 1 - (newest - i)) % MaxSteps

RingTypeOK ==
    /\ received \subseteq Packets
    /\ step \in 0 .. MaxSteps - 1
    /\ buf \in [0 .. MaxSteps - 1 -> Contents]

\* The newest packet is the one with the number in maxSeqNo and in the head.
HeadOK ==
    IF received = {} THEN step = 0 /\ \A p \in 0 .. MaxSteps - 1 : buf[p] <= 0
    ELSE /\ newest \in received /\ \A j \in received : j <= newest
         /\ maxSeqNo = SNOf(newest) /\ headSN = SNOf(newest)

\* A slot holds the newest of the packets that have arrived for it.
SlotsOK ==
    /\ \A p \in 0 .. MaxSteps - 1 : buf[p] > 0 => buf[p] \in received /\ Slot(buf[p]) = p
    /\ \A i \in received : buf[Slot(i)] >= i

RingInv == RingTypeOK /\ HeadOK /\ SlotsOK

-----------------------------------------------------------------------------
(* The inductive invariants of the nackQueue.                              *)

\* remove and push search the queue by halving: it is sorted, and but for the
\* zeros it begins with, without duplicates.
Ascending(nacks) ==
    \A j, k \in DOMAIN nacks :
        j < k => nacks[j].sn < nacks[k].sn \/ (nacks[j].sn = 0 /\ nacks[k].sn = 0)

\* In the first cycle the queue counts no cycle, and holds, beside zeros, numbers
\* of packets that are missing.
QueueOK ==
    FirstCycle =>
        /\ nacker.cycles = 0
        /\ nacker.maxSN <= StartSN + newest
        /\ Ascending(nacker.nacks)
        /\ \A k \in DOMAIN nacker.nacks :
              nacker.nacks[k].sn # 0 => nacker.nacks[k].sn - StartSN \in Missing

NackInv == BucketTypeOK /\ HeadOK /\ QueueOK

\* What is pushed after the last round of NACKs and before the next one.
Waiting == IF nacker.counter = 2 THEN 1 ELSE 0

\* The longer an entry of the queue has been asked for, the more entries may be
\* behind it: at most MaxGap for each round.
RoomOK ==
    /\ nacker.counter <= 2
    /\ FirstCycle =>
         \A k \in DOMAIN nacker.nacks :
             nacker.nacks[k].sn # 0 =>
                 Len(nacker.nacks) - k < nacker.nacks[k].nacked * MaxGap + Waiting

\* A packet has been asked for as often as its entry says; a missing packet that
\* has no entry has been given up.  A packet that is sent before the first one to
\* arrive leaves no packet between them.
CountsOK ==
    /\ received # {} => received \cap {1, 2} # {}
    /\ FirstCycle =>
         /\ \A i \in Packets : i > newest => asked[i] = 0
         /\ \A k \in DOMAIN nacker.nacks :
               nacker.nacks[k].sn # 0 =>
                   asked[nacker.nacks[k].sn - StartSN] = nacker.nacks[k].nacked
         /\ \A i \in Missing :
               \/ asked[i] = MaxNackTimes
               \/ \E k \in DOMAIN nacker.nacks : nacker.nacks[k].sn = StartSN + i

AskInv == NackInv /\ RoomOK /\ CountsOK

=============================================================================
