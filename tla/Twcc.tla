-------------------------------- MODULE Twcc --------------------------------
(***************************************************************************)
(* Transport-wide congestion control feedback (internal/buffer/twcc.go).   *)
(*                                                                         *)
(* The Responder notes number and arrival time of the packets of all       *)
(* tracks of a publisher and now and then builds a feedback packet: a      *)
(* status for every number since the last feedback, packed into run-length *)
(* and vector chunks, and the arrival times as differences.                *)
(*                                                                         *)
(* Position p of the sender has number (StartNo + p) % Period.  Time is    *)
(* counted in us; a difference is told in units of 250 us.                 *)
(***************************************************************************)
EXTENDS Integers, Sequences, FiniteSets, SequencesExt, FiniteSetsExt

CONSTANTS
    Period,       \* numbers are modulo Period (2^16)
    StartNo,      \* number of the first position
    WrapLow, WrapHigh,       \* a number below one after one above the other has wrapped
    MinCount, MaxCount,      \* packets that allow (20) and force (100) a feedback
    ReportDelta, MarkDelta,  \* time after which it is made, at the end of a frame
    Int16,        \* differences are from -Int16 to Int16 - 1 (2^15)
    Tick,         \* unit of the differences (250 us)
    RefUnit,      \* unit of the reference time (64 ms, 256 ticks)
    Bits,         \* symbols of one bit in a vector chunk (14)
    ChunkRoom,    \* chunks that payload has room for after the header (42)
    DeltaRoom,    \* bytes of deltas (200)
    SSRCs,        \* the SSRCs of the media source
    Steps,        \* bound: times between two arrivals
    MaxBehind,    \* bound: how far behind the newest a packet may arrive
    MaxLost,      \* bound: packets lost in a row
    MaxPos        \* bound: the last position

ASSUME TwccAssumption ==
    /\ {Period, StartNo, MinCount, MaxCount, Int16, Tick, RefUnit, Bits} \subseteq Nat \ {0}
    /\ Bits % 2 = 0 /\ RefUnit < Int16
    /\ Steps \subseteq Nat /\ SSRCs \subseteq Nat /\ {ChunkRoom, DeltaRoom} \subseteq Nat
    /\ {WrapLow, WrapHigh, ReportDelta, MarkDelta, MaxBehind, MaxLost, MaxPos} \subseteq Nat
    \* The stream does not begin next to a wrap-around, and loss and reordering
    \* are small against the distance of the two limits.
    /\ StartNo + MaxLost < Period /\ MaxLost < WrapLow /\ WrapLow + MaxBehind <= WrapHigh
    /\ WrapHigh + MaxBehind + MaxLost + 2 <= Period

VARIABLES
    twcc,      \* the Responder
    feedback,  \* the last feedback packet that tells anything, or that does not fit
    now,       \* the clock
    arrival,   \* history: the arrival times of the positions, or Never
    newestPos  \* history: the newest position, -1 at first

twccVars == <<twcc, feedback, now, arrival, newestPos>>

Never == -1

TwccInit ==
    /\ twcc \in [extInfo : {{}}, lastReport : {ReportDelta}, cycles : {0}, lastExtSN : {0},
                 lastSn : {0}, pktCtn : {0}, mSSRC : SSRCs]
    /\ feedback = [base |-> StartNo, count |-> 0, ref |-> 0, chunks |-> <<>>, deltas |-> <<>>]
    /\ now = 0
    /\ arrival = [p \in 0 .. MaxPos |-> Never]
    /\ newestPos = -1

-----------------------------------------------------------------------------
(* The packets of a feedback: received ones, and the numbers in between.   *)

\* Late packets, whose numbers were reported before, are dropped.
Kept(r) == {e \in r.extInfo : e.ext >= r.lastExtSN}

\* Variant: numbers missing since the last feedback are not filled in.
FirstNumberKept(r) == Min({e.ext : e \in Kept(r)} \ {0})

\* Where the filling in of missing numbers begins: lastExtSN = 0 stands for
\* nothing reported yet.
FirstNumber(r) ==
    IF r.lastExtSN # 0 THEN r.lastExtSN + 1 ELSE Min({e.ext : e \in Kept(r)} \ {0})

\* tccPkts, sorted; a missing one has no time.
TccPkts(r) ==
    LET kept == {e.ext : e \in Kept(r)}
        numbers == kept \cup (FirstNumber(r) .. Max(kept))
        Time(n) == IF n \in kept THEN (CHOOSE e \in Kept(r) : e.ext = n).time ELSE Never
        Nth(i) == CHOOSE n \in numbers : Cardinality({k \in numbers : k <= n}) = i
    IN  [i \in 1 .. Cardinality(numbers) |-> [ext |-> Nth(i), time |-> Time(Nth(i))]]

Received(pkts) == SelectSeq(pkts, LAMBDA e : e.time # Never)

RefTime(pkts) == Received(pkts)[1].time \div (RefUnit * Tick)

\* A difference out of range becomes the greatest or the least number, as the
\* sign of its low 16 bits says.
ToInt16(delta) ==
    IF delta \in -Int16 .. Int16 - 1 THEN delta
    ELSE IF delta % (2 * Int16) \in 1 .. Int16 - 1 THEN Int16 - 1 ELSE -Int16

\* Integer division truncates.
InTicks(t) == IF t >= 0 THEN t \div Tick ELSE -((-t) \div Tick)

\* The differences to the packet before, or to the reference time.  What the
\* division drops is not carried over to the next one.
Deltas(pkts) ==
    LET got == Received(pkts)
        Before(i) == IF i = 1 THEN RefTime(pkts) * RefUnit * Tick ELSE got[i - 1].time
    IN  [i \in DOMAIN got |-> ToInt16(InTicks(got[i].time - Before(i)))]

\* A difference that fits into a byte.
IsSmall(delta) == delta \in 0 .. RefUnit - 1

-----------------------------------------------------------------------------
(* The chunks.                                                             *)

NotReceived  == 0
SmallDelta   == 1
LargeDelta   == 2
WithoutDelta == 3  \* marks that no status precedes

OneBit == Bits
TwoBit == Bits \div 2

\* The statuses.
Statuses(pkts) ==
    LET Rank(i) == Len(Received(SubSeq(pkts, 1, i)))
    IN  [i \in DOMAIN pkts |->
            IF pkts[i].time = Never THEN NotReceived
            ELSE IF IsSmall(Deltas(pkts)[Rank(i)]) THEN SmallDelta
            ELSE LargeDelta]

RunLengthChunk(status, n) == [kind |-> "run", symbols |-> [i \in 1 .. n |-> status]]

\* A vector of size symbols, of which the first ones are given.
SymbolChunk(size, list) ==
    [kind |-> IF size = OneBit THEN "one" ELSE "two",
     symbols |-> [i \in 1 .. size |-> IF i <= Len(list) THEN list[i] ELSE NotReceived]]

Fresh == [list |-> <<>>, same |-> TRUE, last |-> WithoutDelta, max |-> NotReceived, chunks |-> <<>>]

\* Variant: equal statuses become a run, however few they are.
EndRunAlways(a, status) ==
    IF ~a.same \/ a.last \in {status, WithoutDelta} THEN a
    ELSE [Fresh EXCEPT !.chunks = Append(a.chunks, RunLengthChunk(a.last, Len(a.list)))]

\* The status differs from those before it: more than TwoBit equal ones
\* become a run.
EndRun(a, status) ==
    IF ~a.same \/ a.last \in {status, WithoutDelta} THEN a
    ELSE IF Len(a.list) > TwoBit
    THEN [Fresh EXCEPT !.chunks = Append(a.chunks, RunLengthChunk(a.last, Len(a.list)))]
    ELSE [a EXCEPT !.same = FALSE]

PushBack(a, status) ==
    [a EXCEPT !.list = Append(@, status), !.last = status, !.max = IF status > @ THEN status ELSE @]

\* Variant: what is left on the list is taken to be all equal.
WriteVectorSame(a, size) ==
    LET rest == SubSeq(a.list, size + 1, Len(a.list))
    IN  [list |-> rest, same |-> TRUE,
         last |-> IF rest = <<>> THEN WithoutDelta ELSE rest[Len(rest)],
         max |-> Max({NotReceived} \cup ToSet(rest)),
         chunks |-> Append(a.chunks, SymbolChunk(size, SubSeq(a.list, 1, size)))]

\* A full vector is written, and what is left on the list looked through.
WriteVector(a, size) ==
    LET rest == SubSeq(a.list, size + 1, Len(a.list))
    IN  [list |-> rest, same |-> \A i \in DOMAIN rest : rest[i] = rest[1],
         last |-> IF rest = <<>> THEN WithoutDelta ELSE rest[Len(rest)],
         max |-> Max({NotReceived} \cup ToSet(rest)),
         chunks |-> Append(a.chunks, SymbolChunk(size, SubSeq(a.list, 1, size)))]

\* One turn of the loop.
AddStatus(a, status) ==
    LET c == PushBack(EndRun(a, status), status)
    IN  IF ~c.same /\ c.max = LargeDelta /\ Len(c.list) >= TwoBit THEN WriteVector(c, TwoBit)
        ELSE IF ~c.same /\ Len(c.list) >= OneBit THEN WriteVector(c, OneBit)
        ELSE c

\* How many statuses of a mixed rest are written: the loop compares its index
\* with the length of the list that it shortens.
Written(n) == (n + 1) \div 2

\* The rest: a run, or a vector that is not full.
WriteRest(a) ==
    IF a.list = <<>> THEN a.chunks
    ELSE Append(a.chunks,
            IF a.same THEN RunLengthChunk(a.last, Len(a.list))
            ELSE SymbolChunk(IF a.max = LargeDelta THEN TwoBit ELSE OneBit,
                             SubSeq(a.list, 1, Written(Len(a.list)))))

Encode(statuses) == FoldLeft(AddStatus, Fresh, statuses)

LargeDeltas(f) == Cardinality({i \in DOMAIN f.deltas : ~IsSmall(f.deltas[i])})

\* The arrays payload and deltas have room for it; a large difference takes two
\* bytes.
Fits(f) ==
    Len(f.chunks) <= ChunkRoom /\ Len(f.deltas) + LargeDeltas(f) <= DeltaRoom

\* An index was out of range, which ends the process.
Panicked == ~Fits(feedback)

-----------------------------------------------------------------------------
\* buildTransportCCPacket.  If all packets are late only an RTCP header is sent,
\* which tells nothing.
Feedback(r) ==
    LET pkts == TccPkts(r)
    IN  IF Kept(r) = {}
        THEN /\ twcc' = [r EXCEPT !.extInfo = {}, !.lastReport = now']
             /\ UNCHANGED feedback
        ELSE /\ twcc' = [r EXCEPT !.extInfo = {}, !.lastReport = now',
                                  !.lastExtSN = pkts[Len(pkts)].ext, !.pktCtn = (@ + 1) % 256]
             /\ feedback' = [base |-> pkts[1].ext % Period, count |-> Len(pkts) % Period,
                             ref |-> RefTime(pkts), chunks |-> WriteRest(Encode(Statuses(pkts))),
                             deltas |-> Deltas(pkts)]

\* Variant: a wrap-around only counts if the last number was the greatest.
CyclesAtEnd(sn) ==
    IF sn < WrapLow /\ twcc.lastSn = Period - 1 THEN twcc.cycles + Period ELSE twcc.cycles

\* A small number after a great one: the numbers have wrapped around.
Cycles(sn) == IF sn < WrapLow /\ twcc.lastSn > WrapHigh THEN twcc.cycles + Period ELSE twcc.cycles

\* The packet is noted.
Note(sn, time) ==
    [twcc EXCEPT !.extInfo = @ \cup {[ext |-> Cycles(sn) + sn, time |-> time]},
                 !.cycles = Cycles(sn), !.lastSn = sn]

\* A feedback is due, with n packets noted and delta since the last one.
Due(n, delta, marker) ==
    \/ n > MinCount /\ twcc.mSSRC # 0 /\ delta >= ReportDelta
    \/ n > MaxCount
    \/ marker /\ delta >= MarkDelta

\* Positions that may come next.  No late packet crosses a wrap-around.
ComingNext ==
    {p \in 0 .. MaxPos :
        /\ arrival[p] = Never
        /\ p >= newestPos - MaxBehind /\ p <= newestPos + MaxLost + 1
        /\ (StartNo + p) \div Period >= (StartNo + newestPos) \div Period}

\* Responder.Push
Push(p, step, marker) ==
    LET r == Note((StartNo + p) % Period, now + step)
    IN  /\ ~Panicked
        /\ p \in ComingNext
        /\ now' = now + step
        /\ arrival' = [arrival EXCEPT ![p] = now']
        /\ newestPos' = IF p > newestPos THEN p ELSE newestPos
        /\ \/ /\ Due(Cardinality(r.extInfo), now' - twcc.lastReport, marker)
              /\ Feedback(r)
           \/ /\ ~Due(Cardinality(r.extInfo), now' - twcc.lastReport, marker)
              /\ twcc' = r
              /\ UNCHANGED feedback

TwccNext == \E p \in 0 .. MaxPos, step \in Steps, marker \in BOOLEAN : Push(p, step, marker)

TwccSpec == TwccInit /\ [][TwccNext]_twccVars

-----------------------------------------------------------------------------
(* Properties.                                                             *)

TwccTypeOK ==
    /\ \A e \in twcc.extInfo : e.ext \in Nat /\ e.time \in 0 .. now
    /\ Cardinality(twcc.extInfo) <= MaxCount
    /\ twcc.cycles % Period = 0 /\ twcc.lastExtSN \in Nat /\ twcc.lastSn \in 0 .. Period - 1
    /\ twcc.pktCtn \in 0 .. 255
    /\ feedback.base \in 0 .. Period - 1 /\ feedback.count \in 0 .. Period - 1
    /\ arrival \in [0 .. MaxPos -> {Never} \cup 0 .. now]
    /\ newestPos \in -1 .. MaxPos

\* What a client reads: the statuses of count numbers, ...
Decode(f) ==
    SubSeq(FoldLeft(LAMBDA list, chunk : list \o chunk.symbols, <<>>, f.chunks), 1, f.count)

\* ... of which so many of the first i have arrived, ...
Rank(f, i) == Len(SelectSeq(SubSeq(Decode(f), 1, i), LAMBDA s : s # NotReceived))

\* ... and the time of the i-th one, if it is told to have arrived.
DecodeTime(f, i) == Tick * FoldLeft(+, f.ref * RefUnit, SubSeq(f.deltas, 1, Rank(f, i)))

InRange(f) == \A i \in DOMAIN f.deltas : f.deltas[i] \notin {-Int16, Int16 - 1}

Told == twcc'.pktCtn # twcc.pktCtn /\ Fits(feedback')

\* In a last vector that is not full the second half of the statuses is not
\* written (see Written) and reads as not received.
Sure(f) ==
    LET last == f.chunks[Len(f.chunks)]
    IN  IF last.kind = "run" THEN f.count ELSE f.count - Len(last.symbols) \div 2

\* A client learns from every feedback which packets have arrived, whatever was
\* lost, reordered or delayed and however the statuses fall into runs and vectors
\* of one or two bits; in the last half vector arrivals may be missing, but none
\* is made up.  It learns when they have arrived, but less than a Tick off for
\* every packet since the reference time, and only if no difference is at the
\* limit of 16 bits.
FeedbackIsTrue ==
    [][Told =>
        LET f == feedback'
            start == twcc'.lastExtSN - f.count + 1 - StartNo
        IN  \A i \in 1 .. f.count :
                LET time  == arrival'[start + i - 1]
                    drift == Rank(f, i) * (Tick - 1)
                IN  IF Decode(f)[i] = NotReceived
                    THEN i <= Sure(f) => time = Never
                    ELSE /\ time # Never
                         /\ InRange(f) => time - DecodeTime(f, i) \in -drift .. drift]_twccVars

\* A feedback overflows the arrays only if there was so much loss that it tells
\* of more than TwoBit numbers for each chunk there is room for, or if DeltaRoom -
\* MaxCount of its packets (100 of 101) have large differences.
OverflowNeedsLoss ==
    Panicked =>
        \/ feedback.count > ChunkRoom * TwoBit
        \/ LargeDeltas(feedback) >= DeltaRoom - MaxCount

\* Each feedback begins with the number after the last one of the feedback
\* before: no number is left out or told twice, over a wrap-around as well.
NumbersFollow ==
    [][Told /\ feedback.count > 0 =>
          feedback'.base = (feedback.base + feedback.count) % Period]_twccVars

\* The newest number that was told is that of a packet that arrived, and no
\* packet that arrived lies beyond what was told or noted.
NothingBeyond ==
    newestPos >= 0 =>
        /\ twcc.lastExtSN <= StartNo + newestPos
        /\ twcc.extInfo = {} => twcc.lastExtSN = StartNo + newestPos

-----------------------------------------------------------------------------
(* The inductive invariant behind NothingBeyond and NumbersFollow.         *)

ResponderTypeOK ==
    /\ twcc \in [extInfo : SUBSET [ext : Nat, time : Nat], lastReport : Nat, cycles : Nat,
                 lastExtSN : Nat, lastSn : 0 .. Period - 1, pktCtn : 0 .. 255,
                 mSSRC : SSRCs]
    /\ IsFiniteSet(twcc.extInfo)
    /\ now \in Nat

\* cycles and lastSn are those of the position that arrived last, which is in
\* the cycle of the newest one.
CyclesOK ==
    IF newestPos = -1 THEN twcc.cycles = 0 /\ twcc.lastSn = 0
    ELSE /\ twcc.cycles % Period = 0
         /\ twcc.cycles + twcc.lastSn - StartNo \in 0 .. newestPos
         /\ twcc.cycles + twcc.lastSn - StartNo >= newestPos - MaxBehind
         /\ twcc.cycles <= StartNo + newestPos /\ StartNo + newestPos < twcc.cycles + Period

\* What is noted has arrived and was not told yet; what has arrived is noted or
\* precedes a number that was told.
NotedOK ==
    /\ \A e \in twcc.extInfo : e.ext - StartNo \in 0 .. newestPos /\ e.ext # twcc.lastExtSN
    /\ \A p \in 0 .. MaxPos :
           arrival[p] # Never =>
               p <= newestPos /\ (StartNo + p <= twcc.lastExtSN \/ \E e \in twcc.extInfo : e.ext = StartNo + p)
    /\ newestPos >= 0 => arrival[newestPos] # Never

\* The last number that was told is that of a packet that arrived, and the last
\* feedback ends with it.
ToldOK ==
    IF twcc.lastExtSN = 0 THEN feedback.count = 0
    ELSE /\ twcc.lastExtSN - StartNo \in 0 .. newestPos
         /\ arrival[twcc.lastExtSN - StartNo] # Never
         /\ (feedback.base + feedback.count) % Period = (twcc.lastExtSN + 1) % Period

TwccInv == TwccTypeOK /\ ResponderTypeOK /\ CyclesOK /\ NotedOK /\ ToldOK

=============================================================================
