--------------------------- MODULE ReceptionReport ---------------------------
(***************************************************************************)
(* What a Buffer counts and reports about its track                        *)
(* (internal/buffer/buffer.go: calc, buildReceptionReport,                 *)
(* buildREMBPacket).                                                       *)
(*                                                                         *)
(* The sender numbers its packets 0, 1, 2, ...; packet p carries sequence  *)
(* number SN(p).  Packets get lost and reordered.  The Buffer sees the     *)
(* sequence numbers only; the history variables know the positions.        *)
(* Jitter, bytes and the delay since a sender report are left out.         *)
(***************************************************************************)
EXTENDS Integers, FiniteSets

CONSTANTS
    Mod,         \* sequence numbers are modulo Mod (2^16)
    Big,         \* counters are modulo Big (2^32)
    Start,       \* the sequence number of position 0
    Probe,       \* packets that may lower baseSN (25)
    MinBitrate,  \* the least REMB (100000)
    MaxBitrate,  \* Options.MaxBitRate
    Bitrates,    \* bitrates that are measured
    MaxReorder,  \* bound: how far behind the newest a packet may arrive
    MaxLoss,     \* bound: packets lost in a row
    MaxPosition  \* bound: the last position

ASSUME ReportAssumption ==
    /\ {Mod, Big, Probe, MinBitrate, MaxBitrate} \subseteq Nat \ {0}
    /\ {MaxReorder, MaxLoss, MaxPosition} \subseteq Nat /\ Bitrates \subseteq Nat
    /\ Start \in 0 .. Mod - 1
    /\ Big % Mod = 0
    /\ 2 * MaxReorder < Mod /\ 2 * (MaxLoss + 1) < Mod
    \* The stream does not begin next to a wrap-around, and what precedes its
    \* first packet arrives, if at all, among the first Probe ones.
    /\ MaxReorder < Probe
    /\ Start + MaxReorder + Probe * (MaxLoss + 1) < Mod
    \* packetCount does not wrap around: with 0 the counters would start anew.
    /\ MaxPosition + 1 < Big

VARIABLES
    b,        \* the Buffer's counters
    rr,       \* the last report, with its REMB
    lo, top,  \* history: least and greatest position that arrived
    arrived,  \* history: what arrived of Window
    got,      \* history: how many arrived
    parsed,   \* history: every packet could be parsed
    seen      \* history: expected, missing and the bitrate at the last report

vars == <<b, rr, lo, top, arrived, got, parsed, seen>>

Lesser(x, y) == IF x < y THEN x ELSE y

SN(p) == (Start + p) % Mod

\* Positions behind the newest that may still arrive, if they have not.
Window(t) == {p \in t - MaxReorder .. t : p >= 0}

NewCounters ==
    [baseSN |-> 0, maxSeqNo |-> 0, cycles |-> 0, packetCount |-> 0, minPacketProbe |-> 0,
     lastExpected |-> 0, lastReceived |-> 0]

Init ==
    /\ b = NewCounters
    /\ rr = [total |-> 0, fraction |-> 0, last |-> 0, remb |-> 0]
    /\ lo = 0 /\ top = 0 /\ arrived = {} /\ got = 0 /\ parsed = TRUE
    /\ seen = [expected |-> 0, missing |-> 0, bitrate |-> 0]

-----------------------------------------------------------------------------
(* calc counts a packet; c are the counters.                               *)

\* The packet is not behind the newest one.
NotBehind(c, sn) == 2 * ((sn - c.maxSeqNo) % Mod) < Mod

\* Variant: every newer packet moves maxSeqNo, no wrap-around is counted.
NewestUncounted(c, sn) == IF NotBehind(c, sn) THEN [c EXCEPT !.maxSeqNo = sn] ELSE c

\* A newer packet with a lower number: the numbers have wrapped around.
Newest(c, sn) ==
    IF NotBehind(c, sn)
    THEN [c EXCEPT !.cycles = IF sn < c.maxSeqNo THEN (@ + Mod) % Big ELSE @, !.maxSeqNo = sn]
    ELSE c

Count(c, sn) ==
    LET d == IF c.packetCount = 0 THEN [c EXCEPT !.baseSN = sn, !.maxSeqNo = sn] ELSE Newest(c, sn)
    IN  [d EXCEPT !.packetCount = (@ + 1) % Big]

\* Variant: the base stays at the first packet.
ProbeNothing(c, sn) == c

\* Among the first packets the least number becomes the base.
ProbePacket(c, sn) ==
    IF c.minPacketProbe < Probe
    THEN [c EXCEPT !.baseSN = Lesser(@, sn), !.minPacketProbe = @ + 1]
    ELSE c

-----------------------------------------------------------------------------
(* buildReceptionReport and buildREMBPacket.  The differences are of type  *)
(* uint32 and wrap around if more packets arrived than were expected.      *)

ExtMaxSeq(c) == c.cycles + c.maxSeqNo

Expected(c) == (ExtMaxSeq(c) - c.baseSN + 1) % Big

TotalLost(c) == IF c.packetCount < Expected(c) THEN Expected(c) - c.packetCount ELSE 0

ExpectedInterval(c) == (Expected(c) - c.lastExpected) % Big

\* Variant: what was received before is not subtracted.
LostIntervalOfAll(c) == (ExpectedInterval(c) - c.packetCount) % Big

LostInterval(c) == (ExpectedInterval(c) - (c.packetCount - c.lastReceived)) % Big

\* The shift by eight bits is one of 32 bits too.
FractionLost(c) ==
    IF ExpectedInterval(c) # 0
    THEN (((LostInterval(c) * 256) % Big) \div ExpectedInterval(c)) % 256
    ELSE 0

\* LostRate compared with n per cent; 0/0 is not a number.
RateBelow(c, n) == LostInterval(c) * 100 < n * ExpectedInterval(c)
RateAbove(c, n) == LostInterval(c) * 100 > n * ExpectedInterval(c)

Clamp(br) == IF Lesser(br, MaxBitrate) < MinBitrate THEN MinBitrate ELSE Lesser(br, MaxBitrate)

\* Variant: the whole loss rate is taken off, not half of it.
EstimatesLow(c, br) ==
    IF RateBelow(c, 2) THEN {Clamp((br * 109) \div 100 + 2000)}
    ELSE IF ~RateAbove(c, 10) THEN {Clamp(br)}
    ELSE IF LostInterval(c) > ExpectedInterval(c) THEN {MinBitrate, Clamp(MaxBitrate)}
    ELSE {Clamp(((ExpectedInterval(c) - LostInterval(c)) * br) \div ExpectedInterval(c))}

\* The REMB.  If LostRate exceeds 2, a negative number is converted to uint64:
\* 0 or a huge number, as the processor has it.
Estimates(c, br) ==
    IF RateBelow(c, 2) THEN {Clamp((br * 109) \div 100 + 2000)}
    ELSE IF ~RateAbove(c, 10) THEN {Clamp(br)}
    ELSE IF LostInterval(c) > 2 * ExpectedInterval(c) THEN {MinBitrate, Clamp(MaxBitrate)}
    ELSE {Clamp(((2 * ExpectedInterval(c) - LostInterval(c)) * br) \div (2 * ExpectedInterval(c)))}

\* getRTCP, with the bitrate of the last second.
Report(c) ==
    \E br \in Bitrates : \E e \in Estimates(c, br) :
        /\ rr' = [total |-> TotalLost(c), fraction |-> FractionLost(c),
                  last |-> ExtMaxSeq(c), remb |-> e]
        /\ b' = [c EXCEPT !.lastExpected = Expected(c), !.lastReceived = c.packetCount]
        /\ seen' = [expected |-> top' - lo' + 1, missing |-> top' - lo' + 1 - got', bitrate |-> br]

-----------------------------------------------------------------------------
\* The positions that may come next.
Upcoming ==
    IF got = 0 THEN 0 .. MaxReorder
    ELSE (Window(top) \ arrived) \cup (top + 1 .. Lesser(top + MaxLoss + 1, MaxPosition))

Arrives(p) ==
    /\ p \in Upcoming
    /\ got' = got + 1
    /\ lo' = IF got = 0 THEN p ELSE Lesser(lo, p)
    /\ top' = IF got = 0 \/ p > top THEN p ELSE top
    /\ arrived' = (arrived \cup {p}) \cap Window(top')

\* calc returns early: the packet is counted but cannot be parsed.
BadPacket(p) ==
    /\ Arrives(p)
    /\ b' = Count(b, SN(p))
    /\ parsed' = FALSE
    /\ UNCHANGED <<rr, seen>>

\* calc within a second of the last report.
Packet(p) ==
    /\ Arrives(p)
    /\ b' = ProbePacket(Count(b, SN(p)), SN(p))
    /\ UNCHANGED <<rr, parsed, seen>>

\* calc a second after the last report; the first packet starts the clock.
PacketAndReport(p) ==
    /\ got > 0
    /\ Arrives(p)
    /\ Report(ProbePacket(Count(b, SN(p)), SN(p)))
    /\ UNCHANGED parsed

Next == \E p \in 0 .. MaxPosition : BadPacket(p) \/ Packet(p) \/ PacketAndReport(p)

Spec == Init /\ [][Next]_vars

-----------------------------------------------------------------------------
(* Properties.                                                             *)

Counters ==
    [baseSN : 0 .. Mod - 1, maxSeqNo : 0 .. Mod - 1,
     cycles : {Mod * k : k \in 0 .. (Big \div Mod) - 1},
     packetCount : 0 .. Big - 1, minPacketProbe : 0 .. Probe,
     lastExpected : 0 .. Big - 1, lastReceived : 0 .. Big - 1]

TypeOK ==
    /\ b \in Counters
    /\ rr \in [total : 0 .. Big - 1, fraction : 0 .. 255, last : 0 .. Big - 1,
               remb : 0 .. (MinBitrate + MaxBitrate)]
    /\ top \in 0 .. MaxPosition /\ lo \in 0 .. top /\ arrived \subseteq Window(top)
    /\ got \in 0 .. MaxPosition + 1 /\ parsed \in BOOLEAN
    /\ seen \in [expected : Nat, missing : Nat, bitrate : Nat]

\* The extended sequence number that is reported is that of the newest packet,
\* however packets were lost and reordered around a wrap-around of the 16 bits.
NewestIsKnown == got > 0 => ExtMaxSeq(b) = (Start + top) % Big

\* A report was made in this step; every packet changes what has been seen.
Reported == seen' # seen

\* The loss that is reported is the number of packets that are missing between
\* the earliest and the newest, also if the earliest was not the first one.
\* All packets could be parsed: one that cannot be is counted, but not probed.
TotalLostIsRight ==
    [][Reported /\ parsed => rr'.total = seen'.missing]_vars

\* Late packets have not made up for more than was lost since the last report.
Losing == seen'.missing >= seen.missing

\* The fraction is that of the packets lost among those expected since the
\* last report.  It fits into eight bits, because a report is made when a packet
\* arrives.  More late packets than lost ones are excluded: the difference
\* wraps around then; and so is a loss that eight bits shift out of the width.
FractionIsRight ==
    [][Reported /\ parsed /\ Losing /\ seen'.expected > seen.expected
          /\ (seen'.missing - seen.missing) * 256 < Big =>
          rr'.fraction = ((seen'.missing - seen.missing) * 256) \div (seen'.expected - seen.expected)]_vars

\* Unless the difference wraps around, the bitrate that is asked for is not
\* below the measured one without loss, and never below half of it.
RembFollowsLoss ==
    [][Reported /\ parsed /\ Losing =>
          LET br == Lesser(seen'.bitrate, MaxBitrate)
          IN  /\ rr'.remb >= br \div 2
              /\ seen'.missing = seen.missing => rr'.remb >= br]_vars

-----------------------------------------------------------------------------
(* The inductive invariant.                                                *)

\* What may still arrive between the earliest and the newest packet.
Open == {p \in Window(top) : p >= lo /\ p \notin arrived}

\* What arrived and what may still arrive fits between the earliest and the
\* newest; the first packets are near the beginning of the stream.
PositionsOK ==
    IF got = 0 THEN lo = 0 /\ top = 0 /\ arrived = {}
    ELSE /\ top \in arrived
         /\ \A p \in arrived : lo <= p
         /\ got + Cardinality(Open) <= top - lo + 1
         /\ top <= MaxReorder + (got - 1) * (MaxLoss + 1)

NewestOK ==
    /\ b.packetCount = got
    /\ got = 0 => b.cycles = 0
    /\ got > 0 => /\ b.maxSeqNo = SN(top)
                  /\ ExtMaxSeq(b) = (Start + top) % Big

\* The base is the earliest packet, which is known after Probe packets.
BaseOK ==
    parsed => /\ b.minPacketProbe = Lesser(got, Probe)
              /\ got > 0 => b.baseSN = Start + lo

\* What is remembered of the last report.
SeenOK ==
    /\ parsed => /\ b.lastExpected = seen.expected
                 /\ b.lastReceived = seen.expected - seen.missing
    /\ IF got = 0 THEN seen.expected = 0 /\ seen.missing = 0
       ELSE /\ seen.expected <= top - lo + 1
            /\ seen.expected - seen.missing \in 0 .. got

IInv == TypeOK /\ PositionsOK /\ NewestOK /\ BaseOK /\ SeenOK

=============================================================================
