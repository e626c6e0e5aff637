-------------------------- MODULE RetransmitProofs --------------------------
(***************************************************************************)
(* Proofs about Retransmit: the numbers of a down track are unique across  *)
(* a switch, what was sent is found in the sequencer, and what is sent     *)
(* again is what was sent before.  The inductive invariant is IInv of      *)
(* Retransmit; it speaks of places, which are the numbers without the      *)
(* wrap-around at Modulus.                                                 *)
(***************************************************************************)
EXTENDS Retransmit, TLAPS

-----------------------------------------------------------------------------
(* Arithmetic modulo m.                                                    *)

LEMMA Division ==
  ASSUME NEW x \in Int, NEW m \in Nat \ {0}
  PROVE  x = m * (x \div m) + (x % m) /\ x \div m \in Int /\ x % m \in 0 .. m - 1
  OBVIOUS

LEMMA Remainder ==
  ASSUME NEW m \in Nat \ {0}, NEW q \in Int, NEW r \in 0 .. m - 1, NEW x \in Int, x = m * q + r
  PROVE  x % m = r
  OBVIOUS

LEMMA SmallRemainder ==
  ASSUME NEW m \in Nat \ {0}, NEW r \in 0 .. m - 1
  PROVE  r % m = r
  OBVIOUS

\* Numbers with the same remainder that are less than m apart are equal.
LEMMA SameRemainder ==
  ASSUME NEW m \in Nat \ {0}, NEW x \in Int, NEW y \in Int, x - y < m, y - x < m, x % m = y % m
  PROVE  x = y
  <1> DEFINE r == x % m
  <1>1. /\ x = m * (x \div m) + r /\ x \div m \in Int /\ r \in 0 .. m - 1
        /\ y = m * (y \div m) + r /\ y \div m \in Int
    BY Division
  <1> HIDE DEF r
  <1>2. PICK a \in Int, c \in Int : x = m * a + r /\ y = m * c + r
    BY <1>1
  <1>3. r \in Int
    BY <1>1
  <1>4. x - y = m * (a - c)
    BY <1>2, <1>3
  <1>5. a = c
    <2>1. CASE a >= c + 1
      <3>1. m * (a - c) >= m
        BY <2>1
      <3>2. QED
        BY <1>4, <3>1
    <2>2. CASE c >= a + 1
      <3>1. m * (c - a) >= m
        BY <2>2
      <3>2. y - x = m * (c - a)
        BY <1>2, <1>3
      <3>3. QED
        BY <3>1, <3>2
    <2>3. QED
      BY <2>1, <2>2
  <1>6. QED
    BY <1>2, <1>5

\* A remainder may be taken before or after a sum.
LEMMA AddRemainder ==
  ASSUME NEW m \in Nat \ {0}, NEW x \in Int, NEW z \in Int
  PROVE  ((x % m) + z) % m = (x + z) % m
  <1>1. PICK a \in Int, w \in 0 .. m - 1 : x = m * a + w /\ w = x % m
    BY Division
  <1>2. w + z \in Int
    BY <1>1
  <1>3. PICK c \in Int, r \in 0 .. m - 1 : w + z = m * c + r /\ r = (w + z) % m
    BY <1>2, Division
  <1>4. x + z = m * (a + c) + r /\ x + z \in Int /\ a + c \in Int
    BY <1>1, <1>3
  <1>5. (m * (a + c) + r) % m = r
    BY <1>4, Remainder
  <1>6. QED
    BY <1>1, <1>3, <1>4, <1>5

-----------------------------------------------------------------------------
(* Sequence numbers.                                                       *)

\* The constants as the lemmas use them.
LEMMA ConstantsAre ==
  /\ Modulus \in Nat \ {0} /\ History \in Nat \ {0} /\ MaxIndex \in Nat \ {0}
  /\ 2 * MaxIndex + 2 <= Modulus
  /\ Start[0] \in Nat /\ Start[1] \in Nat /\ \A l \in Layers : Start[l] \in Nat
  /\ None \notin Layers
  BY RetransmitAssumption DEF Layers

\* uint16 subtraction of the numbers of two places.
LEMMA MinusIs ==
  ASSUME NEW x \in Int, NEW y \in Int
  PROVE  Minus(x % Modulus, y % Modulus) = (x - y) % Modulus
  <1> DEFINE M == Modulus
             a == x % M
             c == y % M
             q == y \div M
  <1>1. M \in Nat \ {0} /\ a \in 0 .. M - 1 /\ c \in 0 .. M - 1 /\ y = M * q + c /\ q \in Int
    BY ConstantsAre, Division
  <1> HIDE DEF c, q
  <1>2. (a + (M - c)) % M = (x + (M - c)) % M
    <2>1. M - c \in Int
      BY <1>1
    <2>2. QED
      BY <1>1, <2>1, AddRemainder
  <1>3. (x + (M - c)) % M = (x - y) % M
    <2> DEFINE z == x - y
               r == z % M
               k == z \div M
    <2>1. z \in Int
      OBVIOUS
    <2>2. z = M * k + r /\ k \in Int /\ r \in 0 .. M - 1
      BY <1>1, <2>1, Division
    <2> HIDE DEF r, k, M
    <2>3. x + (M - c) = M * (k + q + 1) + r /\ x + (M - c) \in Int /\ k + q + 1 \in Int
      BY <1>1, <2>2
    <2>4. (x + (M - c)) % M = r
      BY <1>1, <2>2, <2>3, Remainder
    <2>5. QED
      BY <2>4 DEF r
  <1>4. M + a - c = a + (M - c)
    <2> HIDE DEF a, M
    <2>1. QED
      BY <1>1
  <1>5. QED
    BY <1>2, <1>3, <1>4 DEF Minus, c

\* A packet whose layer has the offset of the place gets the number of the place.
LEMMA NumberOfPlace ==
  ASSUME NEW l \in Layers, NEW i \in Int, NEW place \in Int
  PROVE  Minus(SN(l, i), (Start[l] - (place - i)) % Modulus) = place % Modulus
  <1> DEFINE x == Start[l] + i
             y == Start[l] - (place - i)
  <1>1. x \in Int /\ y \in Int /\ x - y = place
    BY ConstantsAre
  <1>2. SN(l, i) = x % Modulus
    BY DEF SN
  <1> HIDE DEF x, y
  <1>3. QED
    BY <1>1, <1>2, MinusIs DEF y

LEMMA InRange ==
  ASSUME NEW x \in Int
  PROVE  x % Modulus \in SeqNos
  BY ConstantsAre, Division DEF SeqNos

\* The packets of a layer have different numbers.
LEMMA NumbersDiffer ==
  ASSUME NEW l \in Layers, NEW i \in Indexes, NEW j \in Indexes, SN(l, i) = SN(l, j)
  PROVE  i = j
  <1> DEFINE x == Start[l] + i
             y == Start[l] + j
  <1>1. x \in Int /\ y \in Int /\ x - y < Modulus /\ y - x < Modulus
    BY ConstantsAre DEF Indexes
  <1>2. x % Modulus = y % Modulus
    BY DEF SN
  <1> HIDE DEF x, y
  <1>3. x = y
    BY <1>1, <1>2, ConstantsAre, SameRemainder
  <1>4. QED
    BY <1>3, ConstantsAre DEF x, y, Indexes

-----------------------------------------------------------------------------
(* What has arrived.                                                       *)

LEMMA MaximumIs ==
  ASSUME NEW S, S \subseteq Int, NEW m \in S, \A j \in S : j <= m
  PROVE  (CHOOSE i \in S : \A j \in S : j <= i) = m
  <1> DEFINE x == CHOOSE i \in S : \A j \in S : j <= i
  <1>1. x \in S /\ \A j \in S : j <= x
    OBVIOUS
  <1> HIDE DEF x
  <1>2. x \in Int /\ m \in Int /\ x <= m /\ m <= x
    BY <1>1
  <1>3. x = m
    BY <1>2
  <1>4. QED
    BY <1>3 DEF x

\* An arrival keeps ArrivedOK; the newest packet changes if it is a head.
LEMMA Arrival ==
  ASSUME TypeOK, ArrivedOK, NEW l \in Layers, NEW i \in Indexes, Arrive(l, i)
  PROVE  /\ i \notin arrived[l] /\ i \in arrived'[l]
         /\ arrived' \in [Layers -> SUBSET Indexes]
         /\ \A k \in Layers : arrived[k] \subseteq arrived'[k]
         /\ \A k \in Layers : k # l => newest(k)' = newest(k) /\ arrived'[k] = arrived[k]
         /\ newest(l)' = (IF IsHead(l, i) THEN i ELSE newest(l))
         /\ newest(l) \in Int /\ i <= newest(l)'
         /\ ArrivedOK'
  <1>1. /\ arrived \in [Layers -> SUBSET Indexes]
        /\ i \notin arrived[l] /\ arrived' = [arrived EXCEPT ![l] = @ \cup {i}]
    BY DEF TypeOK, Arrive
  <1>2. arrived'[l] = arrived[l] \cup {i} /\ i \in Int /\ i > 0 /\ arrived[l] \subseteq Int /\ Indexes \subseteq Int
    BY <1>1 DEF Indexes
  <1>3. \A k \in Layers : k # l => newest(k)' = newest(k) /\ arrived'[k] = arrived[k]
    BY <1>1 DEF newest
  <1>4. /\ newest(l)' = (IF IsHead(l, i) THEN i ELSE newest(l))
        /\ newest(l) \in Int /\ newest(l)' \in arrived'[l]
        /\ \A j \in arrived'[l] : j <= newest(l)'
    <2>1. newest(l)' = CHOOSE m \in arrived'[l] : \A j \in arrived'[l] : j <= m
      BY <1>2 DEF newest
    <2>2. CASE arrived[l] = {}
      <3>1. newest(l) = 0 /\ arrived'[l] = {i} /\ IsHead(l, i)
        BY <1>2, <2>2 DEF newest, IsHead
      <3>2. newest(l)' = i
        BY <1>2, <2>1, <3>1, MaximumIs
      <3>3. QED
        BY <1>2, <3>1, <3>2
    <2>3. CASE arrived[l] # {}
      <3>1. PICK m \in arrived[l] : m = newest(l) /\ \A j \in arrived[l] : j <= m
        BY <2>3 DEF ArrivedOK
      <3>2. m \in Int
        BY <1>2
      <3>3. CASE i > m
        <4>1. \A j \in arrived'[l] : j <= i
          BY <1>2, <3>1, <3>2, <3>3
        <4>2. newest(l)' = i
          BY <1>2, <2>1, <4>1, MaximumIs
        <4>3. QED
          BY <1>2, <3>1, <3>2, <3>3, <4>1, <4>2 DEF IsHead
      <3>4. CASE ~(i > m)
        <4>1. \A j \in arrived'[l] : j <= m
          BY <1>2, <3>1, <3>2, <3>4
        <4>2. newest(l)' = m
          BY <1>2, <2>1, <3>1, <4>1, MaximumIs
        <4>3. QED
          BY <1>2, <3>1, <3>2, <3>4, <4>1, <4>2 DEF IsHead
      <3>5. QED
        BY <3>3, <3>4
    <2>4. QED
      BY <2>2, <2>3
  <1>5. ArrivedOK'
    <2> SUFFICES ASSUME NEW k \in Layers, arrived'[k] # {}
                 PROVE  newest(k)' \in arrived'[k] /\ \A j \in arrived'[k] : j <= newest(k)'
      BY DEF ArrivedOK
    <2>1. CASE k = l
      BY <1>4, <2>1
    <2>2. CASE k # l
      BY <1>3, <2>2 DEF ArrivedOK
    <2>3. QED
      BY <2>1, <2>2
  <1>6. QED
    BY <1>1, <1>2, <1>3, <1>4, <1>5

-----------------------------------------------------------------------------
(* The sequencer.                                                          *)

LEMMA MetaType ==
  ASSUME NEW sn \in SeqNos, NEW offSn \in SeqNos, NEW l \in Layers
  PROVE  packetMeta(sn, offSn, l) \in Metas
  BY DEF packetMeta, Metas

LEMMA StoreIs ==
  ASSUME NEW q \in Sequencers, NEW at \in 0 .. History - 1, NEW meta \in Metas
  PROVE  LET r == Store(q, at, meta)
         IN  /\ r \in Sequencers /\ r.init = q.init /\ r.headSN = q.headSN
             /\ r.step = (at + 1) % History /\ r.seq = [q.seq EXCEPT ![at] = meta]
  <1> DEFINE st == (at + 1) % History
             se == [q.seq EXCEPT ![at] = meta]
  <1>1. st \in 0 .. History - 1
    <2>1. at + 1 \in Int
      BY ConstantsAre
    <2>2. QED
      BY <2>1, ConstantsAre, Division
  <1>2. se \in [0 .. History - 1 -> Metas]
    BY DEF Sequencers
  <1> HIDE DEF st, se
  <1>3. Store(q, at, meta) = [q EXCEPT !.seq = se, !.step = st]
    BY DEF Store, st, se
  <1>4. QED
    BY <1>1, <1>2, <1>3 DEF Sequencers, st, se

\* The first packet initializes the sequencer and is stored at place 0.
LEMMA FirstPush ==
  ASSUME NEW q, q = newSequencer,
         NEW sn \in SeqNos, NEW offSn \in SeqNos, NEW l \in Layers, NEW head \in BOOLEAN
  PROVE  LET r == Push(q, sn, offSn, l, head)
         IN  /\ r \in Sequencers /\ r.init /\ r.headSN = offSn /\ r.step = 1 % History
             /\ r.seq = [q.seq EXCEPT ![0] = packetMeta(sn, offSn, l)]
  <1> DEFINE meta == packetMeta(sn, offSn, l)
             q1   == Initialized(q, offSn)
             res  == Store(q1, 0, meta)
  <1>1. meta \in Metas
    BY MetaType
  <1>2. q1 \in Sequencers /\ q1.init /\ q1.headSN = offSn /\ q1.step = 0 /\ q1.seq = q.seq
    <2>1. 0 \in SeqNos /\ 0 \in 0 .. History - 1 /\ 0 \in Layers
      BY ConstantsAre DEF SeqNos, Layers
    <2>2. packetMeta(0, 0, 0) \in Metas
      BY <2>1, MetaType
    <2>3. q1 = [init |-> TRUE, seq |-> [p \in 0 .. History - 1 |-> packetMeta(0, 0, 0)], step |-> 0, headSN |-> offSn]
      BY DEF newSequencer, Initialized
    <2>4. q.seq = [p \in 0 .. History - 1 |-> packetMeta(0, 0, 0)]
      BY DEF newSequencer
    <2> HIDE DEF q1
    <2>5. QED
      BY <2>1, <2>2, <2>3, <2>4 DEF Sequencers
  <1>3. Minus(q1.headSN, offSn) = 0 /\ Minus(offSn, q1.headSN) = 0
    <2>1. offSn = offSn % Modulus /\ offSn \in Int
      BY ConstantsAre, SmallRemainder DEF SeqNos
    <2>2. Minus(offSn, offSn) = (offSn - offSn) % Modulus
      BY <2>1, MinusIs
    <2>3. offSn - offSn = 0 /\ 0 % Modulus = 0
      BY <2>1, ConstantsAre, SmallRemainder
    <2>4. QED
      BY <1>2, <2>2, <2>3
  <1> HIDE DEF q1
  <1>4. StepOver(q1, Minus(offSn, q1.headSN)) = 0 /\ ~(-(q1.step - Minus(q1.headSN, offSn)) >= History)
    BY <1>2, <1>3, ConstantsAre DEF StepOver
  <1>5. /\ res \in Sequencers /\ res.init /\ res.headSN = offSn /\ res.step = (0 + 1) % History
        /\ res.seq = [q.seq EXCEPT ![0] = meta]
    BY <1>1, <1>2, StoreIs, ConstantsAre
  <1>6. Push(q, sn, offSn, l, head) = IF head THEN [res EXCEPT !.headSN = offSn] ELSE res
    BY <1>2, <1>4 DEF Push, q1
  <1> HIDE DEF res
  <1>7. [res EXCEPT !.headSN = offSn] = res
    BY <1>5 DEF Sequencers
  <1>8. QED
    BY <1>5, <1>6, <1>7

\* r is q with a packet stored inc ahead, or at the step if at all.
HeadStored(r, q, inc, offSn, meta) ==
  /\ r \in Sequencers /\ r.init /\ r.headSN = offSn
  /\ r.step = (q.step + inc) % History
  /\ r.seq = [q.seq EXCEPT ![(q.step + inc - 1) % History] = meta]

LateStored(r, q, meta) ==
  /\ r \in Sequencers /\ r.init /\ r.headSN = q.headSN
  /\ r.seq = q.seq \/ r.seq = [q.seq EXCEPT ![q.step] = meta]

\* A newer packet is stored as far ahead as its place is.
LEMMA HeadPush ==
  ASSUME NEW q \in Sequencers, q.init, NEW end \in Int, NEW place \in Int, NEW offSn \in SeqNos,
         q.headSN = end % Modulus, offSn = place % Modulus, 0 < place - end, place - end < Modulus,
         NEW sn \in SeqNos, NEW l \in Layers
  PROVE  HeadStored(Push(q, sn, offSn, l, TRUE), q, place - end, offSn, packetMeta(sn, offSn, l))
  <1> DEFINE r == Push(q, sn, offSn, l, TRUE)
  <1> DEFINE inc  == place - end
             meta == packetMeta(sn, offSn, l)
             y    == q.step + inc - 1
             at   == y % History
             res  == Store(q, at, meta)
  <1>1. meta \in Metas
    BY MetaType
  <1>2. inc \in 1 .. Modulus - 1 /\ q.step \in 0 .. History - 1
    BY ConstantsAre DEF Sequencers
  <1>3. Minus(offSn, q.headSN) = inc
    <2>1. inc % Modulus = inc
      BY <1>2, ConstantsAre, SmallRemainder
    <2>2. QED
      BY <2>1, MinusIs
  <1>4. y \in Int
    BY <1>2, ConstantsAre
  <1>5. at \in 0 .. History - 1
    <2> HIDE DEF y
    <2>1. QED
      BY <1>4, ConstantsAre, Division
  <1>6. StepOver(q, inc) = at
    BY <1>2 DEF StepOver
  <1>7. Initialized(q, offSn) = q
    BY DEF Initialized
  <1>8. (at + 1) % History = (q.step + inc) % History
    <2>1. y + 1 = q.step + inc
      <3> HIDE DEF inc
      <3>1. QED
        BY <1>2, ConstantsAre
    <2> HIDE DEF y, inc
    <2>2. ((y % History) + 1) % History = (y + 1) % History
      <3>1. History \in Nat \ {0} /\ 1 \in Int
        BY ConstantsAre
      <3>2. QED
        BY <1>4, <3>1, AddRemainder
    <2>3. QED
      BY <2>1, <2>2
  <1> HIDE DEF inc, y
  <1>9. r = [res EXCEPT !.headSN = offSn]
    BY <1>3, <1>6, <1>7 DEF Push
  <1> HIDE DEF r
  <1> HIDE DEF at, meta
  <1>10. /\ res \in Sequencers /\ res.init = q.init /\ res.headSN = q.headSN
         /\ res.step = (at + 1) % History /\ res.seq = [q.seq EXCEPT ![at] = meta]
    BY <1>1, <1>5, StoreIs, ZenonT(60)
  <1> HIDE DEF res
  <1>11. r \in Sequencers /\ r.init = res.init /\ r.headSN = offSn /\ r.step = res.step /\ r.seq = res.seq
    BY <1>9, <1>10 DEF Sequencers
  <1>12. HeadStored(r, q, inc, offSn, meta)
    BY <1>8, <1>10, <1>11 DEF HeadStored, at, y
  <1>13. QED
    BY <1>12 DEF r, inc, meta

\* A late packet is stored at the step, if at all.
LEMMA LatePush ==
  ASSUME NEW q \in Sequencers, q.init, NEW sn \in SeqNos, NEW offSn \in SeqNos, NEW l \in Layers
  PROVE  LateStored(Push(q, sn, offSn, l, FALSE), q, packetMeta(sn, offSn, l))
  <1> DEFINE meta == packetMeta(sn, offSn, l)
             r    == Push(q, sn, offSn, l, FALSE)
  <1>1. meta \in Metas /\ q.step \in 0 .. History - 1
    BY MetaType DEF Sequencers
  <1>2. Initialized(q, offSn) = q
    BY DEF Initialized
  <1>3. r \in {q, Store(q, q.step, meta)}
    BY <1>2 DEF Push
  <1> HIDE DEF r
  <1>4. Store(q, q.step, meta) \in Sequencers /\ Store(q, q.step, meta).init = q.init
        /\ Store(q, q.step, meta).headSN = q.headSN
        /\ Store(q, q.step, meta).seq = [q.seq EXCEPT ![q.step] = meta]
    <2> HIDE DEF meta
    <2>1. QED
      BY <1>1, StoreIs, ZenonT(60)
  <1>5. LateStored(r, q, meta)
    BY <1>3, <1>4 DEF LateStored
  <1>6. QED
    BY <1>5 DEF r

-----------------------------------------------------------------------------
(* What is sent.                                                           *)

\* A packet is sent at a place; end is where the stream had got to before.
SendsAt(l, i, place, end) ==
  /\ Arrive(l, i)
  /\ source' = l
  /\ snOffset' = (Start[l] - (place - i)) % Modulus
  /\ reach' = (IF IsHead(l, i) THEN place ELSE end)
  /\ lastSN' = reach' % Modulus
  /\ shift' = [shift EXCEPT ![l] = place - i]
  /\ sent' = Append(sent, [layer |-> l, index |-> i, target |-> place % Modulus, head |-> IsHead(l, i)])
  /\ sequencer' = Push(sequencer, SN(l, i), place % Modulus, l, IsHead(l, i))
  /\ UNCHANGED <<job, resent>>

LEMMA SendIs ==
  ASSUME NEW l \in Layers, NEW i \in Indexes, NEW offset, NEW last, NEW place \in Int, NEW end \in Int,
         Arrive(l, i), Send(l, i, offset, last, place, end),
         offset = (Start[l] - (place - i)) % Modulus, last = end % Modulus
  PROVE  SendsAt(l, i, place, end)
  <1>1. i \in Int
    BY DEF Indexes
  <1>2. Minus(SN(l, i), offset) = place % Modulus
    BY <1>1, NumberOfPlace
  <1>3. QED
    BY <1>2 DEF Send, SendsAt

LEMMA FirstSends ==
  ASSUME IInv, NEW l \in Layers, NEW i \in Indexes, FirstKeyFrame(l, i)
  PROVE  source = None /\ SendsAt(l, i, Start[l] + i, Start[l] + i)
  <1> DEFINE place == Start[l] + i
  <1>1. /\ source = None /\ Arrive(l, i)
        /\ Send(l, i, snOffset, SN(l, i), place, place)
    BY DEF FirstKeyFrame
  <1>2. snOffset = 0
    BY <1>1 DEF IInv, NumbersOK
  <1>3. place \in Int /\ Start[l] - (place - i) = 0
    BY ConstantsAre DEF Indexes
  <1>4. SN(l, i) = place % Modulus
    BY DEF SN
  <1>5. 0 % Modulus = 0
    BY ConstantsAre, SmallRemainder
  <1> HIDE DEF place
  <1>6. SendsAt(l, i, place, place)
    BY <1>1, <1>2, <1>3, <1>4, <1>5, SendIs
  <1>7. QED
    BY <1>1, <1>6 DEF place

LEMMA ForwardSends ==
  ASSUME IInv, NEW l \in Layers, NEW i \in Indexes, Forward(l, i)
  PROVE  source = l /\ SendsAt(l, i, shift[l] + i, reach)
  <1>1. PICK place, end : place = shift[l] + i /\ end = reach
    OBVIOUS
  <1>2. source = l /\ Arrive(l, i) /\ Send(l, i, snOffset, lastSN, place, end)
    BY <1>1 DEF Forward
  <1>3. snOffset = (Start[l] - shift[l]) % Modulus /\ lastSN = end % Modulus
    BY <1>1, <1>2, ConstantsAre DEF IInv, NumbersOK
  <1>4. shift[l] \in Int /\ place \in Int /\ end \in Int /\ Start[l] - shift[l] = Start[l] - (place - i)
    BY <1>1, ConstantsAre DEF IInv, TypeOK, Indexes
  <1>5. SendsAt(l, i, place, end)
    BY <1>2, <1>3, <1>4, SendIs
  <1>6. QED
    BY <1>1, <1>2, <1>5

LEMMA SwitchSends ==
  ASSUME IInv, NEW l \in Layers, NEW i \in Indexes, Switch(l, i)
  PROVE  source = 0 /\ l = 1 /\ SendsAt(l, i, reach + 1, reach)
  <1>1. PICK place, end : place = reach + 1 /\ end = reach
    OBVIOUS
  <1>2. /\ source = 0 /\ l = 1 /\ Arrive(l, i)
        /\ Send(l, i, OffsetAfter(l, i), lastSN, place, end)
    BY <1>1 DEF Switch
  <1>3. lastSN = end % Modulus
    BY <1>1, <1>2, ConstantsAre DEF IInv, NumbersOK, Layers
  <1>4. end \in Int /\ place \in Int /\ Start[l] \in Int /\ i \in Int /\ place = end + 1
    BY <1>1, ConstantsAre DEF IInv, TypeOK, Indexes
  <1>5. OffsetAfter(l, i) = (Start[l] - (place - i)) % Modulus
    <2> DEFINE x == Start[l] + i
               y == x - end
    <2>1. x \in Int /\ y \in Int /\ y - 1 = Start[l] - (place - i)
      BY <1>4
    <2>2. SN(l, i) = x % Modulus
      BY DEF SN
    <2>3. 1 % Modulus = 1
      BY ConstantsAre, SmallRemainder
    <2> HIDE DEF x
    <2>4. Minus(SN(l, i), lastSN) = y % Modulus
      BY <1>3, <1>4, <2>1, <2>2, MinusIs
    <2> HIDE DEF y
    <2>5. Minus(y % Modulus, 1 % Modulus) = (y - 1) % Modulus
      BY <2>1, MinusIs
    <2>6. QED
      BY <2>1, <2>3, <2>4, <2>5 DEF OffsetAfter
  <1>6. PICK offset : offset = OffsetAfter(l, i)
    OBVIOUS
  <1>7. SendsAt(l, i, place, end)
    BY <1>2, <1>3, <1>4, <1>5, <1>6, SendIs
  <1>8. QED
    BY <1>1, <1>2, <1>7

\* t is s with r at its end.
Longer(t, s, r) ==
  /\ t \in Seq(Sent) /\ Len(s) \in Nat /\ Len(t) = Len(s) + 1 /\ t[Len(s) + 1] = r /\ t # <<>>
  /\ DOMAIN s = 1 .. Len(s) /\ DOMAIN t = 1 .. Len(s) + 1
  /\ \A k \in DOMAIN s : t[k] = s[k] /\ k \in DOMAIN t
  /\ \A k \in DOMAIN t : k \in DOMAIN s \/ k = Len(s) + 1
  /\ IF s = <<>> THEN Len(s) = 0 /\ t[1] = r ELSE 1 \in DOMAIN s /\ t[1] = s[1]

LEMMA LongerBy ==
  ASSUME NEW s \in Seq(Sent), NEW r \in Sent
  PROVE  Longer(Append(s, r), s, r)
  <1> DEFINE t == Append(s, r)
  <1>1. /\ t \in Seq(Sent) /\ Len(s) \in Nat /\ Len(t) = Len(s) + 1 /\ t[Len(s) + 1] = r
        /\ DOMAIN s = 1 .. Len(s) /\ DOMAIN t = 1 .. Len(s) + 1
        /\ \A k \in 1 .. Len(s) : t[k] = s[k]
    OBVIOUS
  <1>2. t # <<>>
    BY <1>1
  <1>3. IF s = <<>> THEN Len(s) = 0 ELSE Len(s) > 0
    BY <1>1
  <1> HIDE DEF t
  <1>4. Longer(t, s, r)
    BY <1>1, <1>2, <1>3 DEF Longer
  <1>5. QED
    BY <1>4 DEF t

-----------------------------------------------------------------------------
(* What is sent is in the ring.                                            *)

\* The position d behind the step is d + inc behind it after a store inc ahead,
\* and is not the one that is overwritten.
PositionKept(st, inc, d) ==
  LET st2 == (st + inc) % History
      at  == (st + inc - 1) % History
      p   == (st - 1 - d) % History
  IN  /\ p \in 0 .. History - 1 /\ at \in 0 .. History - 1
      /\ d + inc < History => p # at
      /\ (st2 - 1 - (d + inc)) % History = p
      /\ (st2 - 1 - 0) % History = at

LEMMA RingPositions ==
  ASSUME NEW st \in 0 .. History - 1, NEW inc \in Nat \ {0}, NEW d \in Nat
  PROVE  PositionKept(st, inc, d)
  <1> DEFINE st2 == (st + inc) % History
  <1>0. st \in Int /\ History \in Nat \ {0}
    BY ConstantsAre
  <1> DEFINE x == st + inc
             y == st - 1 - d
             u == st + inc - 1
             v == (-1) - (d + inc)
  <1>1. x \in Int /\ y \in Int /\ u \in Int /\ v \in Int /\ x + v = y /\ x + (-1) = u /\ u - y = d + inc
    BY <1>0
  <1>2. ((x % History) + v) % History = (x + v) % History
    <2> HIDE DEF x, v
    <2>1. QED
      BY <1>0, <1>1, AddRemainder
  <1>3. ((x % History) + (-1)) % History = (x + (-1)) % History
    <2> HIDE DEF x
    <2>1. PICK n \in Int : n = -1
      OBVIOUS
    <2>2. ((x % History) + n) % History = (x + n) % History
      BY <1>0, <1>1, AddRemainder
    <2>3. QED
      BY <2>1, <2>2
  <1>4. st2 \in Int /\ st2 = x % History
    <2>1. st2 = x % History
      OBVIOUS
    <2> HIDE DEF x
    <2>2. QED
      BY <1>0, <1>1, <2>1, Division
  <1>5. st2 - 1 - (d + inc) = st2 + v /\ st2 - 1 - 0 = st2 + (-1)
    BY <1>4
  <1>6. y % History \in 0 .. History - 1 /\ u % History \in 0 .. History - 1
    <2> HIDE DEF y, u
    <2>1. QED
      BY <1>0, <1>1, Division
  <1>7. ASSUME d + inc < History, y % History = u % History PROVE FALSE
    <2>1. y - u < History /\ u - y < History /\ u # y
      BY <1>0, <1>1, <1>7
    <2> HIDE DEF y, u
    <2>2. QED
      BY <1>0, <1>1, <1>7, <2>1, SameRemainder
  <1> HIDE DEF x, v
  <1>8. QED
    <2> DEFINE p == y % History
               at == u % History
    <2>1. /\ p \in 0 .. History - 1 /\ at \in 0 .. History - 1
          /\ d + inc < History => p # at
      BY <1>6, <1>7
    <2>2. (st2 - 1 - (d + inc)) % History = p /\ (st2 - 1 - 0) % History = at
      BY <1>1, <1>2, <1>3, <1>4, <1>5
    <2>3. QED
      BY <2>1, <2>2 DEF PositionKept

\* The ring keeps RingOK when a packet is sent.
LEMMA RingKept ==
  ASSUME NEW l \in Layers, NEW i \in Indexes, NEW place \in Int, NEW end \in Int
  PROVE  /\ IInv
         /\ SendsAt(l, i, place, end)
         /\ IF source = None THEN end = place ELSE end = reach
         /\ \A k \in DOMAIN sent : shift'[sent[k].layer] = shift[sent[k].layer]
         /\ IsHead(l, i) /\ source # None => 0 < place - end /\ place - end < Modulus
         /\ IsHead(l, i) => place > Start[sent'[1].layer]
         => sequencer' \in Sequencers /\ sequencer'.init /\ sequencer'.headSN = lastSN' /\ RingOK'
  <1>0. HAVE /\ IInv
             /\ SendsAt(l, i, place, end)
             /\ IF source = None THEN end = place ELSE end = reach
             /\ \A k \in DOMAIN sent : shift'[sent[k].layer] = shift[sent[k].layer]
             /\ IsHead(l, i) /\ source # None => 0 < place - end /\ place - end < Modulus
             /\ IsHead(l, i) => place > Start[sent'[1].layer]
  <1>1. PICK head \in BOOLEAN, sn \in SeqNos, offSn \in SeqNos, m \in Metas, r \in Sent :
          /\ head = IsHead(l, i) /\ sn = SN(l, i) /\ offSn = place % Modulus
          /\ r = [layer |-> l, index |-> i, target |-> offSn, head |-> head]
          /\ m = packetMeta(sn, offSn, l)
    <2>1. SN(l, i) \in SeqNos /\ place % Modulus \in SeqNos
      <3>1. Start[l] + i \in Int
        BY ConstantsAre DEF Indexes
      <3>2. QED
        BY <3>1, InRange DEF SN
    <2>2. [layer |-> l, index |-> i, target |-> place % Modulus, head |-> IsHead(l, i)] \in Sent
      BY <2>1 DEF Sent, IsHead
    <2>3. IsHead(l, i) \in BOOLEAN /\ packetMeta(SN(l, i), place % Modulus, l) \in Metas
      BY <2>1, MetaType DEF IsHead
    <2> USE <2>1, <2>2, <2>3
    <2>4. WITNESS IsHead(l, i) \in BOOLEAN, SN(l, i) \in SeqNos, place % Modulus \in SeqNos,
                  packetMeta(SN(l, i), place % Modulus, l) \in Metas,
                  [layer |-> l, index |-> i, target |-> place % Modulus, head |-> IsHead(l, i)] \in Sent
    <2>5. QED
      OBVIOUS
  <1>2. /\ sent' = Append(sent, r) /\ sequencer' = Push(sequencer, sn, offSn, l, head)
        /\ reach' = (IF head THEN place ELSE end) /\ lastSN' = reach' % Modulus
        /\ shift' = [shift EXCEPT ![l] = place - i]
    BY <1>0, <1>1 DEF SendsAt
  <1>3. /\ Len(sent) \in Nat /\ Len(sent') = Len(sent) + 1 /\ sent'[Len(sent) + 1] = r
        /\ DOMAIN sent = 1 .. Len(sent) /\ DOMAIN sent' = 1 .. Len(sent) + 1
        /\ \A k \in DOMAIN sent : sent'[k] = sent[k] /\ k \in DOMAIN sent'
        /\ \A k \in DOMAIN sent' : k \in DOMAIN sent \/ k = Len(sent) + 1
        /\ sent = <<>> => Len(sent) = 0
    <2>1. sent \in Seq(Sent)
      BY <1>0 DEF IInv, TypeOK
    <2>2. Longer(sent', sent, r)
      BY <1>1, <1>2, <2>1, LongerBy
    <2>3. QED
      BY <2>2 DEF Longer
  <1>4. m \in Metas /\ MetaOf(r) = m
    BY <1>1, MetaType DEF MetaOf
  <1>5. sequencer \in Sequencers /\ shift \in [Layers -> Int] /\ sent \in Seq(Sent)
    BY <1>0 DEF IInv, TypeOK
  <1>6. ASSUME \A p \in 0 .. History - 1 : sequencer'.seq[p] = sequencer.seq[p] \/ sequencer'.seq[p] = m
        PROVE  \A p \in 0 .. History - 1 :
                 \/ sequencer'.seq[p] = packetMeta(0, 0, 0)
                 \/ \E k \in DOMAIN sent' : sequencer'.seq[p] = MetaOf(sent'[k])
    <2> SUFFICES ASSUME NEW p \in 0 .. History - 1
                 PROVE  \/ sequencer'.seq[p] = packetMeta(0, 0, 0)
                        \/ \E k \in DOMAIN sent' : sequencer'.seq[p] = MetaOf(sent'[k])
      OBVIOUS
    <2>1. CASE sequencer'.seq[p] = sequencer.seq[p]
      <3>1. \/ sequencer.seq[p] = packetMeta(0, 0, 0)
            \/ \E k \in DOMAIN sent : sequencer.seq[p] = MetaOf(sent[k])
        BY <1>0 DEF IInv, RingOK
      <3>2. QED
        BY <1>3, <2>1, <3>1
    <2>2. CASE sequencer'.seq[p] = m
      <3>1. Len(sent) + 1 \in DOMAIN sent'
        BY <1>3
      <3>2. QED
        BY <1>3, <1>4, <2>2, <3>1
    <2>3. QED
      BY <1>6, <2>1, <2>2
  \* The place of the new packet and of those before it.
  <1>7. /\ shift'[sent'[Len(sent) + 1].layer] + sent'[Len(sent) + 1].index = place
        /\ \A k \in DOMAIN sent : shift'[sent'[k].layer] + sent'[k].index = shift[sent[k].layer] + sent[k].index
    <2>1. r.layer = l /\ r.index = i /\ i \in Int
      BY <1>1 DEF Indexes
    <2>2. shift'[l] + i = place
      BY <1>2, <1>5, <2>1
    <2>3. QED
      BY <1>0, <1>3, <2>1, <2>2
  <1>8. CASE source = None
    <2>1. sent = <<>> /\ sequencer = newSequencer /\ end = place
      BY <1>0, <1>8 DEF IInv, SentOK, NumbersOK
    <2>2. PICK q : q = sequencer
      OBVIOUS
    <2>3. /\ sequencer' \in Sequencers /\ sequencer'.init /\ sequencer'.headSN = offSn
          /\ sequencer'.step = 1 % History
          /\ sequencer'.seq = [q.seq EXCEPT ![0] = m]
      BY <1>1, <1>2, <2>1, <2>2, FirstPush
    <2>4. sequencer.seq \in [0 .. History - 1 -> Metas] /\ 0 \in 0 .. History - 1
      BY <1>5, ConstantsAre DEF Sequencers
    <2>5. sequencer'.headSN = lastSN'
      BY <1>1, <1>2, <2>1, <2>3
    <2>6. \A p \in 0 .. History - 1 : sequencer'.seq[p] = sequencer.seq[p] \/ sequencer'.seq[p] = m
      BY <2>2, <2>3, <2>4
    <2>7. ASSUME NEW k \in DOMAIN sent', OnlyHeadsFrom(k)'
          PROVE  /\ Place(sent[k])' \in Start[sent'[1].layer] + 1 .. reach'
                 /\ reach' - Place(sent[k])' < History =>
                      sequencer'.seq[(sequencer'.step - 1 - (reach' - Place(sent[k])')) % History] = MetaOf(sent'[k])
      <3>1. k = 1 /\ Len(sent) = 0 /\ sent'[1] = r
        BY <1>3, <2>1
      <3>2. r.head
        BY <1>3, <2>7, <3>1 DEF OnlyHeadsFrom
      <3>3. head /\ reach' = place
        BY <1>1, <1>2, <3>2
      <3>4. Place(sent[k])' = place
        BY <1>7, <3>1 DEF Place
      <3>5. Start[sent'[1].layer] \in Nat /\ place > Start[sent'[1].layer]
        BY <1>0, <1>1, <3>1, <3>3, ConstantsAre
      <3>6. (sequencer'.step - 1 - (place - place)) % History = 0
        <4>1. (1 % History) - 1 - (place - place) = (1 % History) + (-1)
          BY ConstantsAre
        <4>2. ((1 % History) + (-1)) % History = (1 + (-1)) % History
          <5>1. PICK x \in Int, n \in Int : x = 1 /\ n = -1
            OBVIOUS
          <5>2. ((x % History) + n) % History = (x + n) % History
            BY ConstantsAre, AddRemainder
          <5>3. QED
            BY <5>1, <5>2
        <4>3. 0 % History = 0
          BY ConstantsAre, SmallRemainder
        <4>4. QED
          BY <2>3, <4>1, <4>2, <4>3
      <3>7. sequencer'.seq[0] = m
        BY <2>2, <2>3, <2>4
      <3>8. QED
        BY <1>4, <3>1, <3>3, <3>4, <3>5, <3>6, <3>7
    <2>8. RingOK'
      BY <1>6, <2>6, <2>7 DEF RingOK
    <2>9. QED
      BY <2>3, <2>5, <2>8
  <1>9. CASE source # None /\ head
    <2>1. /\ end = reach /\ sequencer.init /\ sequencer.headSN = end % Modulus
          /\ 0 < place - end /\ place - end < Modulus
      BY <1>0, <1>1, <1>9 DEF IInv, NumbersOK
    <2>2. PICK q \in Sequencers, inc \in Nat \ {0} : q = sequencer /\ inc = place - end
      BY <1>5, <2>1
    <2>3. /\ sequencer' \in Sequencers /\ sequencer'.init /\ sequencer'.headSN = offSn
          /\ sequencer'.step = (q.step + inc) % History
          /\ sequencer'.seq = [q.seq EXCEPT ![(q.step + inc - 1) % History] = m]
      <3>1. sequencer' = Push(q, sn, offSn, l, TRUE)
        BY <1>2, <1>9, <2>2
      <3>2. q.init /\ q.headSN = end % Modulus /\ offSn = place % Modulus
        BY <1>1, <2>1, <2>2
      <3>3. HeadStored(Push(q, sn, offSn, l, TRUE), q, place - end, offSn, packetMeta(sn, offSn, l))
        BY <1>1, <2>1, <2>2, <3>2, HeadPush
      <3>4. HeadStored(sequencer', q, inc, offSn, m)
        BY <1>1, <2>2, <3>1, <3>3
      <3>5. QED
        BY <3>4 DEF HeadStored
    <2>4. PICK st \in 0 .. History - 1, st2 \in {sequencer'.step} : st = q.step /\ st2 = sequencer'.step
      BY DEF Sequencers
    <2>5. st2 = (st + inc) % History
      BY <2>3, <2>4
    <2>6. PICK at \in 0 .. History - 1 : at = (st + inc - 1) % History /\ (st2 - 1 - 0) % History = at
      <3>1. PICK d \in Nat : d = 0
        OBVIOUS
      <3>2. PositionKept(st, inc, d)
        BY <2>2, <2>4, <3>1, RingPositions
      <3>3. QED
        BY <2>5, <3>2 DEF PositionKept
    <2>7. q.seq \in [0 .. History - 1 -> Metas] /\ sequencer'.seq = [q.seq EXCEPT ![at] = m]
      BY <2>3, <2>4, <2>6 DEF Sequencers
    <2>8. sequencer'.headSN = lastSN' /\ reach' = place
      BY <1>1, <1>2, <1>9, <2>3
    <2>9. \A p \in 0 .. History - 1 : sequencer'.seq[p] = sequencer.seq[p] \/ sequencer'.seq[p] = m
      BY <2>2, <2>7
    <2>10. ASSUME NEW k \in DOMAIN sent', OnlyHeadsFrom(k)'
           PROVE  /\ Place(sent[k])' \in Start[sent'[1].layer] + 1 .. reach'
                  /\ reach' - Place(sent[k])' < History =>
                      sequencer'.seq[(sequencer'.step - 1 - (reach' - Place(sent[k])')) % History] = MetaOf(sent'[k])
      <3>1. CASE k = Len(sent) + 1
        <4>1. Place(sent[k])' = place /\ sent'[k] = r
          BY <1>3, <1>7, <3>1 DEF Place
        <4>2. Start[sent'[1].layer] \in Nat /\ place > Start[sent'[1].layer]
          <5>1. sent'[1] \in Sent
            <6>1. Longer(sent', sent, r)
              BY <1>1, <1>2, <1>5, LongerBy
            <6>2. QED
              BY <6>1 DEF Longer
          <5>2. QED
            BY <1>0, <1>1, <1>9, <5>1, ConstantsAre DEF Sent
        <4>3. (st2 - 1 - (place - place)) % History = at
          <5>1. place - place = 0
            OBVIOUS
          <5>2. QED
            BY <2>6, <5>1
        <4>4. sequencer'.seq[at] = m
          BY <2>7
        <4>5. QED
          BY <1>4, <2>4, <2>8, <4>1, <4>2, <4>3, <4>4
      <3>2. CASE k \in DOMAIN sent
        <4>1. OnlyHeadsFrom(k)
          BY <1>3, <2>10, <3>2 DEF OnlyHeadsFrom
        <4>2. PICK pl : pl = Place(sent[k])
          OBVIOUS
        <4>3. Place(sent[k])' = pl /\ sent'[k] = sent[k] /\ sent'[1] = sent[1]
          <5>1. 1 \in DOMAIN sent
            BY <1>3, <3>2
          <5>2. QED
            BY <1>3, <1>7, <3>2, <4>2, <5>1 DEF Place
        <4>4. PICK f \in Nat : f = Start[sent[1].layer]
          <5>1. sent[1] \in Sent
            BY <1>3, <1>5, <3>2
          <5>2. QED
            BY <5>1, ConstantsAre DEF Sent
        <4>5. /\ pl \in f + 1 .. end
              /\ end - pl < History =>
                   sequencer.seq[(sequencer.step - 1 - (end - pl)) % History] = MetaOf(sent[k])
          BY <1>0, <2>1, <3>2, <4>1, <4>2, <4>4 DEF IInv, RingOK
        <4>6. pl \in f + 1 .. place
          BY <2>1, <4>5
        <4>7. ASSUME place - pl < History
              PROVE  sequencer'.seq[(st2 - 1 - (place - pl)) % History] = MetaOf(sent[k])
          <5>1. PICK d \in Nat : d = end - pl /\ place - pl = d + inc /\ d < History /\ d + inc < History
            BY <2>1, <2>2, <4>5, <4>7, ConstantsAre
          <5>2. /\ (st2 - 1 - (d + inc)) % History = (st - 1 - d) % History
                /\ (st - 1 - d) % History \in 0 .. History - 1
                /\ (st - 1 - d) % History # at
            <6>1. PositionKept(st, inc, d)
              BY <2>2, <2>4, <5>1, RingPositions
            <6>2. QED
              BY <2>5, <2>6, <5>1, <6>1 DEF PositionKept
          <5>3. sequencer.seq[(st - 1 - d) % History] = MetaOf(sent[k])
            BY <2>2, <2>4, <4>5, <5>1
          <5>4. QED
            BY <2>2, <2>7, <5>1, <5>2, <5>3
        <4>8. QED
          BY <2>4, <2>8, <4>3, <4>4, <4>6, <4>7
      <3>3. QED
        BY <1>3, <3>1, <3>2
    <2>11. RingOK'
      BY <1>6, <2>9, <2>10 DEF RingOK
    <2>12. QED
      BY <2>3, <2>8, <2>11
  <1>10. CASE source # None /\ ~head
    <2>1. sequencer.init /\ sequencer.headSN = reach % Modulus /\ reach' = reach
      BY <1>0, <1>1, <1>2, <1>10 DEF IInv, NumbersOK
    <2>2. PICK q \in Sequencers : q = sequencer
      BY <1>5
    <2>3. /\ sequencer' \in Sequencers /\ sequencer'.init /\ sequencer'.headSN = q.headSN
          /\ sequencer'.seq = q.seq \/ sequencer'.seq = [q.seq EXCEPT ![q.step] = m]
      <3>1. sequencer' = Push(q, sn, offSn, l, FALSE) /\ q.init
        BY <1>2, <1>10, <2>1, <2>2
      <3>2. LateStored(Push(q, sn, offSn, l, FALSE), q, packetMeta(sn, offSn, l))
        BY <1>1, <2>2, <3>1, LatePush
      <3>3. LateStored(sequencer', q, m)
        BY <1>1, <3>1, <3>2
      <3>4. QED
        BY <3>3 DEF LateStored
    <2>4. sequencer'.headSN = lastSN'
      BY <1>2, <2>1, <2>2, <2>3
    <2>5. \A p \in 0 .. History - 1 : sequencer'.seq[p] = sequencer.seq[p] \/ sequencer'.seq[p] = m
      BY <2>2, <2>3 DEF Sequencers
    <2>6. \A k \in DOMAIN sent' : ~OnlyHeadsFrom(k)'
      <3> SUFFICES ASSUME NEW k \in DOMAIN sent', OnlyHeadsFrom(k)' PROVE FALSE
        OBVIOUS
      <3>1. Len(sent) + 1 \in k .. Len(sent')
        BY <1>3
      <3>2. r.head
        BY <1>3, <3>1 DEF OnlyHeadsFrom
      <3>3. QED
        BY <1>1, <1>10, <3>2
    <2>7. RingOK'
      BY <1>6, <2>5, <2>6 DEF RingOK
    <2>8. QED
      BY <2>3, <2>4, <2>7
  <1>11. QED
    BY <1>8, <1>9, <1>10

-----------------------------------------------------------------------------
(* What a packet that is sent keeps.                                       *)

\* The packet as it is recorded.
LEMMA Recorded ==
  ASSUME TypeOK, NEW l \in Layers, NEW i \in Indexes, NEW place \in Int, NEW end \in Int,
         SendsAt(l, i, place, end)
  PROVE  \E r \in Sent :
           /\ r.layer = l /\ r.index = i /\ r.target = place % Modulus /\ (r.head <=> IsHead(l, i))
           /\ sent' = Append(sent, r)
  <1>1. place % Modulus \in SeqNos
    BY InRange
  <1> DEFINE r == [layer |-> l, index |-> i, target |-> place % Modulus, head |-> IsHead(l, i)]
  <1>2. r \in Sent
    BY <1>1 DEF Sent, IsHead
  <1>3. sent' = Append(sent, r)
    BY DEF SendsAt
  <1>4. r.layer = l /\ r.index = i /\ r.target = place % Modulus /\ (r.head <=> IsHead(l, i))
    OBVIOUS
  <1> HIDE DEF r
  <1>5. QED
    BY <1>2, <1>3, <1>4

\* The place continues the stream: what was sent before keeps its place, and a
\* head goes beyond it.
Continues(l, i, place, end) ==
  /\ IF source = None THEN end = place ELSE end = reach
  /\ \A k \in DOMAIN sent : shift'[sent[k].layer] = shift[sent[k].layer]
  /\ IsHead(l, i) /\ source # None => 0 < place - end /\ place - end < Modulus
  /\ IsHead(l, i) => place > Start[sent'[1].layer]
  /\ \A k \in DOMAIN sent : sent[k].layer = l \/ (Switched' /\ sent[k].layer = 0)
  /\ end <= (place - i) + newest(l)'

LEMMA SendKeeps ==
  ASSUME NEW l \in Layers, NEW i \in Indexes, NEW place \in Int, NEW end \in Int
  PROVE  IInv /\ SendsAt(l, i, place, end) /\ Continues(l, i, place, end)
         => TypeOK' /\ ArrivedOK' /\ SentOK' /\ NumbersOK' /\ RingOK' /\ JobOK' /\ SameAsBefore'
  <1>a. HAVE IInv /\ SendsAt(l, i, place, end) /\ Continues(l, i, place, end)
  <1>0. /\ IInv
        /\ SendsAt(l, i, place, end)
        /\ IF source = None THEN end = place ELSE end = reach
        /\ \A k \in DOMAIN sent : shift'[sent[k].layer] = shift[sent[k].layer]
        /\ IsHead(l, i) /\ source # None => 0 < place - end /\ place - end < Modulus
        /\ IsHead(l, i) => place > Start[sent'[1].layer]
        /\ \A k \in DOMAIN sent : sent[k].layer = l \/ (Switched' /\ sent[k].layer = 0)
        /\ end <= (place - i) + newest(l)'
    BY <1>a DEF Continues
  <1>1. sequencer' \in Sequencers /\ sequencer'.init /\ sequencer'.headSN = lastSN' /\ RingOK'
    BY <1>0, RingKept
  <1>2. PICK r \in Sent :
          /\ r.layer = l /\ r.index = i /\ r.target = place % Modulus /\ (r.head <=> IsHead(l, i))
          /\ sent' = Append(sent, r)
    BY <1>0, Recorded, ZenonT(60) DEF IInv
  <1>3. /\ sent' \in Seq(Sent) /\ Len(sent) \in Nat /\ sent'[Len(sent) + 1] = r /\ sent' # <<>>
        /\ DOMAIN sent = 1 .. Len(sent) /\ DOMAIN sent' = 1 .. Len(sent) + 1
        /\ \A k \in DOMAIN sent : sent'[k] = sent[k] /\ k \in DOMAIN sent'
        /\ \A k \in DOMAIN sent' : k \in DOMAIN sent \/ k = Len(sent) + 1
    <2>1. sent \in Seq(Sent)
      BY <1>0 DEF IInv, TypeOK
    <2>2. Longer(sent', sent, r)
      BY <1>2, <2>1, LongerBy
    <2>3. QED
      BY <2>2 DEF Longer
  <1>4. /\ i \notin arrived[l] /\ i \in arrived'[l]
        /\ arrived' \in [Layers -> SUBSET Indexes]
        /\ \A k \in Layers : arrived[k] \subseteq arrived'[k]
        /\ newest(l)' = (IF IsHead(l, i) THEN i ELSE newest(l))
        /\ newest(l) \in Int
        /\ ArrivedOK'
    BY <1>0, Arrival DEF IInv, SendsAt
  <1>5. /\ source' = l /\ snOffset' = (Start[l] - (place - i)) % Modulus
        /\ reach' = (IF IsHead(l, i) THEN place ELSE end) /\ lastSN' = reach' % Modulus
        /\ shift' = [shift EXCEPT ![l] = place - i] /\ job' = job /\ resent' = resent
    BY <1>0 DEF SendsAt
  <1>6. shift \in [Layers -> Int] /\ i \in Int /\ None \notin Layers /\ sent \in Seq(Sent)
    BY <1>0, ConstantsAre DEF IInv, TypeOK, Indexes
  <1>7. reach' \in Int /\ shift' \in [Layers -> Int] /\ shift'[l] = place - i
    BY <1>5, <1>6
  <1>8. TypeOK'
    <2>1. snOffset' \in SeqNos /\ lastSN' \in SeqNos
      <3>1. Start[l] - (place - i) \in Int
        BY <1>6, ConstantsAre
      <3>2. QED
        BY <1>5, <1>7, <3>1, InRange
    <2>2. job' \in [meta : Metas, asked : SeqNos] \cup {None}
      BY <1>0, <1>5 DEF IInv, TypeOK
    <2>3. resent' \in [layer : Layers, index : Indexes, target : SeqNos, asked : SeqNos] \cup {None}
      BY <1>0, <1>5 DEF IInv, TypeOK
    <2>4. QED
      BY <1>1, <1>3, <1>4, <1>5, <1>7, <2>1, <2>2, <2>3 DEF TypeOK
  <1>9. SentOK'
    <2>1. source' # None /\ sent' # <<>>
      BY <1>3, <1>5, <1>6
    <2>2. ASSUME NEW k \in DOMAIN sent'
          PROVE  /\ sent'[k].index \in arrived'[sent'[k].layer]
                 /\ sent'[k].target = Place(sent[k])' % Modulus
                 /\ sent'[k].layer = source' \/ (Switched' /\ sent'[k].layer = 0)
      <3>1. CASE k \in DOMAIN sent
        <4>1. sent'[k] = sent[k] /\ shift'[sent[k].layer] = shift[sent[k].layer] /\ sent[k] \in Sent
          BY <1>0, <1>3, <1>6, <3>1
        <4>2. sent[k].index \in arrived[sent[k].layer] /\ sent[k].target = Place(sent[k]) % Modulus
          BY <1>0, <3>1 DEF IInv, SentOK
        <4>3. sent[k].layer = l \/ (Switched' /\ sent[k].layer = 0)
          BY <1>0, <3>1
        <4>4. Place(sent[k])' = Place(sent[k])
          BY <4>1 DEF Place
        <4>5. QED
          BY <1>4, <1>5, <4>1, <4>2, <4>3, <4>4 DEF Sent
      <3>2. CASE k = Len(sent) + 1
        <4>1. sent'[k] = r
          BY <1>3, <3>2
        <4>2. Place(sent[k])' = place
          BY <1>2, <1>6, <1>7, <4>1 DEF Place
        <4>3. QED
          BY <1>2, <1>4, <1>5, <4>1, <4>2
      <3>3. QED
        BY <1>3, <3>1, <3>2
    <2>3. ASSUME NEW j \in DOMAIN sent', NEW k \in DOMAIN sent', j # k
          PROVE  sent'[j].layer # sent'[k].layer \/ sent'[j].index # sent'[k].index
      <3>1. \A h \in DOMAIN sent : sent[h].index \in arrived[sent[h].layer]
        BY <1>0 DEF IInv, SentOK
      <3>2. CASE j \in DOMAIN sent /\ k \in DOMAIN sent
        BY <1>0, <1>3, <2>3, <3>2 DEF IInv, SentOK
      <3>3. CASE j = Len(sent) + 1 /\ k \in DOMAIN sent
        BY <1>2, <1>3, <1>4, <3>1, <3>3
      <3>4. CASE k = Len(sent) + 1 /\ j \in DOMAIN sent
        BY <1>2, <1>3, <1>4, <3>1, <3>4
      <3>5. QED
        BY <1>3, <2>3, <3>2, <3>3, <3>4
    <2>4. QED
      BY <2>1, <2>2, <2>3 DEF SentOK
  <1>10. NumbersOK'
    <2>1. snOffset' = (Start[l] - shift'[l]) % Modulus
      BY <1>5, <1>7
    <2>2. reach' <= shift'[l] + newest(l)'
      BY <1>0, <1>4, <1>5, <1>6, <1>7
    <2>3. source' # None
      BY <1>5, <1>6
    <2>4. QED
      BY <1>1, <1>5, <2>1, <2>2, <2>3 DEF NumbersOK
  <1>11. JobOK'
    BY <1>0, <1>3, <1>5 DEF IInv, JobOK
  <1>12. SameAsBefore'
    BY <1>0, <1>3, <1>5 DEF IInv, SameAsBefore
  <1>13. QED
    BY <1>1, <1>4, <1>8, <1>9, <1>10, <1>11, <1>12

-----------------------------------------------------------------------------
(* The invariant, action by action.                                        *)

LEMMA FirstKeyFramePreserves ==
  ASSUME NEW l \in Layers, NEW i \in Indexes
  PROVE  IInv /\ FirstKeyFrame(l, i) => IInv'
  <1>0. HAVE IInv /\ FirstKeyFrame(l, i)
  <1>1. PICK place \in Int : place = Start[l] + i
    BY ConstantsAre DEF Indexes
  <1>2. source = None /\ SendsAt(l, i, place, place)
    BY <1>0, <1>1, FirstSends
  <1>3. sent = <<>> /\ shift = Start
    BY <1>0, <1>2 DEF IInv, SentOK, NumbersOK
  <1>4. PICK r \in Sent :
          /\ r.layer = l /\ r.index = i /\ r.target = place % Modulus /\ (r.head <=> IsHead(l, i))
          /\ sent' = Append(sent, r)
    BY <1>0, <1>2, Recorded DEF IInv
  <1>5. Longer(sent', sent, r)
    BY <1>0, <1>4, LongerBy DEF IInv, TypeOK
  <1>6. sent'[1] = r /\ DOMAIN sent = {} /\ DOMAIN sent' = 1 .. 1
    BY <1>3, <1>5 DEF Longer
  <1>7. i \in arrived'[l] /\ newest(l)' = (IF IsHead(l, i) THEN i ELSE newest(l)) /\ i <= newest(l)'
        /\ newest(l) \in Int
    BY <1>0, <1>2, Arrival DEF IInv, SendsAt
  <1>8. i \in Int /\ i > 0 /\ Start[l] \in Nat
    BY ConstantsAre DEF Indexes
  <1>9. TypeOK' /\ ArrivedOK' /\ SentOK' /\ NumbersOK' /\ RingOK' /\ JobOK' /\ SameAsBefore'
    <2>1. \A k \in DOMAIN sent : shift'[sent[k].layer] = shift[sent[k].layer]
      BY <1>6
    <2>2. \A k \in DOMAIN sent : sent[k].layer = l \/ (Switched' /\ sent[k].layer = 0)
      BY <1>6
    <2>3. place > Start[sent'[1].layer]
      BY <1>1, <1>4, <1>6, <1>8
    <2>4. place <= (place - i) + newest(l)'
      BY <1>7, <1>8
    <2>5. Continues(l, i, place, place)
      BY <1>2, <2>1, <2>2, <2>3, <2>4 DEF Continues
    <2>6. QED
      BY <1>0, <1>1, <1>2, <2>5, SendKeeps
  <1>10. source' = l /\ reach' = place /\ shift' = [shift EXCEPT ![l] = place - i]
    BY <1>2 DEF SendsAt
  <1>11. ~Switched'
    BY <1>4, <1>6, <1>10 DEF Switched
  <1>12. FirstLayerOK'
    <2>1. shift' = Start
      <3>1. place - i = Start[l]
        BY <1>1, <1>8
      <3>2. Start \in [Layers -> Nat]
        BY RetransmitAssumption
      <3>3. QED
        BY <1>3, <1>10, <3>1, <3>2
    <2>2. reach' - Start[l] \in arrived'[l]
      <3>1. reach' - Start[l] = i
        BY <1>1, <1>8, <1>10
      <3>2. QED
        BY <1>7, <3>1
    <2>3. HeadWasSent' => reach' = Start[l] + newest(l)'
      <3>1. HeadWasSent' => r.head
        BY <1>6 DEF HeadWasSent
      <3>2. QED
        BY <1>1, <1>4, <1>7, <1>10, <3>1
    <2>4. QED
      BY <1>10, <2>1, <2>2, <2>3 DEF FirstLayerOK
  <1>13. SecondLayerOK'
    BY <1>11 DEF SecondLayerOK
  <1>14. QED
    BY <1>9, <1>12, <1>13 DEF IInv

\* Facts about a stream that has begun.
LEMMA Begun ==
  ASSUME IInv, source # None
  PROVE  /\ source \in Layers /\ sent # <<>> /\ 1 \in DOMAIN sent /\ sent[1] \in Sent
         /\ sent \in Seq(Sent) /\ reach \in Int /\ shift \in [Layers -> Int]
         /\ ~Switched => \A k \in DOMAIN sent : sent[k].layer = source
         /\ newest(source) \in Int /\ newest(source) <= MaxIndex
         /\ reach > Start[sent[1].layer]
  <1>1. /\ source \in Layers /\ sent # <<>> /\ sent \in Seq(Sent) /\ reach \in Int /\ shift \in [Layers -> Int]
        /\ arrived \in [Layers -> SUBSET Indexes]
    BY DEF IInv, TypeOK, SentOK
  <1>2. 1 \in DOMAIN sent /\ sent[1] \in Sent
    BY <1>1
  <1>3. ~Switched => \A k \in DOMAIN sent : sent[k].layer = source
    BY DEF IInv, SentOK
  <1>4. newest(source) \in Int /\ newest(source) <= MaxIndex
    <2>1. CASE arrived[source] = {}
      BY <2>1, ConstantsAre DEF newest
    <2>2. CASE arrived[source] # {}
      <3>1. newest(source) \in arrived[source]
        BY <1>1, <2>2 DEF IInv, ArrivedOK
      <3>2. newest(source) \in Indexes
        BY <1>1, <3>1
      <3>3. QED
        BY <3>2, ConstantsAre DEF Indexes
    <2>3. QED
      BY <2>1, <2>2
  <1>5. reach > Start[sent[1].layer]
    <2>1. CASE ~Switched
      <3>1. sent[1].layer = source /\ reach - Start[source] \in Indexes
        BY <1>1, <1>2, <1>3, <2>1 DEF IInv, FirstLayerOK
      <3>2. QED
        BY <1>1, <3>1, ConstantsAre DEF Indexes
    <2>2. CASE Switched
      <3>1. sent[1].layer = 0 /\ Start[0] \in Nat
        BY <2>2, ConstantsAre DEF Switched
      <3>2. PICK s \in DOMAIN sent :
              Place(sent[s]) \in Start[0] + 2 .. Start[0] + MaxIndex + 1 /\ Place(sent[s]) <= reach + 1
        BY <2>2 DEF IInv, SecondLayerOK
      <3>3. QED
        BY <1>1, <3>1, <3>2, ConstantsAre
    <2>3. QED
      BY <2>1, <2>2
  <1>6. QED
    BY <1>1, <1>2, <1>3, <1>4, <1>5

LEMMA ForwardPreserves ==
  ASSUME NEW l \in Layers, NEW i \in Indexes
  PROVE  IInv /\ Forward(l, i) => IInv'
  <1>0. HAVE IInv /\ Forward(l, i)
  <1>1. source = l /\ source # None /\ SendsAt(l, i, shift[l] + i, reach)
    BY <1>0, ForwardSends, ConstantsAre
  <1>2. /\ sent # <<>> /\ 1 \in DOMAIN sent /\ sent \in Seq(Sent)
        /\ reach \in Int /\ shift \in [Layers -> Int]
        /\ ~Switched => \A k \in DOMAIN sent : sent[k].layer = l
        /\ newest(l) \in Int /\ newest(l) <= MaxIndex
        /\ reach > Start[sent[1].layer] /\ sent[1] \in Sent
    BY <1>0, <1>1, Begun
  <1>3. PICK place \in Int, end \in Int : place = shift[l] + i /\ end = reach
    BY <1>2 DEF Indexes
  <1>4. SendsAt(l, i, place, end)
    BY <1>1, <1>3
  <1>5. PICK r \in Sent :
          /\ r.layer = l /\ r.index = i /\ r.target = place % Modulus /\ (r.head <=> IsHead(l, i))
          /\ sent' = Append(sent, r)
    BY <1>0, <1>3, <1>4, Recorded DEF IInv
  <1>6. Longer(sent', sent, r)
    BY <1>2, <1>5, LongerBy
  <1>7. /\ i \notin arrived[l] /\ i \in arrived'[l] /\ arrived[l] \subseteq arrived'[l]
        /\ newest(l)' = (IF IsHead(l, i) THEN i ELSE newest(l)) /\ i <= newest(l)'
    BY <1>0, <1>4, Arrival DEF IInv, SendsAt
  <1>8. i \in 1 .. MaxIndex /\ i \in Int /\ i > 0 /\ i <= MaxIndex /\ Start[l] \in Nat
        /\ MaxIndex \in Nat /\ Modulus \in Nat /\ MaxIndex + 1 < Modulus
    BY ConstantsAre DEF Indexes
  <1>9. source' = l /\ reach' = (IF IsHead(l, i) THEN place ELSE end) /\ shift' = shift
    <2>1. source' = l /\ reach' = (IF IsHead(l, i) THEN place ELSE end) /\ shift' = [shift EXCEPT ![l] = place - i]
      BY <1>4 DEF SendsAt
    <2>2. place - i = shift[l]
      BY <1>2, <1>3, <1>8
    <2>3. QED
      BY <1>2, <2>1, <2>2
  <1>10. sent'[1] = sent[1] /\ (Switched' <=> Switched)
    BY <1>1, <1>2, <1>6, <1>9 DEF Longer, Switched
  <1>11. reach <= shift[l] + newest(l)
    BY <1>0, <1>1 DEF IInv, NumbersOK
  <1>12. reach >= shift[l]
    <2>1. CASE ~Switched
      <3>1. shift[l] = Start[l] /\ reach - Start[l] \in Indexes
        BY <1>0, <1>1, <2>1 DEF IInv, FirstLayerOK, TypeOK
      <3>2. QED
        BY <1>2, <1>8, <3>1 DEF Indexes
    <2>2. CASE Switched
      <3>1. PICK s \in DOMAIN sent : sent[s].layer = 1 /\ Place(sent[s]) <= reach + 1
        BY <1>0, <2>2 DEF IInv, SecondLayerOK
      <3>2. sent[s] \in Sent
        BY <1>2, <3>1
      <3>3. sent[s].index \in Int /\ sent[s].index > 0
        BY <3>2, ConstantsAre DEF Sent, Indexes
      <3>4. l = 1
        BY <1>1, <2>2 DEF Switched
      <3>5. QED
        BY <1>2, <3>1, <3>3, <3>4 DEF Place
    <2>3. QED
      BY <2>1, <2>2
  <1>13. IsHead(l, i) => 0 < place - end /\ place - end < Modulus /\ place > reach
    <2>1. ASSUME i > newest(l) PROVE 0 < place - end /\ place - end < Modulus /\ place > reach
      <3>1. PICK u \in Int, n \in Int : u = shift[l] /\ n = newest(l)
        BY <1>2
      <3>2. place = u + i /\ end <= u + n /\ end >= u /\ i > n /\ end = reach
        BY <1>3, <1>11, <1>12, <2>1, <3>1
      <3>3. QED
        BY <1>3, <1>8, <3>1, <3>2
    <2>2. QED
      BY <2>1 DEF IsHead
  <1>14. Continues(l, i, place, end)
    <2>1. end = reach /\ source # None
      BY <1>1, <1>3
    <2>2. \A k \in DOMAIN sent : shift'[sent[k].layer] = shift[sent[k].layer]
      BY <1>9
    <2>3. IsHead(l, i) => place > Start[sent'[1].layer]
      <3>1. Start[sent[1].layer] \in Nat
        BY <1>2, ConstantsAre DEF Sent
      <3>2. QED
        BY <1>2, <1>3, <1>10, <1>13, <3>1
    <2>4. \A k \in DOMAIN sent : sent[k].layer = l \/ (Switched' /\ sent[k].layer = 0)
      BY <1>0, <1>1, <1>10 DEF IInv, SentOK
    <2>5. end <= (place - i) + newest(l)'
      <3>1. newest(l)' \in Int /\ newest(l) <= newest(l)'
        BY <1>2, <1>7, <1>8 DEF IsHead
      <3>2. PICK u \in Int, n \in Int, n2 \in Int : u = shift[l] /\ n = newest(l) /\ n2 = newest(l)'
        BY <1>2, <3>1
      <3>3. place = u + i /\ end <= u + n /\ n <= n2
        BY <1>3, <1>11, <3>1, <3>2
      <3>4. end <= (place - i) + n2
        BY <1>3, <1>8, <3>2, <3>3
      <3>5. QED
        BY <3>2, <3>4
    <2>6. QED
      BY <1>13, <2>1, <2>2, <2>3, <2>4, <2>5 DEF Continues
  <1>15. TypeOK' /\ ArrivedOK' /\ SentOK' /\ NumbersOK' /\ RingOK' /\ JobOK' /\ SameAsBefore'
    BY <1>0, <1>3, <1>4, <1>14, SendKeeps
  <1>16. FirstLayerOK'
    <2>1. CASE Switched
      BY <1>10, <2>1 DEF FirstLayerOK
    <2>2. CASE ~Switched
      <3>1. /\ shift = Start /\ reach - Start[l] \in arrived[l]
            /\ HeadWasSent => reach = Start[l] + newest(l)
        BY <1>0, <1>1, <2>2 DEF IInv, FirstLayerOK
      <3>2. reach' - Start[l] \in arrived'[l]
        <4>1. CASE IsHead(l, i)
          <5>1. place - Start[l] = i
            BY <1>3, <1>8, <3>1
          <5>2. QED
            BY <1>7, <1>9, <4>1, <5>1
        <4>2. CASE ~IsHead(l, i)
          BY <1>3, <1>7, <1>9, <3>1, <4>2
        <4>3. QED
          BY <4>1, <4>2
      <3>3. HeadWasSent' => reach' = Start[l] + newest(l)'
        <4>1. CASE IsHead(l, i)
          BY <1>3, <1>7, <1>9, <3>1, <4>1
        <4>2. CASE ~IsHead(l, i)
          <5>1. HeadWasSent' => HeadWasSent
            BY <1>5, <1>6, <1>10, <4>2 DEF HeadWasSent, Longer
          <5>2. QED
            BY <1>3, <1>7, <1>9, <3>1, <4>2, <5>1
        <4>3. QED
          BY <4>1, <4>2
      <3>4. QED
        BY <1>9, <3>1, <3>2, <3>3 DEF FirstLayerOK
    <2>3. QED
      BY <2>1, <2>2
  <1>17. SecondLayerOK'
    <2>1. SUFFICES ASSUME Switched PROVE SecondLayerOK'
      BY <1>10 DEF SecondLayerOK
    <2>2. l = 1 /\ sent[1].layer = 0
      BY <1>1, <2>1 DEF Switched
    <2>3. PICK s \in DOMAIN sent :
              /\ sent[s].layer = 1 /\ \A j \in 1 .. s - 1 : sent[j].layer = 0
              /\ Place(sent[s]) \in Start[0] + 2 .. Start[0] + MaxIndex + 1
              /\ Place(sent[s]) <= reach + 1
              /\ HeadWasSent => \A k \in DOMAIN sent : sent[k].layer = 0 => Place(sent[k]) < Place(sent[s])
      BY <1>0, <2>1 DEF IInv, SecondLayerOK
    <2>4. s \in DOMAIN sent' /\ \A k \in DOMAIN sent : sent'[k] = sent[k] /\ Place(sent[k])' = Place(sent[k])
      BY <1>6, <1>9 DEF Longer, Place
    <2>5. \A j \in 1 .. s - 1 : j \in DOMAIN sent
      BY <1>6 DEF Longer
    <2>6. Place(sent[s])' <= reach' + 1
      <3>1. Place(sent[s]) \in Int
        BY <2>3, ConstantsAre
      <3>2. reach' >= reach /\ reach' \in Int
        BY <1>2, <1>3, <1>9, <1>13
      <3>3. QED
        BY <1>2, <2>3, <2>4, <3>1, <3>2
    <2>7. HeadWasSent' => HeadWasSent
      BY <1>5, <1>6, <1>10, <2>2 DEF HeadWasSent, Longer
    <2>8. ASSUME HeadWasSent', NEW k \in DOMAIN sent', sent'[k].layer = 0
          PROVE  Place(sent[k])' < Place(sent[s])'
      <3>1. k \in DOMAIN sent
        BY <1>5, <1>6, <2>2, <2>8 DEF Longer
      <3>2. QED
        BY <2>3, <2>4, <2>7, <2>8, <3>1
    <2>9. /\ sent'[s].layer = 1 /\ \A j \in 1 .. s - 1 : sent'[j].layer = 0
          /\ Place(sent[s])' \in Start[0] + 2 .. Start[0] + MaxIndex + 1
      BY <2>3, <2>4, <2>5
    <2>10. shift'[0] = Start[0]
      BY <1>0, <1>9, <2>1 DEF IInv, SecondLayerOK
    <2>11. QED
      BY <2>4, <2>6, <2>8, <2>9, <2>10 DEF SecondLayerOK
  <1>18. QED
    BY <1>15, <1>16, <1>17 DEF IInv

\* The first switch, from layer 0: all that was sent is of layer 0, and the new
\* layer begins at the place after reach.
LEMMA SwitchPreserves ==
  ASSUME NEW l \in Layers, NEW i \in Indexes
  PROVE  IInv /\ Switch(l, i) => IInv'
  <1>0. HAVE IInv /\ Switch(l, i)
  <1>1. source = 0 /\ l = 1 /\ source # None /\ SendsAt(l, i, reach + 1, reach)
    BY <1>0, SwitchSends, ConstantsAre DEF Layers
  <1>2. /\ sent # <<>> /\ 1 \in DOMAIN sent /\ sent \in Seq(Sent)
        /\ reach \in Int /\ shift \in [Layers -> Int]
        /\ newest(0) \in Int /\ newest(0) <= MaxIndex /\ sent[1] \in Sent
        /\ reach > Start[sent[1].layer]
    BY <1>0, <1>1, Begun
  <1>3. ~Switched
    BY <1>1 DEF Switched
  <1>4. sent[1].layer = 0 /\ \A k \in DOMAIN sent : sent[k].layer = 0
    BY <1>0, <1>1, <1>2, <1>3, Begun
  <1>5. PICK place \in Int, end \in Int : place = reach + 1 /\ end = reach
    BY <1>2
  <1>6. SendsAt(l, i, place, end)
    BY <1>1, <1>5
  <1>7. PICK r \in Sent :
          /\ r.layer = l /\ r.index = i /\ r.target = place % Modulus /\ (r.head <=> IsHead(l, i))
          /\ sent' = Append(sent, r)
    BY <1>0, <1>5, <1>6, Recorded DEF IInv
  <1>8. Longer(sent', sent, r)
    BY <1>2, <1>7, LongerBy
  <1>9. i <= newest(l)' /\ newest(l)' \in Int /\ i \in Int /\ i > 0
    <2>1. newest(l)' = (IF IsHead(l, i) THEN i ELSE newest(l)) /\ i <= newest(l)' /\ newest(l) \in Int
      BY <1>0, <1>6, Arrival DEF IInv, SendsAt
    <2>2. i \in Int /\ i > 0
      BY ConstantsAre DEF Indexes
    <2>3. QED
      BY <2>1, <2>2
  <1>10. /\ source' = 1 /\ reach' = (IF IsHead(l, i) THEN place ELSE end)
         /\ shift' = [shift EXCEPT ![l] = place - i]
    BY <1>1, <1>6 DEF SendsAt
  <1>11. shift'[0] = shift[0] /\ shift'[1] = place - i
    BY <1>1, <1>2, <1>10 DEF Layers
  <1>12. sent'[1] = sent[1] /\ Switched'
    BY <1>2, <1>4, <1>8, <1>10 DEF Longer, Switched
  <1>13. /\ shift[0] = Start[0] /\ reach - Start[0] \in Indexes
         /\ HeadWasSent => reach = Start[0] + newest(0)
    BY <1>0, <1>1, <1>3 DEF IInv, FirstLayerOK, TypeOK, Layers
  <1>14. Continues(l, i, place, end)
    <2>1. \A k \in DOMAIN sent : shift'[sent[k].layer] = shift[sent[k].layer]
      BY <1>4, <1>11
    <2>2. 0 < place - end /\ place - end < Modulus
      BY <1>2, <1>5, ConstantsAre
    <2>3. place > Start[sent'[1].layer]
      BY <1>2, <1>4, <1>5, <1>12, ConstantsAre
    <2>4. end <= (place - i) + newest(l)'
      <3>1. PICK n \in Int : n = newest(l)'
        BY <1>9
      <3>2. end <= (place - i) + n
        BY <1>2, <1>5, <1>9, <3>1
      <3>3. QED
        BY <3>1, <3>2
    <2>5. QED
      BY <1>1, <1>4, <1>5, <1>12, <2>1, <2>2, <2>3, <2>4 DEF Continues
  <1>15. TypeOK' /\ ArrivedOK' /\ SentOK' /\ NumbersOK' /\ RingOK' /\ JobOK' /\ SameAsBefore'
    BY <1>0, <1>5, <1>6, <1>14, SendKeeps
  <1>16. FirstLayerOK'
    BY <1>12 DEF FirstLayerOK
  <1>17. SecondLayerOK'
    <2>1. PICK s \in DOMAIN sent' : s = Len(sent) + 1 /\ sent'[s] = r
      BY <1>8 DEF Longer
    <2>2. \A j \in 1 .. s - 1 : j \in DOMAIN sent
      BY <1>8, <2>1 DEF Longer
    <2>3. \A k \in DOMAIN sent : sent'[k] = sent[k] /\ Place(sent[k])' = Place(sent[k])
      BY <1>4, <1>8, <1>11 DEF Longer, Place
    <2>4. Place(sent[s])' = place
      BY <1>1, <1>5, <1>7, <1>9, <1>11, <2>1 DEF Place
    <2>5. place \in Start[0] + 2 .. Start[0] + MaxIndex + 1
      BY <1>2, <1>5, <1>13, ConstantsAre DEF Indexes
    <2>6. place <= reach' + 1
      BY <1>2, <1>5, <1>10
    <2>7. HeadWasSent' => HeadWasSent
      BY <1>1, <1>4, <1>7, <1>8, <1>12 DEF HeadWasSent, Longer
    <2>8. ASSUME HeadWasSent', NEW k \in DOMAIN sent', sent'[k].layer = 0
          PROVE  Place(sent[k])' < Place(sent[s])'
      <3>1. k \in DOMAIN sent
        BY <1>1, <1>7, <1>8, <2>8 DEF Longer
      <3>2. sent[k].layer = 0 /\ sent[k].index \in arrived[0] /\ sent[k] \in Sent
        BY <1>0, <1>2, <1>4, <3>1 DEF IInv, SentOK
      <3>3. sent[k].index <= newest(0) /\ sent[k].index \in Int
        <4>1. sent[k].index \in Int
          BY <3>2, ConstantsAre DEF Sent, Indexes
        <4>2. QED
          BY <1>0, <3>2, <4>1 DEF IInv, ArrivedOK, Layers
      <3>4. Place(sent[k]) = Start[0] + sent[k].index
        BY <1>13, <3>2 DEF Place
      <3>5. reach = Start[0] + newest(0)
        BY <1>13, <2>7, <2>8
      <3>6. Place(sent[k]) < place
        BY <1>2, <1>5, <3>3, <3>4, <3>5, ConstantsAre, SMTT(40)
      <3>7. QED
        BY <2>3, <2>4, <3>1, <3>6
    <2>9. sent'[s].layer = 1 /\ \A j \in 1 .. s - 1 : sent'[j].layer = 0
      BY <1>1, <1>4, <1>7, <2>1, <2>2, <2>3
    <2>10. shift'[0] = Start[0]
      BY <1>11, <1>13
    <2>11. QED
      BY <2>1, <2>4, <2>5, <2>6, <2>8, <2>9, <2>10 DEF SecondLayerOK
  <1>18. QED
    BY <1>15, <1>16, <1>17 DEF IInv

\* A packet of another layer than the one that is sent changes nothing that
\* the invariant says of the stream.
LEMMA DropPreserves ==
  ASSUME NEW l \in Layers, NEW i \in Indexes
  PROVE  IInv /\ Drop(l, i) => IInv'
  <1>0. HAVE IInv /\ Drop(l, i)
  <1>1. /\ l # source /\ Arrive(l, i)
        /\ UNCHANGED <<source, snOffset, lastSN, sequencer, job, sent, resent, shift, reach>>
    BY <1>0 DEF Drop, trackVars, placeVars
  <1>2. /\ arrived' \in [Layers -> SUBSET Indexes]
        /\ \A k \in Layers : arrived[k] \subseteq arrived'[k]
        /\ \A k \in Layers : k # l => newest(k)' = newest(k) /\ arrived'[k] = arrived[k]
        /\ ArrivedOK'
    BY <1>0, <1>1, Arrival DEF IInv
  <1>3. source \in Layers => newest(source)' = newest(source) /\ arrived'[source] = arrived[source]
    BY <1>1, <1>2
  <1>4. source # None => source \in Layers
    BY <1>0 DEF IInv, TypeOK
  <1>5. TypeOK'
    BY <1>0, <1>1, <1>2 DEF IInv, TypeOK
  <1>6. \A k \in DOMAIN sent : sent[k].layer \in Layers
    <2>1. sent \in Seq(Sent)
      BY <1>0 DEF IInv, TypeOK
    <2>2. \A k \in DOMAIN sent : sent[k] \in Sent
      BY <2>1
    <2>3. QED
      BY <2>2 DEF Sent
  <1>7. (Switched' <=> Switched) /\ (HeadWasSent' <=> HeadWasSent)
        /\ (\A k \in DOMAIN sent : Place(sent[k])' = Place(sent[k]) /\ (OnlyHeadsFrom(k)' <=> OnlyHeadsFrom(k)))
    BY <1>1 DEF Switched, HeadWasSent, Place, OnlyHeadsFrom
  <1>8. SentOK'
    BY <1>0, <1>1, <1>2, <1>6, <1>7 DEF IInv, SentOK
  <1>9. FirstLayerOK'
    BY <1>0, <1>1, <1>3, <1>4, <1>7 DEF IInv, FirstLayerOK
  <1>10. SecondLayerOK'
    BY <1>0, <1>1, <1>7 DEF IInv, SecondLayerOK
  <1>11. NumbersOK'
    BY <1>0, <1>1, <1>3, <1>4 DEF IInv, NumbersOK
  <1>12. RingOK'
    BY <1>0, <1>1, <1>7 DEF IInv, RingOK
  <1>13. JobOK' /\ SameAsBefore'
    BY <1>0, <1>1 DEF IInv, JobOK, SameAsBefore
  <1>14. QED
    BY <1>2, <1>5, <1>8, <1>9, <1>10, <1>11, <1>12, <1>13 DEF IInv

\* What the steps of a retransmission leave alone.
LEMMA StreamUnchanged ==
  IInv /\ UNCHANGED <<arrived, trackVars, sent, placeVars>>
  => ArrivedOK' /\ SentOK' /\ FirstLayerOK' /\ SecondLayerOK' /\ NumbersOK' /\ RingOK'
  <1>0. HAVE IInv /\ UNCHANGED <<arrived, trackVars, sent, placeVars>>
  <1>1. UNCHANGED <<arrived, source, snOffset, lastSN, sequencer, sent, shift, reach>>
    BY <1>0 DEF trackVars, placeVars
  <1>2. /\ (Switched' <=> Switched) /\ (HeadWasSent' <=> HeadWasSent)
        /\ \A k \in DOMAIN sent : Place(sent[k])' = Place(sent[k]) /\ (OnlyHeadsFrom(k)' <=> OnlyHeadsFrom(k))
    BY <1>1 DEF Switched, HeadWasSent, Place, OnlyHeadsFrom
  <1>3. \A l : newest(l)' = newest(l)
    BY <1>1 DEF newest
  <1>4. ArrivedOK'
    BY <1>0, <1>1, <1>3 DEF IInv, ArrivedOK
  <1>5. SentOK'
    BY <1>0, <1>1, <1>2 DEF IInv, SentOK
  <1>6. FirstLayerOK'
    BY <1>0, <1>1, <1>2, <1>3 DEF IInv, FirstLayerOK
  <1>7. SecondLayerOK'
    BY <1>0, <1>1, <1>2 DEF IInv, SecondLayerOK
  <1>8. NumbersOK'
    BY <1>0, <1>1, <1>3 DEF IInv, NumbersOK
  <1>9. RingOK'
    BY <1>0, <1>1, <1>2 DEF IInv, RingOK
  <1>10. QED
    BY <1>4, <1>5, <1>6, <1>7, <1>8, <1>9

\* What is found is in the ring, under the number that was looked up.
LEMMA FoundInRing ==
  ASSUME NEW q \in Sequencers, NEW sn \in SeqNos, Find(q, sn) # None
  PROVE  Find(q, sn).targetSeqNo = sn /\ \E p \in 0 .. History - 1 : Find(q, sn) = q.seq[p]
  <1> DEFINE pos == q.step - Minus(q.headSN, sn) - 1
             at  == IF pos < 0 THEN History + pos ELSE pos
  <1>1. Find(q, sn) = q.seq[at] /\ ~(-pos >= History) /\ q.seq[at].targetSeqNo = sn
    BY DEF Find
  <1>2. Minus(q.headSN, sn) \in 0 .. Modulus - 1
    <2>1. Modulus + q.headSN - sn \in Int
      BY ConstantsAre DEF Sequencers, SeqNos
    <2>2. QED
      BY <2>1, InRange DEF Minus, SeqNos
  <1>3. q.step \in 0 .. History - 1
    BY DEF Sequencers
  <1>4. at \in 0 .. History - 1
    <2>1. PICK d \in 0 .. Modulus - 1 : d = Minus(q.headSN, sn)
      BY <1>2
    <2>2. pos = q.step - d - 1
      BY <2>1
    <2> HIDE DEF pos
    <2>3. QED
      BY <1>1, <1>3, <2>1, <2>2, ConstantsAre
  <1> HIDE DEF at, pos
  <1>5. QED
    BY <1>1, <1>4

LEMMA NackPreserves ==
  ASSUME NEW sn \in SeqNos
  PROVE  IInv /\ Nack(sn) => IInv'
  <1>0. HAVE IInv /\ Nack(sn)
  <1>1. PICK meta : meta = Find(sequencer, sn)
    OBVIOUS
  <1>2. /\ meta # None /\ job' = [meta |-> meta, asked |-> sn]
        /\ UNCHANGED <<arrived, trackVars, sent, placeVars>> /\ resent' = resent
    BY <1>0, <1>1 DEF Nack
  <1>3. sequencer \in Sequencers
    BY <1>0 DEF IInv, TypeOK
  <1>4. PICK p \in 0 .. History - 1 : meta.targetSeqNo = sn /\ meta = sequencer.seq[p]
    BY <1>1, <1>2, <1>3, FoundInRing
  <1>5. meta \in Metas
    BY <1>3, <1>4 DEF Sequencers
  <1>6. ArrivedOK' /\ SentOK' /\ FirstLayerOK' /\ SecondLayerOK' /\ NumbersOK' /\ RingOK'
    BY <1>0, <1>2, StreamUnchanged
  <1>7. TypeOK'
    BY <1>0, <1>2, <1>5 DEF IInv, TypeOK, trackVars, placeVars
  <1>8. JobOK'
    <2>1. meta = packetMeta(0, 0, 0) \/ \E k \in DOMAIN sent : meta = MetaOf(sent[k])
      BY <1>0, <1>4 DEF IInv, RingOK
    <2>2. sn # 0 => \E k \in DOMAIN sent : meta = MetaOf(sent[k])
      BY <1>4, <2>1 DEF packetMeta
    <2>3. QED
      BY <1>2, <1>4, <2>2 DEF JobOK
  <1>9. SameAsBefore'
    BY <1>0, <1>2 DEF IInv, SameAsBefore
  <1>10. QED
    BY <1>6, <1>7, <1>8, <1>9 DEF IInv

\* The packets of a layer have different numbers, so that the one with the
\* number of the job is the one that was sent.
LEMMA ResendPreserves ==
  IInv /\ Resend => IInv'
  <1>0. HAVE IInv /\ Resend
  <1>1. job # None /\ job' = None /\ UNCHANGED <<arrived, trackVars, sent, placeVars>>
    BY <1>0 DEF Resend
  <1>2. job \in [meta : Metas, asked : SeqNos] /\ arrived \in [Layers -> SUBSET Indexes] /\ sent \in Seq(Sent)
    BY <1>0, <1>1 DEF IInv, TypeOK
  <1>3. PICK meta \in Metas, sn \in SeqNos : meta = job.meta /\ sn = job.asked
    BY <1>2
  <1>4. PICK i \in arrived[meta.layer] :
          /\ SN(meta.layer, i) = meta.sourceSeqNo
          /\ resent' = [layer |-> meta.layer, index |-> i, target |-> meta.targetSeqNo, asked |-> sn]
    BY <1>0, <1>3 DEF Resend
  <1>5. meta.layer \in Layers /\ meta.targetSeqNo \in SeqNos
    BY <1>3 DEF Metas
  <1>6. i \in Indexes
    BY <1>2, <1>4, <1>5
  <1>7. ArrivedOK' /\ SentOK' /\ FirstLayerOK' /\ SecondLayerOK' /\ NumbersOK' /\ RingOK'
    BY <1>0, <1>1, StreamUnchanged
  <1>8. TypeOK'
    <2>1. resent' \in [layer : Layers, index : Indexes, target : SeqNos, asked : SeqNos]
      BY <1>3, <1>4, <1>5, <1>6
    <2>2. QED
      BY <1>0, <1>1, <2>1 DEF IInv, TypeOK, trackVars, placeVars
  <1>9. JobOK'
    BY <1>1 DEF JobOK
  <1>10. meta.targetSeqNo = sn /\ (sn # 0 => \E k \in DOMAIN sent : meta = MetaOf(sent[k]))
    BY <1>0, <1>1, <1>3 DEF IInv, JobOK
  <1>11. ASSUME sn # 0
         PROVE  \E k \in DOMAIN sent : sent[k].layer = meta.layer /\ sent[k].index = i /\ sent[k].target = sn
    <2>1. PICK k \in DOMAIN sent : meta = MetaOf(sent[k])
      BY <1>10, <1>11
    <2>2. sent[k] \in Sent
      BY <1>2, <2>1
    <2>3. PICK l \in Layers, j \in Indexes : l = sent[k].layer /\ j = sent[k].index
      BY <2>2 DEF Sent
    <2>4. meta.layer = l /\ meta.sourceSeqNo = SN(l, j) /\ sent[k].target = sn
      BY <1>10, <2>1, <2>3 DEF MetaOf, packetMeta
    <2>5. i = j
      BY <1>4, <1>6, <2>3, <2>4, NumbersDiffer
    <2>6. QED
      BY <2>1, <2>3, <2>4, <2>5
  <1>12. SameAsBefore'
    BY <1>1, <1>4, <1>10, <1>11 DEF SameAsBefore
  <1>13. QED
    BY <1>7, <1>8, <1>9, <1>12 DEF IInv

LEMMA NotCachedPreserves ==
  IInv /\ NotCached => IInv'
  <1>0. HAVE IInv /\ NotCached
  <1>1. job' = None /\ resent' = resent /\ UNCHANGED <<arrived, trackVars, sent, placeVars>>
    BY <1>0 DEF NotCached
  <1>2. ArrivedOK' /\ SentOK' /\ FirstLayerOK' /\ SecondLayerOK' /\ NumbersOK' /\ RingOK'
    BY <1>0, <1>1, StreamUnchanged
  <1>3. TypeOK'
    BY <1>0, <1>1 DEF IInv, TypeOK, trackVars, placeVars
  <1>4. JobOK' /\ SameAsBefore'
    BY <1>0, <1>1 DEF IInv, JobOK, SameAsBefore
  <1>5. QED
    BY <1>2, <1>3, <1>4 DEF IInv

LEMMA StutterPreserves ==
  IInv /\ UNCHANGED vars => IInv'
  <1>0. HAVE IInv /\ UNCHANGED vars
  <1>1. UNCHANGED <<arrived, trackVars, job, sent, resent, placeVars>>
    BY <1>0 DEF vars
  <1>2. ArrivedOK' /\ SentOK' /\ FirstLayerOK' /\ SecondLayerOK' /\ NumbersOK' /\ RingOK'
    BY <1>0, <1>1, StreamUnchanged
  <1>3. TypeOK'
    BY <1>0, <1>1 DEF IInv, TypeOK, trackVars, placeVars
  <1>4. JobOK' /\ SameAsBefore'
    BY <1>0, <1>1 DEF IInv, JobOK, SameAsBefore
  <1>5. QED
    BY <1>2, <1>3, <1>4 DEF IInv

LEMMA InitIInv ==
  Init => IInv
  <1>0. HAVE Init
  <1>1. /\ arrived = [l \in Layers |-> {}] /\ source = None /\ snOffset = 0 /\ lastSN = 0
        /\ sequencer = newSequencer /\ job = None /\ sent = <<>> /\ resent = None
        /\ shift = Start /\ reach = 0
    BY <1>0 DEF Init
  <1>2. DOMAIN sent = {} /\ sent \in Seq(Sent)
    BY <1>1
  <1>3. 0 \in SeqNos /\ 0 \in 0 .. History - 1 /\ 0 \in Layers
    BY ConstantsAre DEF SeqNos, Layers
  <1>4. sequencer \in Sequencers
    <2>1. packetMeta(0, 0, 0) \in Metas
      BY <1>3, MetaType
    <2>2. QED
      BY <1>1, <1>3, <2>1 DEF newSequencer, Sequencers
  <1>5. shift \in [Layers -> Int]
    BY <1>1, RetransmitAssumption
  <1>6. TypeOK
    BY <1>1, <1>2, <1>3, <1>4, <1>5 DEF TypeOK
  <1>7. source # 0 /\ source # 1
    BY <1>1, ConstantsAre DEF Layers
  <1>8. ArrivedOK
    BY <1>1 DEF ArrivedOK
  <1>9. SentOK
    BY <1>1, <1>2 DEF SentOK
  <1>10. FirstLayerOK /\ SecondLayerOK
    BY <1>1, <1>7 DEF FirstLayerOK, SecondLayerOK, Switched
  <1>11. NumbersOK
    BY <1>1 DEF NumbersOK
  <1>12. RingOK
    BY <1>1, <1>2 DEF RingOK, newSequencer
  <1>13. JobOK /\ SameAsBefore
    BY <1>1 DEF JobOK, SameAsBefore
  <1>14. QED
    BY <1>6, <1>8, <1>9, <1>10, <1>11, <1>12, <1>13 DEF IInv

LEMMA NextPreserves ==
  IInv /\ [Next]_vars => IInv'
  <1>0. HAVE IInv /\ [Next]_vars
  <1>1. CASE \E l \in Layers, i \in Indexes :
               Drop(l, i) \/ FirstKeyFrame(l, i) \/ Forward(l, i) \/ Switch(l, i)
    BY <1>0, <1>1, DropPreserves, FirstKeyFramePreserves, ForwardPreserves, SwitchPreserves
  <1>2. CASE \E sn \in SeqNos : Nack(sn)
    BY <1>0, <1>2, NackPreserves
  <1>3. CASE Resend
    BY <1>0, <1>3, ResendPreserves
  <1>4. CASE NotCached
    BY <1>0, <1>4, NotCachedPreserves
  <1>5. CASE UNCHANGED vars
    BY <1>0, <1>5, StutterPreserves
  <1>6. QED
    BY <1>0, <1>1, <1>2, <1>3, <1>4, <1>5 DEF Next

\* The inductive invariant of a down track: numbers are places, places are
\* never given twice, and the ring holds what was sent.
THEOREM Invariance == Spec => []IInv
  <1>1. Init => IInv
    BY InitIInv
  <1>2. IInv /\ [Next]_vars => IInv'
    BY NextPreserves
  <1>3. QED
    BY <1>1, <1>2, PTL DEF Spec

\* The state of a down track and of its sequencer stays in its types: every
\* number that the 16 bit arithmetic of writeSimulcastRTP yields is a sequence
\* number, and push never leaves the ring.
THEOREM TypeCorrect == Spec => []TypeOK
  <1>1. IInv => TypeOK
    BY DEF IInv
  <1>2. QED
    BY <1>1, Invariance, PTL

\* What the nackWorker sends again is the packet that was sent under the number
\* that the client reported as missing (RetransmitPackets, getSeqNoPairs).
THEOREM ResentAsBefore == Spec => []SameAsBefore
  <1>1. IInv => SameAsBefore
    BY DEF IInv
  <1>2. QED
    BY <1>1, Invariance, PTL

-----------------------------------------------------------------------------
(* What the invariant says of the numbers.                                 *)

\* A packet that was sent, with its layer, index and place.
LEMMA SentIs ==
  ASSUME IInv, NEW k \in DOMAIN sent
  PROVE  /\ sent[k].layer \in Layers /\ sent[k].index \in 1 .. MaxIndex /\ sent[k].index \in Int
         /\ Place(sent[k]) \in Int /\ Place(sent[k]) = shift[sent[k].layer] + sent[k].index
         /\ sent[k].target = Place(sent[k]) % Modulus
         /\ source # None
  <1>1. sent \in Seq(Sent) /\ shift \in [Layers -> Int]
    BY DEF IInv, TypeOK
  <1>2. sent[k] \in Sent
    BY <1>1
  <1>3. sent[k].layer \in Layers /\ sent[k].index \in 1 .. MaxIndex
    BY <1>2 DEF Sent, Indexes
  <1>4. sent[k].index \in Int /\ shift[sent[k].layer] \in Int
    BY <1>1, <1>3, ConstantsAre
  <1>5. source # None /\ sent[k].target = Place(sent[k]) % Modulus
    BY DEF IInv, SentOK
  <1>6. QED
    BY <1>3, <1>4, <1>5 DEF Place

\* After a switch: s is the key frame that the new layer began with.
LEMMA NewLayer ==
  ASSUME IInv, Switched
  PROVE  \E s \in DOMAIN sent :
           /\ sent[s].layer = 1
           /\ Place(sent[s]) <= Start[0] + MaxIndex + 1
           /\ HeadWasSent => \A k \in DOMAIN sent : sent[k].layer = 0 => Place(sent[k]) < Place(sent[s])
           /\ \A q : q.layer = 1 => KeyFrame(q) = sent[s]
  <1>1. PICK s \in DOMAIN sent :
          /\ sent[s].layer = 1 /\ \A j \in 1 .. s - 1 : sent[j].layer = 0
          /\ Place(sent[s]) \in Start[0] + 2 .. Start[0] + MaxIndex + 1
          /\ HeadWasSent => \A k \in DOMAIN sent : sent[k].layer = 0 => Place(sent[k]) < Place(sent[s])
    BY DEF IInv, SecondLayerOK
  <1>2. sent \in Seq(Sent)
    BY DEF IInv, TypeOK
  <1>3. DOMAIN sent \subseteq Nat /\ \A k \in DOMAIN sent : \A j \in 1 .. k - 1 : j \in DOMAIN sent
    BY <1>2
  <1>4. ASSUME NEW q, q.layer = 1 PROVE KeyFrame(q) = sent[s]
    <2> DEFINE IsFirst(k) == sent[k].layer = q.layer /\ \A j \in 1 .. k - 1 : sent[j].layer # q.layer
               first == CHOOSE k \in DOMAIN sent : IsFirst(k)
    <2>1. IsFirst(s)
      BY <1>1, <1>4
    <2>2. first \in DOMAIN sent /\ IsFirst(first)
      BY <2>1
    <2>3. KeyFrame(q) = sent[first]
      BY DEF KeyFrame
    <2> HIDE DEF first
    <2>4. ~(first < s) /\ ~(s < first)
      <3>1. first \in Nat /\ s \in Nat /\ first >= 1 /\ s >= 1
        BY <1>1, <1>2, <2>2
      <3>2. ASSUME first < s PROVE FALSE
        <4>1. first \in 1 .. s - 1
          BY <3>1, <3>2
        <4>2. QED
          BY <1>1, <1>4, <2>2, <4>1
      <3>3. ASSUME s < first PROVE FALSE
        <4>1. s \in 1 .. first - 1
          BY <3>1, <3>3
        <4>2. QED
          BY <1>1, <1>4, <2>2, <4>1
      <3>4. QED
        BY <3>2, <3>3
    <2>5. first = s
      BY <1>1, <1>3, <2>2, <2>4
    <2>6. QED
      BY <2>3, <2>5
  <1>5. Place(sent[s]) <= Start[0] + MaxIndex + 1
    BY <1>1, ConstantsAre
  <1>6. QED
    BY <1>1, <1>4, <1>5

\* A packet of the old layer and one of the new that is no straggler have
\* different numbers.
LEMMA OldAndNew ==
  ASSUME IInv, Switched, HeadWasSent, NEW j \in DOMAIN sent, NEW k \in DOMAIN sent,
         sent[j].layer = 0, sent[k].layer = 1, ~Straggler(sent[k]), sent[j].target = sent[k].target
  PROVE  FALSE
  <1>1. PICK s \in DOMAIN sent :
           /\ sent[s].layer = 1
           /\ Place(sent[s]) <= Start[0] + MaxIndex + 1
           /\ HeadWasSent => \A h \in DOMAIN sent : sent[h].layer = 0 => Place(sent[h]) < Place(sent[s])
           /\ \A q : q.layer = 1 => KeyFrame(q) = sent[s]
    BY NewLayer
  <1>2. sent[1].layer = 0 /\ KeyFrame(sent[k]) = sent[s]
    BY <1>1 DEF Switched
  <1>3. ~(sent[k].index < sent[s].index)
    BY <1>2 DEF Straggler
  <1>4. PICK u \in Int : u = shift[1] /\ shift[0] = Start[0]
    BY DEF IInv, TypeOK, SecondLayerOK, Layers
  <1>5. PICK a \in 1 .. MaxIndex, x \in Int : a = sent[j].index /\ x = Place(sent[j])
                                       /\ x = Start[0] + a /\ sent[j].target = x % Modulus
    BY <1>4, SentIs
  <1>6. PICK b \in 1 .. MaxIndex, y \in Int : b = sent[k].index /\ y = Place(sent[k])
                                       /\ y = u + b /\ sent[k].target = y % Modulus
    BY <1>4, SentIs
  <1>7. PICK c \in 1 .. MaxIndex, z \in Int : c = sent[s].index /\ z = Place(sent[s]) /\ z = u + c
    BY <1>1, <1>4, SentIs
  <1>8. x < z /\ z <= Start[0] + MaxIndex + 1 /\ ~(b < c)
    BY <1>1, <1>3, <1>5, <1>6, <1>7
  <1>9. x - y < Modulus /\ y - x < Modulus /\ x # y
    BY <1>4, <1>5, <1>6, <1>7, <1>8, ConstantsAre
  <1>10. x % Modulus = y % Modulus
    BY <1>5, <1>6
  <1>11. QED
    BY <1>5, <1>6, <1>9, <1>10, ConstantsAre, SameRemainder

LEMMA UniqueByInvariant ==
  IInv => NumbersAreUnique
  <1>0. HAVE IInv
  <1>1. SUFFICES ASSUME NEW j \in DOMAIN sent, NEW k \in DOMAIN sent, j # k, sent[j].target = sent[k].target,
                        ~Straggler(sent[j]), ~Straggler(sent[k]), HeadWasSent
                 PROVE  FALSE
    BY DEF NumbersAreUnique
  <1>2. PICK lj \in Layers, lk \in Layers : lj = sent[j].layer /\ lk = sent[k].layer
    BY <1>0, SentIs
  <1>3. CASE lj = lk
    <2>1. PICK u \in Int : u = shift[lj]
      BY <1>0, <1>2 DEF IInv, TypeOK
    <2>2. PICK a \in 1 .. MaxIndex, x \in Int :
            a = sent[j].index /\ x = u + a /\ sent[j].target = x % Modulus
      BY <1>0, <1>2, <2>1, SentIs
    <2>3. PICK b \in 1 .. MaxIndex, y \in Int :
            b = sent[k].index /\ y = u + b /\ sent[k].target = y % Modulus
      BY <1>0, <1>2, <1>3, <2>1, SentIs
    <2>4. x - y < Modulus /\ y - x < Modulus
      BY <2>1, <2>2, <2>3, ConstantsAre
    <2>5. x % Modulus = y % Modulus
      BY <1>1, <2>2, <2>3
    <2>6. x = y
      BY <2>2, <2>3, <2>4, <2>5, ConstantsAre, SameRemainder
    <2>7. a = b
      BY <2>1, <2>2, <2>3, <2>6, ConstantsAre
    <2>8. QED
      BY <1>0, <1>1, <1>2, <1>3, <2>2, <2>3, <2>7 DEF IInv, SentOK
  <1>4. CASE lj # lk
    <2>1. Switched
      BY <1>0, <1>2, <1>4 DEF IInv, SentOK
    <2>2. (lj = 0 /\ lk = 1) \/ (lj = 1 /\ lk = 0)
      BY <1>2, <1>4 DEF Layers
    <2>3. CASE lj = 0 /\ lk = 1
      BY <1>0, <1>1, <1>2, <2>1, <2>3, OldAndNew
    <2>4. CASE lj = 1 /\ lk = 0
      BY <1>0, <1>1, <1>2, <2>1, <2>4, OldAndNew
    <2>5. QED
      BY <2>2, <2>3, <2>4
  <1>5. QED
    BY <1>3, <1>4

\* The last place is less than Modulus ahead of the first.
LEMMA ReachIsBounded ==
  ASSUME IInv, source # None
  PROVE  reach <= Start[sent[1].layer] + 2 * MaxIndex
  <1>1. /\ source \in Layers /\ reach \in Int /\ shift \in [Layers -> Int]
        /\ newest(source) \in Int /\ newest(source) <= MaxIndex /\ 1 \in DOMAIN sent
    BY Begun
  <1>2. reach <= shift[source] + newest(source)
    BY DEF IInv, NumbersOK
  <1>3. CASE ~Switched
    <2>1. sent[1].layer = source
      BY <1>1, <1>3, Begun
    <2>2. shift[source] = Start[source]
      BY <1>3 DEF IInv, FirstLayerOK
    <2>3. PICK n \in Int : n = newest(source) /\ n <= MaxIndex
      BY <1>1
    <2>4. reach <= Start[source] + n /\ Start[source] \in Nat
      BY <1>1, <1>2, <2>2, <2>3, ConstantsAre
    <2>5. QED
      BY <1>1, <2>1, <2>3, <2>4, ConstantsAre
  <1>4. CASE Switched
    <2>1. sent[1].layer = 0 /\ source = 1
      BY <1>4 DEF Switched
    <2>2. PICK s \in DOMAIN sent : sent[s].layer = 1 /\ Place(sent[s]) <= Start[0] + MaxIndex + 1
      BY <1>4, NewLayer
    <2>3. PICK c \in 1 .. MaxIndex, u \in Int : u = shift[1] /\ Place(sent[s]) = u + c
      BY <1>1, <2>1, <2>2, SentIs
    <2>4. PICK n \in Int : n = newest(1) /\ n <= MaxIndex /\ reach <= u + n
      BY <1>1, <1>2, <2>1, <2>3
    <2>5. u + c <= Start[0] + MaxIndex + 1
      BY <2>2, <2>3
    <2>6. QED
      BY <1>1, <2>1, <2>3, <2>4, <2>5, ConstantsAre
  <1>5. QED
    BY <1>3, <1>4

\* A negative position is counted from the end of the ring.
LEMMA WrappedPosition ==
  ASSUME NEW pos \in Int, -pos < History, pos < History
  PROVE  pos % History = (IF pos < 0 THEN History + pos ELSE pos)
  <1>1. CASE pos < 0
    <2>1. PICK r \in 0 .. History - 1, n \in Int : r = History + pos /\ n = -1
      BY <1>1, ConstantsAre
    <2>2. pos = History * n + r
      BY <2>1, ConstantsAre
    <2>3. pos % History = r
      BY <2>1, <2>2, Remainder, ConstantsAre
    <2>4. QED
      BY <1>1, <2>1, <2>3
  <1>2. CASE ~(pos < 0)
    <2>1. pos \in 0 .. History - 1
      BY <1>2, ConstantsAre
    <2>2. QED
      BY <1>2, <2>1, SmallRemainder, ConstantsAre
  <1>3. QED
    BY <1>1, <1>2

LEMMA FoundByInvariant ==
  IInv => SentIsFound
  <1>0. HAVE IInv
  <1>1. SUFFICES ASSUME NEW k \in DOMAIN sent, OnlyHeadsFrom(k),
                        Minus(sequencer.headSN, sent[k].target) < History - 1
                 PROVE  Find(sequencer, sent[k].target) = MetaOf(sent[k])
    BY DEF SentIsFound
  <1>2. PICK pl \in Int : pl = Place(sent[k]) /\ sent[k].target = pl % Modulus /\ source # None
    BY <1>0, SentIs
  <1>3. PICK f \in Nat : f = Start[sent[1].layer]
    <2>1. sent[1] \in Sent
      BY <1>0, <1>2, Begun
    <2>2. QED
      BY <2>1, ConstantsAre DEF Sent
  <1>4. /\ pl \in f + 1 .. reach
        /\ reach - pl < History =>
             sequencer.seq[(sequencer.step - 1 - (reach - pl)) % History] = MetaOf(sent[k])
    BY <1>0, <1>1, <1>2, <1>3 DEF IInv, RingOK
  <1>5. reach \in Int /\ reach <= f + 2 * MaxIndex
    BY <1>0, <1>2, <1>3, ReachIsBounded, Begun
  <1>6. PICK d \in 0 .. Modulus - 1 : d = reach - pl
    BY <1>4, <1>5, ConstantsAre
  <1>7. Minus(sequencer.headSN, sent[k].target) = d
    <2>1. sequencer.headSN = reach % Modulus
      BY <1>0, <1>2 DEF IInv, NumbersOK
    <2>2. Minus(reach % Modulus, pl % Modulus) = (reach - pl) % Modulus
      BY <1>2, <1>5, MinusIs
    <2>3. d % Modulus = d
      BY <1>6, ConstantsAre, SmallRemainder
    <2>4. QED
      BY <1>2, <1>6, <2>1, <2>2, <2>3
  <1>8. d < History - 1
    BY <1>1, <1>7
  <1>9. PICK st \in 0 .. History - 1 : st = sequencer.step
    BY <1>0 DEF IInv, TypeOK, Sequencers
  <1>10. PICK pos \in Int : pos = st - d - 1
    BY <1>6, <1>9, ConstantsAre
  <1>11. -pos < History /\ pos < History /\ st - 1 - d = pos
    BY <1>6, <1>8, <1>9, <1>10, ConstantsAre
  <1>12. sequencer.seq[IF pos < 0 THEN History + pos ELSE pos] = MetaOf(sent[k])
    <2>1. sequencer.seq[pos % History] = MetaOf(sent[k])
      <3>1. d < History
        BY <1>6, <1>8, ConstantsAre
      <3>2. QED
        BY <1>4, <1>6, <1>9, <1>11, <3>1
    <2>2. QED
      BY <1>10, <1>11, <2>1, WrappedPosition
  <1>13. MetaOf(sent[k]).targetSeqNo = sent[k].target
    BY DEF MetaOf, packetMeta
  <1>14. sequencer.step - Minus(sequencer.headSN, sent[k].target) - 1 = pos
    BY <1>7, <1>9, <1>10
  <1>15. ~(-pos >= History)
    BY <1>10, <1>11, ConstantsAre
  <1>16. QED
    BY <1>12, <1>13, <1>14, <1>15 DEF Find

\* No sequence number of a down track is used for two packets (writeSimulcastRTP
\* computes snOffset at a switch), but for stragglers and for a stream of which
\* no head was sent before the switch.
THEOREM UniqueNumbers == Spec => []NumbersAreUnique
  BY Invariance, UniqueByInvariant, PTL

\* What was sent since the last late packet is found in the sequencer as long
\* as the ring reaches back to it (push, getSeqNoPairs).
THEOREM FoundAgain == Spec => []SentIsFound
  BY Invariance, FoundByInvariant, PTL

=============================================================================
