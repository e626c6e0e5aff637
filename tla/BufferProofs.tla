---------------------------- MODULE BufferProofs ----------------------------
(***************************************************************************)
(* Proofs about what a Buffer does with its packets, for numbers and       *)
(* counters of any width and any bounds on loss and reordering that the    *)
(* assumptions allow.                                                      *)
(*                                                                         *)
(* First what % and \div yield.  Then ReceptionReport: where packets       *)
(* arrive (PositionsOK), what calc and buildReceptionReport make of it.    *)
(* Then PacketBuffer: the ring in which they are kept, and the queue of    *)
(* those that are missing.  At last Twcc: the numbers that a Responder     *)
(* notes and tells.                                                        *)
(***************************************************************************)
EXTENDS ReceptionReport, PacketBuffer, Twcc, FiniteSetTheorems, SequenceTheorems,
        WellFoundedInduction, TLAPS

-----------------------------------------------------------------------------
(* Arithmetic modulo m.                                                    *)

LEMMA DivMod ==
  ASSUME NEW x \in Int, NEW m \in Nat \ {0}
  PROVE  x = m * (x \div m) + (x % m) /\ x \div m \in Int /\ x % m \in 0 .. m - 1
  OBVIOUS

LEMMA ModUnique ==
  ASSUME NEW m \in Nat \ {0}, NEW q \in Int, NEW r \in 0 .. m - 1, NEW x \in Int, x = m * q + r
  PROVE  x % m = r
  OBVIOUS

LEMMA ModSmall ==
  ASSUME NEW m \in Nat \ {0}, NEW r \in 0 .. m - 1
  PROVE  r % m = r
  OBVIOUS

\* A multiple of m does not matter.
LEMMA ModPlus ==
  ASSUME NEW m \in Nat \ {0}, NEW x \in Int, NEW k \in Int
  PROVE  (x + m * k) % m = x % m
  <1>1. PICK q \in Int, r \in 0 .. m - 1 : x = m * q + r
    BY DivMod
  <1>2. x + m * k = m * (q + k) + r /\ q + k \in Int
    BY <1>1
  <1>3. (m * (q + k) + r) % m = r /\ (m * q + r) % m = r
    BY <1>2, ModUnique
  <1>4. QED
    BY <1>1, <1>2, <1>3

\* Differences may be taken of the remainders.
LEMMA ModMinus ==
  ASSUME NEW m \in Nat \ {0}, NEW x \in Int, NEW y \in Int
  PROVE  ((x % m) - (y % m)) % m = (x - y) % m
  <1>1. PICK q \in Int, r \in 0 .. m - 1 : x = m * q + r /\ r = x % m
    BY DivMod
  <1>2. PICK u \in Int, s \in 0 .. m - 1 : y = m * u + s /\ s = y % m
    BY DivMod
  <1>3. x - y = (r - s) + m * (q - u) /\ r - s \in Int /\ q - u \in Int
    BY <1>1, <1>2
  <1>4. ((r - s) + m * (q - u)) % m = (r - s) % m
    BY <1>3, ModPlus
  <1>5. QED
    BY <1>1, <1>2, <1>3, <1>4

\* So may sums.
LEMMA ModAdd ==
  ASSUME NEW m \in Nat \ {0}, NEW x \in Int, NEW z \in Int
  PROVE  ((x % m) + z) % m = (x + z) % m
  <1>1. PICK q \in Int, r \in 0 .. m - 1 : x = m * q + r /\ r = x % m
    BY DivMod
  <1>2. x + z = (r + z) + m * q /\ r + z \in Int
    BY <1>1
  <1>3. ((r + z) + m * q) % m = (r + z) % m
    BY <1>2, ModPlus
  <1>4. QED
    BY <1>1, <1>2, <1>3

\* Numbers with the same remainder that are less than m apart are equal.
LEMMA ModSame ==
  ASSUME NEW m \in Nat \ {0}, NEW x \in Int, NEW y \in Int, x - y < m, y - x < m, x % m = y % m
  PROVE  x = y
  <1>1. PICK q \in Int, r \in 0 .. m - 1 : x = m * q + r /\ r = x % m
    BY DivMod
  <1>2. PICK u \in Int : y = m * u + r
    BY <1>1, DivMod, ZenonT(60)
  <1>3. x - y = m * (q - u) /\ y - x = m * (u - q)
    BY <1>1, <1>2
  <1>4. CASE q >= u + 1
    <2>1. m * (q - u) >= m
      BY <1>4
    <2>2. QED
      BY <1>3, <2>1
  <1>5. CASE u >= q + 1
    <2>1. m * (u - q) >= m
      BY <1>5
    <2>2. QED
      BY <1>3, <2>1
  <1>6. CASE q = u
    BY <1>1, <1>2, <1>6
  <1>7. q >= u + 1 \/ u >= q + 1 \/ q = u
    OBVIOUS
  <1>8. QED
    BY <1>4, <1>5, <1>6, <1>7

LEMMA DivBounds ==
  ASSUME NEW m \in Nat \ {0}, NEW n \in Nat, NEW q \in Nat
  PROVE  /\ n \div m \in Nat
         /\ q * m <= n => q <= n \div m
         /\ n < q * m => n \div m < q
  OBVIOUS

\* The least counterexample: how every induction here is done.
LEMMA LeastNumber ==
  ASSUME NEW S, S \subseteq Nat, S # {}
  PROVE  \E n \in S : \A m \in S : n <= m
  <1>1. PICK n \in S : \A m \in S : ~(<<m, n>> \in OpToRel(<, Nat))
    BY NatLessThanWellFounded, WFMin, Zenon
  <1>2. ASSUME NEW m \in S PROVE n <= m
    <2>1. ~(<<m, n>> \in {ss \in Nat \X Nat : ss[1] < ss[2]})
      BY <1>1, <1>2, Zenon DEF OpToRel
    <2>2. m \in Nat /\ n \in Nat
      OBVIOUS
    <2>3. ~(m < n)
      BY <2>1, <2>2
    <2>4. QED
      BY <2>2, <2>3
  <1>3. QED
    BY <1>1, <1>2

\* The constants as the lemmas use them.
LEMMA ConstantsAre ==
  /\ Mod \in Nat \ {0} /\ Big \in Nat \ {0} /\ Probe \in Nat \ {0}
  /\ MinBitrate \in Nat \ {0} /\ MaxBitrate \in Nat \ {0}
  /\ MaxReorder \in Nat /\ MaxLoss \in Nat /\ MaxPosition \in Nat
  /\ Start \in 0 .. Mod - 1
  /\ 2 * MaxReorder < Mod /\ 2 * (MaxLoss + 1) < Mod
  /\ MaxReorder < Probe
  /\ Start + MaxReorder + Probe * (MaxLoss + 1) < Mod
  /\ MaxPosition + 1 < Big
  BY ReportAssumption

LEMMA LastIs == MaxPosition \in Nat /\ Big \in Nat \ {0} /\ MaxPosition + 1 < Big
  BY ConstantsAre

\* Big is a multiple of Mod.
LEMMA BigIs ==
  /\ Big \div Mod \in Nat \ {0}
  /\ Big = Mod * (Big \div Mod)
  <1>1. Big = Mod * (Big \div Mod) + (Big % Mod) /\ Big \div Mod \in Int
    BY ConstantsAre, DivMod
  <1>2. Big = Mod * (Big \div Mod)
    BY <1>1, ConstantsAre, ReportAssumption
  <1> DEFINE k == Big \div Mod
  <1>3. k \in Int /\ Big = Mod * k
    BY <1>1, <1>2
  <1> HIDE DEF k
  <1>4. k > 0
    BY <1>3, ConstantsAre
  <1>5. QED
    BY <1>2, <1>3, <1>4 DEF k

\* The sequence numbers of a position and of one d further on, of 16 and of 32
\* bits: the lower number tells a wrap-around.
LEMMA WrapAround ==
  ASSUME NEW n \in Nat, NEW d \in Nat, NEW k \in 0 .. (Big \div Mod) - 1
  PROVE  0 < d /\ 2 * d < Mod /\ n % Big = Mod * k + (n % Mod) =>
         LET new == IF (n + d) % Mod < n % Mod THEN (Mod * k + Mod) % Big ELSE Mod * k
         IN  /\ new \in {Mod * j : j \in 0 .. (Big \div Mod) - 1}
             /\ (n + d) % Big = new + ((n + d) % Mod)
  <1>1. HAVE 0 < d /\ 2 * d < Mod /\ n % Big = Mod * k + (n % Mod)
  <1> DEFINE K == Big \div Mod
             r == n % Mod
  <1>2. K \in Nat \ {0} /\ Big = Mod * K /\ Mod \in Nat \ {0} /\ Big \in Nat \ {0}
    BY BigIs, ConstantsAre
  <1>3. PICK q \in Int : n = Mod * q + r /\ r \in 0 .. Mod - 1
    <2>1. n = Mod * (n \div Mod) + (n % Mod) /\ n \div Mod \in Int /\ n % Mod \in 0 .. Mod - 1
      BY <1>2, DivMod
    <2>2. QED
      BY <2>1
  <1>4. PICK u \in Int : n = Big * u + (Mod * k + r)
    <2>1. n = Big * (n \div Big) + (n % Big) /\ n \div Big \in Int
      BY <1>2, DivMod
    <2>2. QED
      BY <1>1, <2>1
  <1>5. k \in 0 .. K - 1
    OBVIOUS
  <1>6. (n % Mod) = r
    OBVIOUS
  <1>7. Mod \in Nat \ {0} /\ Big \in Nat \ {0} /\ n + d \in Int
    BY <1>2
  <1> HIDE DEF K, r
  <1>8. CASE r + d < Mod
    <2>1. n + d = Mod * q + (r + d) /\ r + d \in 0 .. Mod - 1
      BY <1>1, <1>2, <1>3, <1>8
    <2>2. (n + d) % Mod = r + d
      BY <1>3, <1>7, <2>1, ModUnique
    <2>3. Mod * k + (r + d) \in 0 .. Big - 1
      <3>1. Mod * (k + 1) <= Mod * K
        BY <1>2, <1>5
      <3>2. Mod * (k + 1) = Mod * k + Mod /\ Mod * k >= 0
        BY <1>2, <1>5
      <3>3. QED
        BY <1>2, <1>5, <2>1, <3>1, <3>2
    <2>4. n + d = Big * u + (Mod * k + (r + d))
      BY <1>2, <1>3, <1>4, <1>5
    <2>5. (n + d) % Big = Mod * k + (r + d)
      <3> DEFINE res == Mod * k + (r + d)
      <3>1. n + d = Big * (u) + res /\ res \in 0 .. Big - 1 /\ u \in Int
        BY <1>4, <1>7, <2>3, <2>4
      <3> HIDE DEF res
      <3>2. (n + d) % Big = res
        BY <1>7, <3>1, ModUnique
      <3>3. QED
        BY <3>2 DEF res
    <2>6. ~((n + d) % Mod < n % Mod)
      BY <1>1, <1>3, <1>6, <2>2
    <2>7. QED
      BY <1>5, <2>2, <2>5, <2>6 DEF K
  <1>9. CASE r + d >= Mod
    <2>1. n + d = Mod * (q + 1) + (r + d - Mod) /\ r + d - Mod \in 0 .. Mod - 1 /\ q + 1 \in Int
      BY <1>1, <1>2, <1>3, <1>9
    <2>2. (n + d) % Mod = r + d - Mod
      <3> DEFINE res == r + d - Mod
      <3>1. n + d = Mod * (q + 1) + res /\ res \in 0 .. Mod - 1 /\ q + 1 \in Int
        BY <1>3, <1>7, <2>1
      <3> HIDE DEF res
      <3>2. (n + d) % Mod = res
        BY <1>7, <3>1, ModUnique, ZenonT(60)
      <3>3. QED
        BY <3>2 DEF res
    <2>3. (n + d) % Mod < n % Mod
      BY <1>1, <1>2, <1>3, <1>6, <2>2
    <2>4. Mod * k + Mod = Mod * (k + 1) /\ Mod * k >= 0
      BY <1>2, <1>5
    <2>5. CASE k + 1 = K
      <3>1. (Mod * k + Mod) % Big = 0
        <4>1. Mod * k + Mod = Big * 1 + 0
          BY <1>2, <2>4, <2>5
        <4>2. QED
          BY <1>2, <4>1, ModUnique
      <3>2. r + d - Mod \in 0 .. Big - 1
        <4>1. Mod <= Mod * K
          BY <1>2
        <4>2. QED
          BY <1>2, <2>1, <4>1
      <3>3. n + d = Big * (u + 1) + (r + d - Mod)
        BY <1>2, <1>3, <1>4, <1>5, <2>4, <2>5
      <3>4. (n + d) % Big = r + d - Mod
        <4> DEFINE res == r + d - Mod
        <4>1. n + d = Big * (u + 1) + res /\ res \in 0 .. Big - 1 /\ u + 1 \in Int
          BY <1>4, <1>7, <3>2, <3>3
        <4> HIDE DEF res
        <4>2. (n + d) % Big = res
          BY <1>7, <4>1, ModUnique, ZenonT(60)
        <4>3. QED
          BY <4>2 DEF res
      <3>5. 0 = Mod * 0 /\ 0 \in 0 .. K - 1
        BY <1>2
      <3>6. QED
        BY <2>1, <2>2, <2>3, <3>1, <3>4, <3>5 DEF K
    <2>6. CASE k + 1 < K
      <3>1. Mod * (k + 1) + (r + d - Mod) \in 0 .. Big - 1
        <4>1. Mod * (k + 2) <= Mod * K
          BY <1>2, <1>5, <2>6
        <4>2. Mod * (k + 2) = Mod * (k + 1) + Mod /\ Mod * (k + 1) >= 0
          BY <1>2, <1>5
        <4>3. QED
          BY <1>2, <1>5, <2>1, <4>1, <4>2
      <3>2. (Mod * k + Mod) % Big = Mod * (k + 1)
        <4>1. Mod * (k + 1) \in 0 .. Big - 1
          BY <1>2, <1>5, <2>1, <2>4, <3>1
        <4>2. QED
          BY <1>2, <2>4, <4>1, ModSmall
      <3>3. n + d = Big * u + (Mod * (k + 1) + (r + d - Mod))
        BY <1>2, <1>3, <1>4, <1>5, <2>4
      <3>4. (n + d) % Big = Mod * (k + 1) + (r + d - Mod)
        <4> DEFINE res == Mod * (k + 1) + (r + d - Mod)
        <4>1. n + d = Big * (u) + res /\ res \in 0 .. Big - 1 /\ u \in Int
          BY <1>4, <1>7, <3>1, <3>3
        <4> HIDE DEF res
        <4>2. (n + d) % Big = res
          BY <1>7, <4>1, ModUnique
        <4>3. QED
          BY <4>2 DEF res
      <3>5. k + 1 \in 0 .. K - 1
        BY <1>2, <1>5, <2>6
      <3>6. QED
        BY <2>2, <2>3, <3>2, <3>4, <3>5 DEF K
    <2>7. QED
      BY <1>2, <1>5, <2>5, <2>6
  <1>10. QED
    BY <1>2, <1>3, <1>8, <1>9

-----------------------------------------------------------------------------
(* Where packets arrive.                                                   *)

LEMMA OpenIsFinite ==
  ASSUME TypeOK
  PROVE  IsFiniteSet(Open) /\ Cardinality(Open) \in Nat
  <1>1. Open \subseteq 0 .. top /\ top \in Int
    BY ConstantsAre DEF TypeOK, Open, Window
  <1>2. IsFiniteSet(0 .. top)
    BY <1>1, FS_Interval
  <1>3. IsFiniteSet(Open)
    BY <1>1, <1>2, FS_Subset
  <1>4. QED
    BY <1>3, FS_CardinalityType

\* A set and n more elements, of which some may be missing.
LEMMA GrownBy ==
  ASSUME NEW S, IsFiniteSet(S), NEW T, NEW i \in Int, NEW j \in Int, i <= j + 1,
         T \subseteq S \cup (i .. j)
  PROVE  Cardinality(T) \in Nat /\ Cardinality(T) <= Cardinality(S) + (j - i + 1)
  <1>1. IsFiniteSet(i .. j) /\ Cardinality(i .. j) = j - i + 1
    BY FS_Interval
  <1>2. /\ IsFiniteSet(S \cup (i .. j))
        /\ Cardinality(S \cup (i .. j)) = Cardinality(S) + Cardinality(i .. j) - Cardinality(S \cap (i .. j))
    BY <1>1, FS_Union
  <1>3. IsFiniteSet(S \cap (i .. j)) /\ Cardinality(S \cap (i .. j)) \in Nat /\ Cardinality(S) \in Nat
    BY FS_Subset, FS_CardinalityType
  <1>4. Cardinality(T) <= Cardinality(S \cup (i .. j)) /\ Cardinality(T) \in Nat
    BY <1>2, FS_Subset, FS_CardinalityType
  <1>5. QED
    BY <1>1, <1>2, <1>3, <1>4

\* An arrival keeps PositionsOK; what the counters need to know of its place.
LEMMA ArrivalPlaces ==
  ASSUME TypeOK, PositionsOK, NEW p \in 0 .. MaxPosition, Arrives(p)
  PROVE  /\ top' \in 0 .. MaxPosition /\ lo' \in 0 .. top' /\ arrived' \subseteq Window(top')
         /\ got' = got + 1 /\ got' \in 1 .. MaxPosition + 1 /\ got' <= top' - lo' + 1
         /\ PositionsOK'
         /\ got = 0 => p <= MaxReorder /\ lo' = p /\ top' = p
         /\ got > 0 => /\ p - top \in (-MaxReorder) .. (MaxLoss + 1) /\ p # top
                       /\ lo' = Lesser(lo, p) /\ top' = IF p > top THEN p ELSE top
                       /\ top - lo <= top' - lo'
         /\ got >= Probe => lo' = lo
         /\ got < Probe => Start + p < Mod
  <1>1. /\ top \in 0 .. MaxPosition /\ lo \in 0 .. top /\ arrived \subseteq Window(top) /\ got \in 0 .. MaxPosition + 1
        /\ got' = got + 1
        /\ lo' = IF got = 0 THEN p ELSE Lesser(lo, p)
        /\ top' = IF got = 0 \/ p > top THEN p ELSE top
        /\ arrived' = (arrived \cup {p}) \cap Window(top')
        /\ p \in Upcoming
    BY DEF TypeOK, Arrives
  <1>2. CASE got = 0
    <2>1. p <= MaxReorder /\ lo' = p /\ top' = p /\ got' = 1
      BY <1>1, <1>2, ConstantsAre DEF Upcoming
    <2>2. p \in Window(p) /\ arrived = {}
      BY <1>2, ConstantsAre DEF Window, PositionsOK
    <2>3. arrived' = {p}
      BY <1>1, <2>1, <2>2
    <2>4. Open' = {}
      BY <2>1, <2>3, ConstantsAre DEF Open, Window
    <2>5. Cardinality(Open') = 0
      BY <2>4, FS_EmptySet
    <2>6. (got' - 1) * (MaxLoss + 1) = 0
      BY <2>1, ConstantsAre
    <2>7. PositionsOK'
      BY <2>1, <2>3, <2>5, <2>6, ConstantsAre DEF PositionsOK
    <2>8. Start + p < Mod
      <3>1. Probe * (MaxLoss + 1) >= 0
        BY ConstantsAre
      <3>2. QED
        BY <2>1, <3>1, ConstantsAre
    <2>9. arrived' \subseteq Window(top')
      BY <1>1
    <2>10. QED
      BY <1>2, <2>1, <2>7, <2>8, <2>9, ConstantsAre
  <1>3. CASE got > 0
    <2>1. /\ top \in arrived /\ \A q \in arrived : lo <= q
          /\ got + Cardinality(Open) <= top - lo + 1
          /\ top <= MaxReorder + (got - 1) * (MaxLoss + 1)
          /\ IsFiniteSet(Open) /\ Cardinality(Open) \in Nat
      BY <1>3, OpenIsFinite DEF PositionsOK
    <2>2. \/ p \in top + 1 .. top + MaxLoss + 1
          \/ p \in Window(top) \ arrived
      BY <1>1, <1>3, ConstantsAre DEF Upcoming, Lesser
    <2>3. p - top \in (-MaxReorder) .. (MaxLoss + 1) /\ p # top
      BY <1>1, <2>1, <2>2, ConstantsAre DEF Window
    <2>4. /\ lo' = Lesser(lo, p) /\ top' = IF p > top THEN p ELSE top
          /\ top' \in 0 .. MaxPosition /\ lo' \in 0 .. top' /\ top - lo <= top' - lo'
      BY <1>1, <1>3 DEF Lesser
    <2>5. got' + Cardinality(Open') <= top' - lo' + 1 /\ Cardinality(Open') \in Nat
      <3>1. Open = {q \in Window(top) : q >= lo /\ q \notin arrived}
        BY DEF Open
      <3>2. Open' = {q \in Window(top') : q >= lo' /\ q \notin arrived'}
        BY DEF Open, Window
      <3>3. CASE p > top
        <4>1. top' = p /\ lo' = lo
          BY <1>1, <2>4, <3>3 DEF Lesser
        <4>2. Open' \subseteq Open \cup (top + 1 .. p - 1)
          BY <1>1, <3>1, <3>2, <3>3, <4>1, ConstantsAre DEF Window
        <4>3. Cardinality(Open') \in Nat /\ Cardinality(Open') <= Cardinality(Open) + (p - 1 - (top + 1) + 1)
          <5>1. top + 1 \in Int /\ p - 1 \in Int /\ top + 1 <= p - 1 + 1
            BY <1>1, <3>3
          <5>2. QED
            BY <2>1, <4>2, <5>1, GrownBy
        <4>4. QED
          BY <1>1, <2>1, <4>1, <4>3
      <3>4. CASE p < lo
        <4>1. top' = top /\ lo' = p
          BY <1>1, <2>4, <3>4 DEF Lesser
        <4>2. Open' \subseteq Open \cup (p + 1 .. lo - 1)
          BY <1>1, <3>1, <3>2, <3>4, <4>1, ConstantsAre DEF Window
        <4>3. Cardinality(Open') \in Nat /\ Cardinality(Open') <= Cardinality(Open) + (lo - 1 - (p + 1) + 1)
          <5>1. p + 1 \in Int /\ lo - 1 \in Int /\ p + 1 <= lo - 1 + 1
            BY <1>1, <3>4
          <5>2. QED
            BY <2>1, <4>2, <5>1, GrownBy
        <4>4. QED
          BY <1>1, <2>1, <4>1, <4>3
      <3>5. CASE p >= lo /\ p < top
        <4>1. top' = top /\ lo' = lo
          BY <1>1, <2>4, <3>5 DEF Lesser
        <4>2. p \in Open
          BY <1>1, <2>2, <3>1, <3>5
        <4>3. Open' \subseteq Open \ {p}
          BY <1>1, <3>1, <3>2, <4>1, <4>2
        <4>4. IsFiniteSet(Open \ {p}) /\ Cardinality(Open \ {p}) = Cardinality(Open) - 1
          BY <2>1, <4>2, FS_RemoveElement
        <4>5. Cardinality(Open') <= Cardinality(Open) - 1 /\ Cardinality(Open') \in Nat
          BY <4>3, <4>4, FS_Subset, FS_CardinalityType
        <4>6. QED
          BY <1>1, <2>1, <4>1, <4>5
      <3>6. QED
        BY <1>1, <2>3, <3>3, <3>4, <3>5
    <2>6. got' <= top' - lo' + 1 /\ got' \in 1 .. MaxPosition + 1
      BY <1>1, <2>4, <2>5, ConstantsAre
    <2>7. top' <= MaxReorder + (got' - 1) * (MaxLoss + 1)
      <3>1. (got' - 1) * (MaxLoss + 1) = (got - 1) * (MaxLoss + 1) + (MaxLoss + 1)
        BY <1>1, ConstantsAre
      <3>2. (got - 1) * (MaxLoss + 1) \in Int
        BY <1>1, ConstantsAre
      <3>3. QED
        BY <1>1, <2>1, <2>3, <2>4, <3>1, <3>2, ConstantsAre
    <2>8. PositionsOK'
      <3>1. top' \in arrived'
        BY <1>1, <2>1, <2>4, ConstantsAre DEF Window
      <3>2. \A q \in arrived' : lo' <= q
        BY <1>1, <2>1, <2>4, ConstantsAre DEF Lesser, Window
      <3>3. got' # 0
        BY <1>1, <1>3
      <3>4. QED
        BY <2>5, <2>7, <3>1, <3>2, <3>3 DEF PositionsOK
    <2>9. got >= Probe => lo' = lo
      <3>1. SUFFICES ASSUME p < lo, got >= Probe PROVE FALSE
        BY <1>1, <2>4 DEF Lesser
      <3>2. top - p <= MaxReorder
        BY <1>1, <2>3, <3>1, ConstantsAre
      <3>3. QED
        BY <1>1, <2>1, <3>1, <3>2, ConstantsAre
    <2>10. got < Probe => Start + p < Mod
      <3>1. SUFFICES ASSUME got < Probe PROVE Start + p < Mod
        OBVIOUS
      <3>2. p <= MaxReorder + (got - 1) * (MaxLoss + 1) + (MaxLoss + 1)
        <4>1. (got - 1) * (MaxLoss + 1) \in Int
          BY <1>1, ConstantsAre
        <4>2. QED
          BY <1>1, <2>1, <2>3, <4>1, ConstantsAre
      <3>3. (got - 1) * (MaxLoss + 1) + (MaxLoss + 1) = got * (MaxLoss + 1)
        BY <1>1, ConstantsAre
      <3>4. got * (MaxLoss + 1) <= Probe * (MaxLoss + 1)
        BY <1>1, <3>1, ConstantsAre
      <3>5. got * (MaxLoss + 1) \in Int /\ Probe * (MaxLoss + 1) \in Int
        BY <1>1, ConstantsAre
      <3> DEFINE x == got * (MaxLoss + 1)
                 y == Probe * (MaxLoss + 1)
      <3>6. p <= MaxReorder + x /\ x <= y /\ x \in Int /\ y \in Int /\ Start + MaxReorder + y < Mod
        <4>1. (got - 1) * (MaxLoss + 1) \in Int
          BY <1>1, ConstantsAre
        <4>2. p <= MaxReorder + x
          BY <3>2, <3>3, <4>1, ConstantsAre
        <4>3. QED
          BY <3>4, <3>5, <4>2, ConstantsAre
      <3> HIDE DEF x, y
      <3>7. QED
        BY <3>6, ConstantsAre
    <2>11. arrived' \subseteq Window(top')
      BY <1>1
    <2>12. QED
      BY <1>1, <1>3, <2>3, <2>4, <2>6, <2>8, <2>9, <2>10, <2>11
  <1>4. QED
    BY <1>1, <1>2, <1>3

-----------------------------------------------------------------------------
(* What calc counts.                                                       *)

LEMMA CountersHave ==
  ASSUME NEW c \in Counters
  PROVE  /\ c.baseSN \in 0 .. Mod - 1 /\ c.maxSeqNo \in 0 .. Mod - 1
         /\ c.cycles \in {Mod * k : k \in 0 .. (Big \div Mod) - 1} /\ c.cycles \in Nat
         /\ c.packetCount \in 0 .. Big - 1 /\ c.minPacketProbe \in 0 .. Probe
         /\ c.lastExpected \in 0 .. Big - 1 /\ c.lastReceived \in 0 .. Big - 1
  <1>1. /\ c.baseSN \in 0 .. Mod - 1 /\ c.maxSeqNo \in 0 .. Mod - 1
        /\ c.cycles \in {Mod * k : k \in 0 .. (Big \div Mod) - 1}
        /\ c.packetCount \in 0 .. Big - 1 /\ c.minPacketProbe \in 0 .. Probe
        /\ c.lastExpected \in 0 .. Big - 1 /\ c.lastReceived \in 0 .. Big - 1
    BY DEF Counters
  <1>2. c.cycles \in Nat
    <2>1. PICK k \in 0 .. (Big \div Mod) - 1 : c.cycles = Mod * k
      BY <1>1
    <2>2. k \in Nat
      BY BigIs
    <2>3. QED
      BY <2>1, <2>2, ConstantsAre
  <1>3. QED
    BY <1>1, <1>2

\* The counters after a packet that is the first, newer, or behind.
LEMMA CountFields ==
  ASSUME NEW c \in Counters, NEW sn \in 0 .. Mod - 1,
         NEW cyc \in {Mod * k : k \in 0 .. (Big \div Mod) - 1},
         cyc = IF c.packetCount # 0 /\ NotBehind(c, sn) /\ sn < c.maxSeqNo
               THEN (c.cycles + Mod) % Big ELSE c.cycles
  PROVE  /\ Count(c, sn) \in Counters
         /\ Count(c, sn).baseSN = IF c.packetCount = 0 THEN sn ELSE c.baseSN
         /\ Count(c, sn).maxSeqNo = IF c.packetCount = 0 \/ NotBehind(c, sn) THEN sn ELSE c.maxSeqNo
         /\ Count(c, sn).cycles = cyc
         /\ Count(c, sn).packetCount = (c.packetCount + 1) % Big
         /\ Count(c, sn).minPacketProbe = c.minPacketProbe
         /\ Count(c, sn).lastExpected = c.lastExpected
         /\ Count(c, sn).lastReceived = c.lastReceived
  <1> DEFINE n == (c.packetCount + 1) % Big
  <1>1. n \in 0 .. Big - 1
    <2>1. c.packetCount + 1 \in Int
      BY CountersHave, ConstantsAre
    <2>2. QED
      BY <2>1, ConstantsAre, DivMod
  <1>2. CASE c.packetCount = 0
    <2>1. Count(c, sn) = [c EXCEPT !.baseSN = sn, !.maxSeqNo = sn, !.packetCount = n]
      BY <1>2 DEF Count, Counters
    <2> HIDE DEF n
    <2>2. QED
      BY <1>1, <1>2, <2>1 DEF Counters, n
  <1>3. CASE c.packetCount # 0 /\ ~NotBehind(c, sn)
    <2>1. Count(c, sn) = [c EXCEPT !.packetCount = n]
      BY <1>3 DEF Count, Newest, Counters
    <2> HIDE DEF n
    <2>2. QED
      BY <1>1, <1>3, <2>1 DEF Counters, n
  <1>4. CASE c.packetCount # 0 /\ NotBehind(c, sn)
    <2>1. Count(c, sn) = [c EXCEPT !.cycles = cyc, !.maxSeqNo = sn, !.packetCount = n]
      BY <1>4 DEF Count, Newest, Counters
    <2> HIDE DEF n
    <2>2. QED
      BY <1>1, <1>4, <2>1 DEF Counters, n
  <1>5. QED
    BY <1>2, <1>3, <1>4

\* The counters after ProbePacket.
LEMMA ProbeFields ==
  ASSUME NEW c \in Counters, NEW sn \in 0 .. Mod - 1
  PROVE  /\ ProbePacket(c, sn) \in Counters
         /\ ProbePacket(c, sn).baseSN = IF c.minPacketProbe < Probe THEN Lesser(c.baseSN, sn) ELSE c.baseSN
         /\ ProbePacket(c, sn).minPacketProbe =
               IF c.minPacketProbe < Probe THEN c.minPacketProbe + 1 ELSE c.minPacketProbe
         /\ ProbePacket(c, sn).maxSeqNo = c.maxSeqNo
         /\ ProbePacket(c, sn).cycles = c.cycles
         /\ ProbePacket(c, sn).packetCount = c.packetCount
         /\ ProbePacket(c, sn).lastExpected = c.lastExpected
         /\ ProbePacket(c, sn).lastReceived = c.lastReceived
  <1>1. CASE ~(c.minPacketProbe < Probe)
    BY <1>1 DEF ProbePacket
  <1>2. CASE c.minPacketProbe < Probe
    <2> DEFINE base == Lesser(c.baseSN, sn)
               n == c.minPacketProbe + 1
    <2>1. base \in 0 .. Mod - 1 /\ n \in 0 .. Probe
      BY <1>2, CountersHave, ConstantsAre DEF Lesser
    <2>2. ProbePacket(c, sn) = [c EXCEPT !.baseSN = base, !.minPacketProbe = n]
      BY <1>2 DEF ProbePacket
    <2> HIDE DEF base, n
    <2>3. QED
      BY <1>2, <2>1, <2>2 DEF Counters, base, n
  <1>3. QED
    BY <1>1, <1>2

\* A sequence number is in front of the newest one exactly if its position is.
LEMMA InFront ==
  ASSUME NEW t \in Nat, NEW p \in Nat, p - t \in (-MaxReorder) .. (MaxLoss + 1), p # t,
         NEW c, c.maxSeqNo = SN(t)
  PROVE  NotBehind(c, SN(p)) <=> p > t
  <1> DEFINE x == Start + p
             y == Start + t
  <1>1. x \in Int /\ y \in Int /\ Mod \in Nat \ {0} /\ x - y = p - t
    BY ConstantsAre
  <1>2. SN(p) = x % Mod /\ SN(t) = y % Mod
    BY DEF SN
  <1> HIDE DEF x, y
  <1>3. (SN(p) - SN(t)) % Mod = (p - t) % Mod
    BY <1>1, <1>2, ModMinus
  <1>4. CASE p > t
    <2>1. p - t \in 0 .. Mod - 1 /\ 2 * (p - t) < Mod
      BY <1>4, ConstantsAre
    <2>2. (p - t) % Mod = p - t
      BY <2>1, ConstantsAre, ModSmall
    <2>3. QED
      BY <1>3, <1>4, <2>1, <2>2 DEF NotBehind
  <1>5. CASE p < t
    <2>1. p - t + Mod \in 0 .. Mod - 1 /\ p - t = Mod * (-1) + (p - t + Mod) /\ 2 * (p - t + Mod) >= Mod
      BY <1>5, ConstantsAre
    <2>2. (p - t) % Mod = p - t + Mod
      <3> DEFINE r == p - t + Mod
                 d == p - t
      <3>1. r \in 0 .. Mod - 1 /\ d \in Int /\ d = Mod * (-1) + r /\ -1 \in Int
        BY <2>1
      <3> HIDE DEF r, d
      <3>2. d % Mod = r
        BY <3>1, ConstantsAre, ModUnique
      <3>3. QED
        BY <3>2 DEF r, d
    <2>3. ~(2 * ((SN(p) - SN(t)) % Mod) < Mod)
      BY <1>3, <2>1, <2>2, ConstantsAre
    <2>4. QED
      BY <1>5, <2>3 DEF NotBehind
  <1>6. QED
    BY <1>4, <1>5

LEMMA SNType ==
  ASSUME NEW p \in Nat
  PROVE  SN(p) \in 0 .. Mod - 1 /\ (Start + p < Mod => SN(p) = Start + p)
  <1> DEFINE x == Start + p
  <1>1. x \in Nat /\ Mod \in Nat \ {0}
    BY ConstantsAre
  <1> HIDE DEF x
  <1>2. x % Mod \in 0 .. Mod - 1 /\ (x < Mod => x % Mod = x)
    BY <1>1, DivMod, ModSmall
  <1>3. QED
    BY <1>2 DEF SN, x

\* The counters after a packet: the newest is known, the base is not touched
\* unless the packet is the first.
LEMMA Counted ==
  ASSUME IInv, NEW p \in 0 .. MaxPosition, Arrives(p)
  PROVE  /\ Count(b, SN(p)) \in Counters
         /\ Count(b, SN(p)).packetCount = got'
         /\ Count(b, SN(p)).maxSeqNo = (Start + top') % Mod
         /\ ExtMaxSeq(Count(b, SN(p))) = (Start + top') % Big
         /\ Count(b, SN(p)).minPacketProbe = b.minPacketProbe
         /\ Count(b, SN(p)).lastExpected = b.lastExpected
         /\ Count(b, SN(p)).lastReceived = b.lastReceived
         /\ Count(b, SN(p)).baseSN = IF got = 0 THEN Start + p ELSE b.baseSN
  <1> DEFINE sn == SN(p)
             c == Count(b, sn)
  <1>1. TypeOK /\ PositionsOK /\ NewestOK /\ b \in Counters /\ b.packetCount = got /\ got \in Nat
    BY DEF IInv, TypeOK, NewestOK
  <1>2. /\ top' \in 0 .. MaxPosition /\ got' = got + 1 /\ got' \in 1 .. MaxPosition + 1
        /\ got = 0 => p <= MaxReorder /\ top' = p
        /\ got > 0 => /\ p - top \in (-MaxReorder) .. (MaxLoss + 1) /\ p # top
                      /\ top' = IF p > top THEN p ELSE top
        /\ got < Probe => Start + p < Mod
    BY <1>1, ArrivalPlaces
  <1>3. p \in Nat /\ top \in Nat /\ sn \in 0 .. Mod - 1
    BY <1>1, SNType, ConstantsAre DEF TypeOK
  <1>4. (got + 1) % Big = got'
    <2>1. got + 1 \in 0 .. Big - 1
      BY <1>2, ConstantsAre
    <2>2. QED
      BY <1>2, <2>1, ConstantsAre, ModSmall
  <1>5. CASE got = 0
    <2>1. Start + p < Mod /\ sn = Start + p
      BY <1>2, <1>3, <1>5, SNType, ConstantsAre
    <2>2. b.cycles = 0 /\ b.cycles \in {Mod * k : k \in 0 .. (Big \div Mod) - 1}
      BY <1>1, <1>5, CountersHave DEF NewestOK
    <2> HIDE DEF sn
    <2>3. /\ c \in Counters /\ c.baseSN = sn /\ c.maxSeqNo = sn /\ c.cycles = 0
          /\ c.packetCount = got' /\ c.minPacketProbe = b.minPacketProbe
          /\ c.lastExpected = b.lastExpected /\ c.lastReceived = b.lastReceived
      BY <1>1, <1>3, <1>4, <1>5, <2>2, CountFields
    <2>4. (Start + top') % Mod = sn /\ (Start + top') % Big = sn
      <3>1. top' = p /\ sn \in 0 .. Big - 1
        <4>1. Mod <= Mod * (Big \div Mod)
          BY BigIs, ConstantsAre
        <4>2. QED
          BY <1>2, <1>3, <1>5, <4>1, BigIs, ConstantsAre
      <3>2. QED
        BY <1>3, <2>1, <3>1, ConstantsAre, ModSmall
    <2>5. ExtMaxSeq(c) = sn
      BY <1>3, <2>3 DEF ExtMaxSeq
    <2>6. QED
      BY <1>5, <2>1, <2>3, <2>4, <2>5 DEF sn
  <1>6. CASE got > 0
    <2>1. b.maxSeqNo = SN(top) /\ b.cycles + b.maxSeqNo = (Start + top) % Big
      BY <1>1, <1>6 DEF NewestOK, ExtMaxSeq
    <2>2. NotBehind(b, sn) <=> p > top
      BY <1>2, <1>3, <1>6, <2>1, InFront
    <2>3. PICK k \in 0 .. (Big \div Mod) - 1 : b.cycles = Mod * k
      BY <1>1, CountersHave
    <2> DEFINE cyc == IF b.packetCount # 0 /\ NotBehind(b, sn) /\ sn < b.maxSeqNo
                      THEN (b.cycles + Mod) % Big ELSE b.cycles
               latest == IF b.packetCount = 0 \/ NotBehind(b, sn) THEN sn ELSE b.maxSeqNo
    <2>4. /\ cyc \in {Mod * j : j \in 0 .. (Big \div Mod) - 1}
          /\ latest = (Start + top') % Mod
          /\ cyc + latest = (Start + top') % Big
      <3>1. CASE p > top
        <4> DEFINE n == Start + top
                   d == p - top
        <4>1. n \in Nat /\ d \in Nat /\ 0 < d /\ 2 * d < Mod /\ n + d = Start + p /\ top' = p
          BY <1>2, <1>3, <1>6, <3>1, ConstantsAre
        <4>2. b.maxSeqNo = n % Mod /\ sn = (n + d) % Mod /\ n % Big = Mod * k + (n % Mod)
          BY <2>1, <2>3, <4>1 DEF SN
        <4>3. latest = sn /\ cyc = IF sn < b.maxSeqNo THEN (Mod * k + Mod) % Big ELSE Mod * k
          BY <1>1, <1>6, <2>2, <2>3, <3>1
        <4> HIDE DEF n, d, cyc, latest, sn
        <4>4. LET new == IF (n + d) % Mod < n % Mod THEN (Mod * k + Mod) % Big ELSE Mod * k
              IN  /\ new \in {Mod * j : j \in 0 .. (Big \div Mod) - 1}
                  /\ (n + d) % Big = new + ((n + d) % Mod)
          BY <4>1, <4>2, WrapAround
        <4>5. Start + top' = n + d
          BY <4>1
        <4>6. QED
          BY <4>2, <4>3, <4>4, <4>5
      <3>2. CASE p < top
        <4>1. cyc = b.cycles /\ latest = b.maxSeqNo /\ top' = top
          BY <1>1, <1>2, <1>3, <1>6, <2>2, <3>2
        <4>2. QED
          BY <1>1, <2>1, <4>1, CountersHave DEF SN
      <3>3. QED
        BY <1>2, <1>3, <1>6, <3>1, <3>2
    <2>5. /\ c \in Counters /\ c.baseSN = b.baseSN /\ c.maxSeqNo = latest /\ c.cycles = cyc
          /\ c.packetCount = got' /\ c.minPacketProbe = b.minPacketProbe
          /\ c.lastExpected = b.lastExpected /\ c.lastReceived = b.lastReceived
      <3> HIDE DEF sn
      <3>1. QED
        BY <1>1, <1>3, <1>4, <1>6, <2>4, CountFields
    <2> HIDE DEF cyc, latest, c, sn
    <2>6. QED
      BY <1>6, <2>4, <2>5 DEF ExtMaxSeq, c, sn
  <1>7. QED
    BY <1>1, <1>5, <1>6

\* The counters after a packet that could be parsed: the base is the earliest.
LEMMA Probed ==
  ASSUME IInv, NEW p \in 0 .. MaxPosition, Arrives(p)
  PROVE  LET c == ProbePacket(Count(b, SN(p)), SN(p)) IN
         /\ c \in Counters
         /\ c.packetCount = got'
         /\ c.maxSeqNo = (Start + top') % Mod
         /\ ExtMaxSeq(c) = (Start + top') % Big
         /\ c.lastExpected = b.lastExpected
         /\ c.lastReceived = b.lastReceived
         /\ parsed => c.minPacketProbe = Lesser(got', Probe) /\ c.baseSN = Start + lo'
  <1> DEFINE sn == SN(p)
             d == Count(b, sn)
             c == ProbePacket(d, sn)
  <1>1. /\ d \in Counters /\ d.packetCount = got' /\ d.maxSeqNo = (Start + top') % Mod
        /\ ExtMaxSeq(d) = (Start + top') % Big
        /\ d.minPacketProbe = b.minPacketProbe
        /\ d.lastExpected = b.lastExpected /\ d.lastReceived = b.lastReceived
        /\ d.baseSN = IF got = 0 THEN Start + p ELSE b.baseSN
    BY Counted
  <1>2. /\ TypeOK /\ got \in Nat /\ lo \in Nat /\ p \in Nat
        /\ parsed => b.minPacketProbe = Lesser(got, Probe) /\ (got > 0 => b.baseSN = Start + lo)
    BY ConstantsAre DEF IInv, TypeOK, BaseOK
  <1>3. /\ got' = got + 1
        /\ got = 0 => lo' = p
        /\ got > 0 => lo' = Lesser(lo, p)
        /\ got >= Probe => lo' = lo
        /\ got < Probe => Start + p < Mod
    BY ArrivalPlaces DEF IInv
  <1>4. sn \in 0 .. Mod - 1 /\ (Start + p < Mod => sn = Start + p)
    BY <1>2, SNType
  <1> HIDE DEF sn, d
  <1>5. /\ c \in Counters
        /\ c.baseSN = IF d.minPacketProbe < Probe THEN Lesser(d.baseSN, sn) ELSE d.baseSN
        /\ c.minPacketProbe = IF d.minPacketProbe < Probe THEN d.minPacketProbe + 1 ELSE d.minPacketProbe
        /\ c.maxSeqNo = d.maxSeqNo /\ c.cycles = d.cycles /\ c.packetCount = d.packetCount
        /\ c.lastExpected = d.lastExpected /\ c.lastReceived = d.lastReceived
    BY <1>1, <1>4, ProbeFields
  <1> HIDE DEF c
  <1>6. ASSUME parsed PROVE c.minPacketProbe = Lesser(got', Probe) /\ c.baseSN = Start + lo'
    <2>1. CASE got >= Probe
      BY <1>1, <1>2, <1>3, <1>5, <1>6, <2>1, ConstantsAre DEF Lesser
    <2>2. CASE got < Probe
      <3>1. d.minPacketProbe = got /\ sn = Start + p
        BY <1>1, <1>2, <1>3, <1>4, <1>6, <2>2 DEF Lesser
      <3>2. c.minPacketProbe = got + 1 /\ c.baseSN = Lesser(d.baseSN, Start + p)
        BY <1>5, <2>2, <3>1
      <3>3. c.minPacketProbe = Lesser(got', Probe)
        BY <1>2, <1>3, <2>2, <3>2, ConstantsAre DEF Lesser
      <3>4. c.baseSN = Start + lo'
        BY <1>1, <1>2, <1>3, <1>6, <3>2, ConstantsAre DEF Lesser
      <3>5. QED
        BY <3>3, <3>4
    <2>3. QED
      BY <1>2, <2>1, <2>2, ConstantsAre
  <1>7. QED
    BY <1>1, <1>5, <1>6 DEF ExtMaxSeq, c, d, sn

-----------------------------------------------------------------------------
(* What buildReceptionReport and buildREMBPacket make of the counters.     *)

\* The widths of what is reported, whatever the counters are.
LEMMA ReportTypes ==
  ASSUME NEW c \in Counters, ExtMaxSeq(c) \in 0 .. Big - 1
  PROVE  /\ Expected(c) \in 0 .. Big - 1 /\ TotalLost(c) \in 0 .. Big - 1
         /\ ExpectedInterval(c) \in 0 .. Big - 1 /\ LostInterval(c) \in 0 .. Big - 1
         /\ FractionLost(c) \in 0 .. 255
  <1>1. /\ c.baseSN \in Nat /\ c.packetCount \in Nat /\ c.lastExpected \in Nat /\ c.lastReceived \in Nat
        /\ Big \in Nat \ {0}
    BY CountersHave, ConstantsAre
  <1>2. ASSUME NEW x \in Int PROVE x % Big \in 0 .. Big - 1
    BY <1>1, DivMod
  <1>3. Expected(c) \in 0 .. Big - 1
    <2>1. ExtMaxSeq(c) - c.baseSN + 1 \in Int
      BY <1>1
    <2>2. QED
      BY <1>2, <2>1 DEF Expected
  <1>4. TotalLost(c) \in 0 .. Big - 1
    BY <1>1, <1>3 DEF TotalLost
  <1>5. ExpectedInterval(c) \in 0 .. Big - 1
    <2>1. Expected(c) - c.lastExpected \in Int
      BY <1>1, <1>3
    <2>2. QED
      BY <1>2, <2>1 DEF ExpectedInterval
  <1>6. LostInterval(c) \in 0 .. Big - 1
    <2>1. ExpectedInterval(c) - (c.packetCount - c.lastReceived) \in Int
      BY <1>1, <1>5
    <2>2. QED
      BY <1>2, <2>1 DEF LostInterval
  <1>7. FractionLost(c) \in 0 .. 255
    <2>1. CASE ExpectedInterval(c) # 0
      <3> DEFINE x == ((LostInterval(c) * 256) % Big) \div ExpectedInterval(c)
      <3>1. x \in Int
        <4> DEFINE y == (LostInterval(c) * 256) % Big
        <4>1. y \in Int /\ ExpectedInterval(c) \in Nat \ {0}
          <5>1. LostInterval(c) * 256 \in Int
            BY <1>1, <1>6
          <5>2. y \in 0 .. Big - 1
            BY <1>2, <5>1
          <5>3. QED
            BY <1>1, <1>5, <2>1, <5>2
        <4> HIDE DEF y
        <4>2. y \div ExpectedInterval(c) \in Int
          BY <4>1, DivMod
        <4>3. QED
          BY <4>2 DEF y
      <3>2. FractionLost(c) = x % 256
        BY <2>1 DEF FractionLost
      <3> HIDE DEF x
      <3>3. QED
        BY <3>1, <3>2
    <2>2. CASE ExpectedInterval(c) = 0
      BY <2>2 DEF FractionLost
    <2>3. QED
      BY <2>1, <2>2
  <1>8. QED
    BY <1>3, <1>4, <1>5, <1>6, <1>7

\* Clamp yields a bitrate between the least and the greatest, and does not
\* lower one that is below the greatest.
LEMMA ClampIs ==
  ASSUME NEW br \in Int
  PROVE  /\ Clamp(br) \in 0 .. (MinBitrate + MaxBitrate)
         /\ Clamp(br) >= Lesser(br, MaxBitrate)
  BY ConstantsAre DEF Clamp, Lesser

\* The REMB, for any counters, and if less was lost than expected.
LEMMA EstimatesAre ==
  ASSUME NEW c \in Counters, ExtMaxSeq(c) \in 0 .. Big - 1, NEW br \in Nat, NEW e \in Estimates(c, br)
  PROVE  /\ e \in 0 .. (MinBitrate + MaxBitrate)
         /\ LostInterval(c) < ExpectedInterval(c) =>
               /\ e >= Lesser(br, MaxBitrate) \div 2
               /\ LostInterval(c) = 0 => e >= Lesser(br, MaxBitrate)
  <1> DEFINE L == LostInterval(c)
             I == ExpectedInterval(c)
             m == Lesser(br, MaxBitrate)
  <1>1. L \in Nat /\ I \in Nat
    BY ReportTypes, ConstantsAre
  <1>2. m \in Nat /\ m \div 2 <= m /\ m <= br /\ m <= MaxBitrate /\ m \div 2 \in Nat /\ 2 * (m \div 2) <= m
    BY ConstantsAre DEF Lesser
  <1>3. CASE RateBelow(c, 2)
    <2>1. e = Clamp((br * 109) \div 100 + 2000)
      BY <1>3 DEF Estimates
    <2>2. (br * 109) \div 100 + 2000 \in Int /\ (br * 109) \div 100 + 2000 >= br
      OBVIOUS
    <2>3. e \in 0 .. (MinBitrate + MaxBitrate) /\ e >= Lesser((br * 109) \div 100 + 2000, MaxBitrate)
      BY <2>1, <2>2, ClampIs
    <2>4. Lesser((br * 109) \div 100 + 2000, MaxBitrate) >= m
      BY <2>2, ConstantsAre DEF Lesser
    <2>5. e >= m
      BY <1>2, <2>2, <2>3, <2>4, ConstantsAre DEF Lesser
    <2>6. QED
      BY <1>2, <2>3, <2>5, ConstantsAre
  <1>4. CASE ~RateBelow(c, 2)
    <2>1. LostInterval(c) < ExpectedInterval(c) => LostInterval(c) # 0
      <3>1. SUFFICES ASSUME L < I, L = 0 PROVE RateBelow(c, 2)
        BY <1>4
      <3>2. QED
        BY <1>1, <3>1 DEF RateBelow
    <2>2. CASE ~RateAbove(c, 10)
      <3>1. e = Clamp(br)
        BY <1>4, <2>2 DEF Estimates
      <3>2. e \in 0 .. (MinBitrate + MaxBitrate) /\ e >= m
        BY <3>1, ClampIs
      <3>3. QED
        BY <1>2, <3>2, ConstantsAre
    <2>3. CASE RateAbove(c, 10) /\ L > 2 * I
      <3>1. e \in {MinBitrate, Clamp(MaxBitrate)}
        BY <1>4, <2>3 DEF Estimates
      <3>2. e \in 0 .. (MinBitrate + MaxBitrate)
        BY <3>1, ConstantsAre, ClampIs
      <3>3. ~(L < I)
        BY <1>1, <2>3
      <3>4. QED
        BY <3>2, <3>3
    <2>4. CASE RateAbove(c, 10) /\ ~(L > 2 * I)
      <3> DEFINE x == ((2 * I - L) * br) \div (2 * I)
      <3>1. e = Clamp(x)
        BY <1>4, <2>4 DEF Estimates
      <3>2. I > 0
        BY <1>1, <2>4 DEF RateAbove
      <3>3. (2 * I - L) \in Nat /\ 2 * I \in Nat \ {0}
        BY <1>1, <2>4, <3>2
      <3>4. (2 * I - L) * br \in Nat
        BY <3>3
      <3>5. x \in Nat
        BY <3>3, <3>4, DivBounds
      <3>6. e \in 0 .. (MinBitrate + MaxBitrate) /\ e >= Lesser(x, MaxBitrate)
        <4> HIDE DEF x
        <4>1. QED
          BY <3>1, <3>5, ClampIs
      <3>7. ASSUME L < I PROVE x >= m \div 2
        <4> DEFINE h == m \div 2
        <4>1. h \in Nat /\ 2 * h <= br
          BY <1>2
        <4> HIDE DEF h
        <4>2. h * (2 * I) <= I * br
          <5>1. (2 * h) * I <= br * I
            BY <1>1, <4>1
          <5>2. QED
            BY <1>1, <4>1, <5>1
        <4>3. I * br <= (2 * I - L) * br
          BY <1>1, <3>3, <3>7
        <4>4. h * (2 * I) <= (2 * I - L) * br
          <5>1. h * (2 * I) \in Int /\ I * br \in Int /\ (2 * I - L) * br \in Int
            BY <1>1, <3>4, <4>1
          <5>2. QED
            BY <4>2, <4>3, <5>1
        <4>5. h <= x
          BY <3>3, <3>4, <4>1, <4>4, DivBounds
        <4>6. QED
          BY <3>5, <4>1, <4>5 DEF h
      <3> HIDE DEF x
      <3>8. QED
        BY <1>2, <2>1, <3>5, <3>6, <3>7, ConstantsAre DEF Lesser
    <2>5. QED
      BY <2>2, <2>3, <2>4
  <1>5. QED
    BY <1>3, <1>4

\* What the counters say, if every packet could be parsed, of what is expected
\* and missing now, and of the difference to the last report.
LEMMA IntervalIs ==
  ASSUME IInv, parsed, NEW p \in 0 .. MaxPosition, Arrives(p), got > 0,
         NEW c \in Counters, c = ProbePacket(Count(b, SN(p)), SN(p)),
         NEW x, x = top' - lo' + 1, NEW m, m = top' - lo' + 1 - got'
  PROVE  /\ Expected(c) = x
         /\ TotalLost(c) = m
         /\ ExpectedInterval(c) = x - seen.expected
         /\ m >= seen.missing =>
               /\ LostInterval(c) = m - seen.missing
               /\ LostInterval(c) < ExpectedInterval(c)
  <1>0. PICK t, l, g, v, w : t = top' /\ l = lo' /\ g = got' /\ v = seen.expected /\ w = seen.missing
    OBVIOUS
  <1> DEFINE expected == t - l + 1
             missing  == t - l + 1 - g
  <1>1. /\ c.packetCount = g /\ c.baseSN = Start + l
        /\ ExtMaxSeq(c) = (Start + t) % Big
        /\ c.lastExpected = b.lastExpected /\ c.lastReceived = b.lastReceived
    BY <1>0, Probed
  <1>2. /\ t \in 0 .. MaxPosition /\ l \in 0 .. t /\ g = got + 1 /\ g \in 1 .. MaxPosition + 1
        /\ g <= t - l + 1 /\ top - lo <= t - l
    BY <1>0, ArrivalPlaces DEF IInv
  <1>3. /\ b.lastExpected = v /\ b.lastReceived = v - w
        /\ v <= top - lo + 1 /\ v - w \in 0 .. got
        /\ v \in Nat /\ w \in Nat
        /\ top \in Nat /\ lo \in Nat /\ got \in Nat
    BY <1>0 DEF IInv, SeenOK, TypeOK
  <1>4. expected \in 0 .. Big - 1 /\ missing \in Nat /\ v <= expected
    BY <1>2, <1>3, LastIs
  <1>5. Expected(c) = expected
    <2> DEFINE y == Start + t
               z == 1 - c.baseSN
    <2>1. y \in Int /\ z \in Int /\ y + z = expected
      BY <1>1, <1>2, ConstantsAre
    <2>2. ExtMaxSeq(c) = y % Big
      BY <1>1
    <2> HIDE DEF y, z, expected
    <2>3. ((y % Big) + z) % Big = (y + z) % Big
      BY <2>1, ConstantsAre, ModAdd
    <2>4. (y + z) % Big = expected
      BY <1>4, <2>1, ConstantsAre, ModSmall
    <2>5. ExtMaxSeq(c) - c.baseSN + 1 = (y % Big) + z
      <3>1. c.baseSN \in Int
        BY CountersHave, ConstantsAre
      <3>2. y % Big \in Int
        BY <2>1, ConstantsAre, DivMod
      <3>3. QED
        BY <2>2, <3>1, <3>2 DEF z
    <2>6. QED
      BY <2>3, <2>4, <2>5 DEF Expected
  <1>6. TotalLost(c) = missing
    BY <1>1, <1>2, <1>4, <1>5 DEF TotalLost
  <1>7. ExpectedInterval(c) = expected - v
    <2>1. expected - v \in 0 .. Big - 1
      BY <1>3, <1>4, LastIs
    <2>2. QED
      BY <1>1, <1>3, <1>5, <2>1, ConstantsAre, ModSmall DEF ExpectedInterval
  <1>8. ASSUME missing >= w
        PROVE  LostInterval(c) = missing - w /\ LostInterval(c) < ExpectedInterval(c)
    <2> DEFINE y == missing - w
    <2>1. y \in 0 .. Big - 1
      BY <1>2, <1>3, <1>4, <1>8, LastIs
    <2>2. ExpectedInterval(c) - (c.packetCount - c.lastReceived) = y
      BY <1>1, <1>2, <1>3, <1>4, <1>7
    <2> HIDE DEF y
    <2>3. LostInterval(c) = y
      BY <2>1, <2>2, ConstantsAre, ModSmall DEF LostInterval
    <2>4. QED
      BY <1>2, <1>3, <1>4, <1>7, <2>3 DEF y
  <1>9. QED
    <2>1. /\ Expected(c) = expected /\ TotalLost(c) = missing
          /\ ExpectedInterval(c) = expected - v
          /\ missing >= w =>
                LostInterval(c) = missing - w /\ LostInterval(c) < ExpectedInterval(c)
      BY <1>5, <1>6, <1>7, <1>8
    <2>2. x = expected /\ m = missing
      BY <1>0, Zenon
    <2> HIDE DEF expected, missing
    <2>3. v = seen.expected /\ w = seen.missing
      BY <1>0
    <2>4. QED
      BY <2>1, <2>2, <2>3

-----------------------------------------------------------------------------
(* The invariant.                                                          *)

LEMMA InitIInv == Init => IInv
  <1> SUFFICES ASSUME Init PROVE IInv
    OBVIOUS
  <1>1. /\ b = NewCounters /\ lo = 0 /\ top = 0 /\ arrived = {} /\ got = 0 /\ parsed = TRUE
        /\ rr = [total |-> 0, fraction |-> 0, last |-> 0, remb |-> 0]
        /\ seen = [expected |-> 0, missing |-> 0, bitrate |-> 0]
    BY DEF Init
  <1>2. b \in Counters
    <2>1. 0 = Mod * 0 /\ 0 \in 0 .. (Big \div Mod) - 1
      BY BigIs, ConstantsAre
    <2>2. 0 \in {Mod * k : k \in 0 .. (Big \div Mod) - 1}
      BY <2>1
    <2>3. QED
      BY <1>1, <2>2, ConstantsAre DEF NewCounters, Counters
  <1>3. TypeOK
    BY <1>1, <1>2, ConstantsAre DEF TypeOK
  <1>4. PositionsOK
    BY <1>1 DEF PositionsOK
  <1>5. NewestOK
    BY <1>1 DEF NewestOK, NewCounters
  <1>6. BaseOK
    BY <1>1, ConstantsAre DEF BaseOK, NewCounters, Lesser
  <1>7. SeenOK
    BY <1>1 DEF SeenOK, NewCounters
  <1>8. QED
    BY <1>3, <1>4, <1>5, <1>6, <1>7 DEF IInv

\* The parts that follow from an arrival and the counters it leaves.
LEMMA ArrivalPreserves ==
  ASSUME IInv, NEW p \in 0 .. MaxPosition, Arrives(p),
         b' \in Counters, b'.packetCount = got',
         b'.maxSeqNo = (Start + top') % Mod, ExtMaxSeq(b') = (Start + top') % Big
  PROVE  PositionsOK' /\ NewestOK'
  <1>1. PositionsOK' /\ got' > 0
    BY ArrivalPlaces DEF IInv
  <1>2. NewestOK'
    BY <1>1 DEF NewestOK, SN, ExtMaxSeq
  <1>3. QED
    BY <1>1, <1>2

\* Without a report, what is remembered of the last one stays right.
LEMMA SeenStays ==
  ASSUME IInv, NEW p \in 0 .. MaxPosition, Arrives(p), seen' = seen,
         parsed' => /\ parsed
                    /\ b'.lastExpected = b.lastExpected /\ b'.lastReceived = b.lastReceived
  PROVE  SeenOK'
  <1>0. PICK t, l, g, v, w : t = top' /\ l = lo' /\ g = got' /\ v = seen.expected /\ w = seen.missing
    OBVIOUS
  <1>1. /\ t \in 0 .. MaxPosition /\ l \in 0 .. t /\ g = got + 1
        /\ g <= t - l + 1 /\ (got > 0 => top - lo <= t - l)
    BY <1>0, ArrivalPlaces DEF IInv
  <1>2. got \in Nat /\ top \in Nat /\ lo \in Nat /\ v \in Nat /\ w \in Nat
    BY <1>0, LastIs DEF IInv, TypeOK
  <1>3. IF got = 0 THEN v = 0 /\ w = 0 ELSE v <= top - lo + 1 /\ v - w \in 0 .. got
    BY <1>0 DEF IInv, SeenOK
  <1>4. g # 0 /\ v <= t - l + 1 /\ v - w \in 0 .. g
    BY <1>1, <1>2, <1>3, LastIs
  <1>5. parsed' => b'.lastExpected = v /\ b'.lastReceived = v - w
    BY <1>0 DEF IInv, SeenOK
  <1>6. QED
    BY <1>0, <1>4, <1>5 DEF SeenOK

LEMMA BadPacketPreserves ==
  ASSUME IInv, NEW p \in 0 .. MaxPosition, BadPacket(p)
  PROVE  IInv'
  <1>1. Arrives(p) /\ b' = Count(b, SN(p)) /\ parsed' = FALSE /\ UNCHANGED <<rr, seen>>
    BY DEF BadPacket
  <1>2. /\ b' \in Counters /\ b'.packetCount = got'
        /\ b'.maxSeqNo = (Start + top') % Mod /\ ExtMaxSeq(b') = (Start + top') % Big
    BY <1>1, Counted
  <1>3. PositionsOK' /\ NewestOK'
    BY <1>1, <1>2, ArrivalPreserves
  <1>4. /\ top' \in 0 .. MaxPosition /\ lo' \in 0 .. top' /\ arrived' \subseteq Window(top')
        /\ got' = got + 1 /\ got' \in 1 .. MaxPosition + 1 /\ got' <= top' - lo' + 1
        /\ got > 0 => top - lo <= top' - lo'
    BY <1>1, ArrivalPlaces DEF IInv
  <1>5. TypeOK'
    <2>1. parsed' \in BOOLEAN
      BY <1>1
    <2>2. /\ rr' \in [total : 0 .. Big - 1, fraction : 0 .. 255, last : 0 .. Big - 1,
                      remb : 0 .. (MinBitrate + MaxBitrate)]
          /\ seen' \in [expected : Nat, missing : Nat, bitrate : Nat]
      BY <1>1 DEF IInv, TypeOK
    <2>3. QED
      BY <1>2, <1>4, <2>1, <2>2, LastIs DEF TypeOK, Window
  <1>6. BaseOK'
    BY <1>1 DEF BaseOK
  <1>7. SeenOK'
    BY <1>1, SeenStays
  <1>8. QED
    BY <1>3, <1>5, <1>6, <1>7 DEF IInv

LEMMA PacketPreserves ==
  ASSUME IInv, NEW p \in 0 .. MaxPosition, Packet(p)
  PROVE  IInv'
  <1>1. Arrives(p) /\ b' = ProbePacket(Count(b, SN(p)), SN(p)) /\ UNCHANGED <<rr, parsed, seen>>
    BY DEF Packet
  <1>2. /\ b' \in Counters /\ b'.packetCount = got'
        /\ b'.maxSeqNo = (Start + top') % Mod /\ ExtMaxSeq(b') = (Start + top') % Big
        /\ b'.lastExpected = b.lastExpected /\ b'.lastReceived = b.lastReceived
        /\ parsed => b'.minPacketProbe = Lesser(got', Probe) /\ b'.baseSN = Start + lo'
    BY <1>1, Probed
  <1>3. PositionsOK' /\ NewestOK'
    BY <1>1, <1>2, ArrivalPreserves
  <1>4. /\ top' \in 0 .. MaxPosition /\ lo' \in 0 .. top' /\ arrived' \subseteq Window(top')
        /\ got' = got + 1 /\ got' \in 1 .. MaxPosition + 1 /\ got' <= top' - lo' + 1
        /\ got > 0 => top - lo <= top' - lo'
    BY <1>1, ArrivalPlaces DEF IInv
  <1>5. TypeOK'
    BY <1>1, <1>2, <1>4, LastIs DEF IInv, TypeOK, Window
  <1>6. BaseOK'
    BY <1>1, <1>2 DEF BaseOK
  <1>7. SeenOK'
    BY <1>1, <1>2, SeenStays
  <1>8. QED
    BY <1>3, <1>5, <1>6, <1>7 DEF IInv

LEMMA PacketAndReportPreserves ==
  ASSUME IInv, NEW p \in 0 .. MaxPosition, PacketAndReport(p)
  PROVE  IInv'
  <1>1. PICK c \in Counters : c = ProbePacket(Count(b, SN(p)), SN(p))
    <2>1. Arrives(p)
      BY DEF PacketAndReport
    <2>2. QED
      BY <2>1, Probed
  <1>2. Arrives(p) /\ got > 0 /\ Report(c) /\ parsed' = parsed
    BY <1>1 DEF PacketAndReport
  <1>3. /\ c.packetCount = got'
        /\ c.maxSeqNo = (Start + top') % Mod /\ ExtMaxSeq(c) = (Start + top') % Big
        /\ parsed => c.minPacketProbe = Lesser(got', Probe) /\ c.baseSN = Start + lo'
    BY <1>1, <1>2, Probed
  <1>4. /\ top' \in 0 .. MaxPosition /\ lo' \in 0 .. top' /\ arrived' \subseteq Window(top')
        /\ got' = got + 1 /\ got' \in 1 .. MaxPosition + 1 /\ got' <= top' - lo' + 1
    BY <1>2, ArrivalPlaces DEF IInv
  <1>5. parsed => Expected(c) = top' - lo' + 1
    <2>1. PICK x, m : x = top' - lo' + 1 /\ m = top' - lo' + 1 - got'
      OBVIOUS
    <2>2. QED
      BY <1>1, <1>2, <2>1, IntervalIs
  <1>6. PICK br \in Bitrates : \E e \in Estimates(c, br) :
          /\ rr' = [total |-> TotalLost(c), fraction |-> FractionLost(c),
                    last |-> ExtMaxSeq(c), remb |-> e]
          /\ b' = [c EXCEPT !.lastExpected = Expected(c), !.lastReceived = c.packetCount]
          /\ seen' = [expected |-> top' - lo' + 1, missing |-> top' - lo' + 1 - got', bitrate |-> br]
    BY <1>2 DEF Report
  <1>7. PICK e \in Estimates(c, br) :
          /\ rr' = [total |-> TotalLost(c), fraction |-> FractionLost(c),
                    last |-> ExtMaxSeq(c), remb |-> e]
          /\ b' = [c EXCEPT !.lastExpected = Expected(c), !.lastReceived = c.packetCount]
          /\ seen' = [expected |-> top' - lo' + 1, missing |-> top' - lo' + 1 - got', bitrate |-> br]
    BY <1>6
  <1>8. ExtMaxSeq(c) \in 0 .. Big - 1 /\ br \in Nat
    <2>1. Start + top' \in Int
      BY <1>4, ConstantsAre
    <2>2. QED
      BY <1>3, <2>1, ConstantsAre, DivMod, ReportAssumption
  <1>9. /\ Expected(c) \in 0 .. Big - 1 /\ TotalLost(c) \in 0 .. Big - 1 /\ FractionLost(c) \in 0 .. 255
        /\ e \in 0 .. (MinBitrate + MaxBitrate)
    BY <1>3, <1>8, ReportTypes, EstimatesAre
  <1>10. c.packetCount \in 0 .. Big - 1
    BY <1>3, CountersHave
  <1>11. /\ b' \in Counters /\ b'.packetCount = c.packetCount /\ b'.maxSeqNo = c.maxSeqNo
        /\ b'.cycles = c.cycles /\ b'.minPacketProbe = c.minPacketProbe /\ b'.baseSN = c.baseSN
        /\ b'.lastExpected = Expected(c) /\ b'.lastReceived = got'
    <2> DEFINE x == Expected(c)
    <2>1. x \in 0 .. Big - 1 /\ b' = [c EXCEPT !.lastExpected = x, !.lastReceived = c.packetCount]
      BY <1>7, <1>9
    <2> HIDE DEF x
    <2>2. /\ b' \in Counters /\ b'.packetCount = c.packetCount /\ b'.maxSeqNo = c.maxSeqNo
          /\ b'.cycles = c.cycles /\ b'.minPacketProbe = c.minPacketProbe /\ b'.baseSN = c.baseSN
          /\ b'.lastExpected = x /\ b'.lastReceived = c.packetCount
      BY <1>3, <1>10, <2>1 DEF Counters
    <2>3. QED
      BY <1>3, <2>2 DEF x
  <1>12. ExtMaxSeq(b') = (Start + top') % Big
    BY <1>3, <1>11 DEF ExtMaxSeq
  <1>13. PositionsOK' /\ NewestOK'
    BY <1>2, <1>3, <1>11, <1>12, ArrivalPreserves
  <1>14. rr' \in [total : 0 .. Big - 1, fraction : 0 .. 255, last : 0 .. Big - 1,
                  remb : 0 .. (MinBitrate + MaxBitrate)]
    BY <1>7, <1>8, <1>9
  <1>15. /\ seen' \in [expected : Nat, missing : Nat, bitrate : Nat]
         /\ seen'.expected = top' - lo' + 1 /\ seen'.missing = top' - lo' + 1 - got'
    <2>1. top' - lo' + 1 \in Nat /\ top' - lo' + 1 - got' \in Nat
      <3>1. PICK t, l, g : t = top' /\ l = lo' /\ g = got'
        OBVIOUS
      <3>2. t \in Int /\ l \in Int /\ g \in Int /\ l <= t /\ g <= t - l + 1
        BY <1>4, <3>1, LastIs
      <3>3. t - l + 1 \in Nat /\ t - l + 1 - g \in Nat
        BY <3>2
      <3>4. QED
        BY <3>1, <3>3
    <2>2. QED
      BY <1>7, <1>8, <2>1
  <1>16. TypeOK'
    BY <1>2, <1>4, <1>11, <1>14, <1>15, LastIs DEF IInv, TypeOK, Window
  <1>17. BaseOK'
    BY <1>2, <1>3, <1>11 DEF BaseOK
  <1>18. SeenOK'
    <2>1. PICK t, l, g, v, w : t = top' /\ l = lo' /\ g = got' /\ v = seen'.expected /\ w = seen'.missing
      OBVIOUS
    <2>2. v = t - l + 1 /\ w = t - l + 1 - g /\ t \in Int /\ l \in Int /\ g \in 1 .. MaxPosition + 1
      BY <1>4, <1>15, <2>1, LastIs
    <2>3. v - w = g /\ g # 0 /\ v <= t - l + 1 /\ v - w \in 0 .. g
      BY <2>2, LastIs
    <2>4. parsed' => b'.lastExpected = v /\ b'.lastReceived = v - w
      BY <1>2, <1>5, <1>11, <2>1, <2>2, <2>3
    <2>5. QED
      BY <2>1, <2>3, <2>4 DEF SeenOK
  <1>19. QED
    BY <1>13, <1>16, <1>17, <1>18 DEF IInv

LEMMA Preserved == IInv /\ [Next]_vars => IInv'
  <1> SUFFICES ASSUME IInv, [Next]_vars PROVE IInv'
    OBVIOUS
  <1>1. CASE Next
    <2>1. PICK p \in 0 .. MaxPosition : BadPacket(p) \/ Packet(p) \/ PacketAndReport(p)
      BY <1>1 DEF Next
    <2>2. QED
      BY <2>1, BadPacketPreserves, PacketPreserves, PacketAndReportPreserves
  <1>2. CASE UNCHANGED vars
    BY <1>2 DEF vars, IInv, TypeOK, PositionsOK, Open, NewestOK, BaseOK, SeenOK, ExtMaxSeq
  <1>3. QED
    BY <1>1, <1>2

\* The counters of a Buffer agree with what arrived, through losses,
\* reordering and wrap-arounds.
THEOREM Invariance == Spec => []IInv
  BY InitIInv, Preserved, PTL DEF Spec

\* The counters and the fields of a report stay within their widths.
THEOREM TypeCorrect == Spec => []TypeOK
  <1>1. IInv => TypeOK
    BY DEF IInv
  <1>2. QED
    BY <1>1, Invariance, PTL

\* calc always knows the extended number of the newest packet.
THEOREM NewestReported == Spec => []NewestIsKnown
  <1>1. IInv => NewestIsKnown
    BY DEF IInv, NewestOK, NewestIsKnown
  <1>2. QED
    BY <1>1, Invariance, PTL

-----------------------------------------------------------------------------
(* What a report says.                                                     *)

LEMMA ReportSays ==
  ASSUME IInv, [Next]_vars, Reported, parsed
  PROVE  /\ rr'.total = seen'.missing
         /\ Losing =>
              /\ (seen'.missing - seen.missing) * 256 < Big =>
                  rr'.fraction =
                    ((seen'.missing - seen.missing) * 256) \div (seen'.expected - seen.expected)
              /\ rr'.remb >= Lesser(seen'.bitrate, MaxBitrate) \div 2
              /\ seen'.missing = seen.missing => rr'.remb >= Lesser(seen'.bitrate, MaxBitrate)
  <1>1. PICK p \in 0 .. MaxPosition : PacketAndReport(p)
    BY DEF Reported, Next, vars, BadPacket, Packet
  <1>2. Arrives(p) /\ got > 0
    BY <1>1 DEF PacketAndReport
  <1>3. PICK c \in Counters : c = ProbePacket(Count(b, SN(p)), SN(p))
    BY <1>2, Probed
  <1>4. Report(c)
    BY <1>1, <1>3 DEF PacketAndReport
  <1>5. PICK br \in Bitrates : \E e \in Estimates(c, br) :
          /\ rr' = [total |-> TotalLost(c), fraction |-> FractionLost(c),
                    last |-> ExtMaxSeq(c), remb |-> e]
          /\ seen' = [expected |-> top' - lo' + 1, missing |-> top' - lo' + 1 - got', bitrate |-> br]
    BY <1>4 DEF Report
  <1>6. PICK e \in Estimates(c, br) :
          /\ rr' = [total |-> TotalLost(c), fraction |-> FractionLost(c),
                    last |-> ExtMaxSeq(c), remb |-> e]
          /\ seen' = [expected |-> top' - lo' + 1, missing |-> top' - lo' + 1 - got', bitrate |-> br]
    BY <1>5
  <1>7. PICK v, w, x, m : v = seen.expected /\ w = seen.missing /\ x = seen'.expected /\ m = seen'.missing
    OBVIOUS
  <1>8. /\ TotalLost(c) = m
        /\ ExpectedInterval(c) = x - v
        /\ m >= w => LostInterval(c) = m - w /\ LostInterval(c) < ExpectedInterval(c)
    <2>1. x = top' - lo' + 1 /\ m = top' - lo' + 1 - got'
      BY <1>6, <1>7
    <2>2. QED
      BY <1>2, <1>3, <1>7, <2>1, IntervalIs
  <1>9. ExtMaxSeq(c) \in 0 .. Big - 1 /\ br \in Nat
    <2>1. ExtMaxSeq(c) = (Start + top') % Big /\ top' \in 0 .. MaxPosition
      BY <1>2, <1>3, Probed, ArrivalPlaces DEF IInv
    <2>2. Start + top' \in Int
      BY <2>1, ConstantsAre
    <2>3. QED
      BY <2>1, <2>2, ConstantsAre, DivMod, ReportAssumption
  <1>10. ASSUME m >= w
         PROVE  /\ (m - w) * 256 < Big => FractionLost(c) = ((m - w) * 256) \div (x - v)
                /\ e >= Lesser(br, MaxBitrate) \div 2
                /\ m = w => e >= Lesser(br, MaxBitrate)
    <2>1. LostInterval(c) \in Nat /\ ExpectedInterval(c) \in Nat
      BY <1>9, ReportTypes, LastIs
    <2>2. /\ e >= Lesser(br, MaxBitrate) \div 2
          /\ LostInterval(c) = 0 => e >= Lesser(br, MaxBitrate)
      BY <1>8, <1>9, <1>10, EstimatesAre
    <2>3. w \in Nat
      BY <1>7 DEF IInv, TypeOK
    <2>4. m = w => LostInterval(c) = 0
      BY <1>8, <1>10, <2>3
    <2> DEFINE L == LostInterval(c)
               I == ExpectedInterval(c)
    <2>5. L \in Nat /\ I \in Nat \ {0} /\ L < I /\ L = m - w /\ I = x - v
      BY <1>8, <1>10, <2>1
    <2> DEFINE r == (L * 256) \div I
    <2>6. r \in 0 .. 255
      <3>1. L * 256 \in Nat /\ L * 256 < 256 * I
        BY <2>5
      <3>2. r \in Nat /\ r < 256
        BY <2>5, <3>1, DivBounds
      <3> HIDE DEF r
      <3>3. QED
        BY <3>2
    <2>7. ASSUME (m - w) * 256 < Big
          PROVE  FractionLost(c) = r % 256
      <3>1. L * 256 \in 0 .. Big - 1 /\ Big \in Nat \ {0}
        BY <2>5, <2>7, ConstantsAre
      <3>2. (L * 256) % Big = L * 256
        BY <3>1, ModSmall
      <3>3. QED
        BY <2>5, <3>2 DEF FractionLost
    <2>8. r % 256 = r
      <3> HIDE DEF r
      <3>1. QED
        BY <2>6, ModSmall
    <2>9. (m - w) * 256 < Big => FractionLost(c) = ((m - w) * 256) \div (x - v)
      BY <2>5, <2>7, <2>8
    <2>10. QED
      BY <2>2, <2>4, <2>9
  <1>11. /\ rr'.total = TotalLost(c) /\ rr'.fraction = FractionLost(c) /\ rr'.remb = e
         /\ seen'.bitrate = br
    BY <1>6
  <1>12. Losing <=> m >= w
    BY <1>7 DEF Losing
  <1>13. QED
    BY <1>7, <1>8, <1>10, <1>11, <1>12

\* The cumulative loss of a report is the number of packets that are missing.
THEOREM TotalLostReported == Spec => TotalLostIsRight
  <1> DEFINE Right == Reported /\ parsed => rr'.total = seen'.missing
  <1>1. IInv /\ [Next]_vars => [Right]_vars
    BY ReportSays
  <1>2. QED
    BY <1>1, Invariance, PTL DEF Spec, TotalLostIsRight

\* The fraction of a report is that of the interval and fits into its 8 bits.
THEOREM FractionReported == Spec => FractionIsRight
  <1> DEFINE Right ==
        Reported /\ parsed /\ Losing /\ seen'.expected > seen.expected
        /\ (seen'.missing - seen.missing) * 256 < Big =>
          rr'.fraction = ((seen'.missing - seen.missing) * 256) \div (seen'.expected - seen.expected)
  <1>1. IInv /\ [Next]_vars => [Right]_vars
    BY ReportSays
  <1>2. QED
    BY <1>1, Invariance, PTL DEF Spec, FractionIsRight

\* The bitrate asked for follows the loss of the interval.
THEOREM RembReported == Spec => RembFollowsLoss
  <1> DEFINE Right == Reported /\ parsed /\ Losing =>
        LET br == Lesser(seen'.bitrate, MaxBitrate)
        IN  /\ rr'.remb >= br \div 2
            /\ seen'.missing = seen.missing => rr'.remb >= br
  <1>1. IInv /\ [Next]_vars => [Right]_vars
    BY ReportSays
  <1>2. QED
    BY <1>1, Invariance, PTL DEF Spec, RembFollowsLoss

-----------------------------------------------------------------------------
(* The ring of packets.                                                    *)

\* No packet is later than the ring is long: one that is exactly MaxSteps behind
\* takes the newest one's slot.
ShorterThanRing == MaxLate < MaxSteps

LEMMA NumberConstants ==
  \E H \in Nat :
     /\ H = Modulus \div 2 /\ Modulus = 2 * H
     /\ MaxGap < H /\ MaxLate < H
     /\ Modulus \in Nat \ {0} /\ MaxSteps \in Nat \ {0} /\ MaxIndex \in Nat \ {0}
     /\ MaxGap \in Nat \ {0} /\ MaxLate \in Nat /\ StartSN \in Nat
     /\ MaxNackTimes \in Nat \ {0} /\ MaxNackCache \in Nat \ {0} /\ PairSpan \in Nat \ {0}
  <1>1. /\ Modulus \in Nat \ {0} /\ MaxSteps \in Nat \ {0} /\ MaxIndex \in Nat \ {0}
        /\ MaxGap \in Nat \ {0} /\ MaxLate \in Nat /\ StartSN \in Nat /\ Modulus % 2 = 0
        /\ MaxGap < Modulus \div 2 /\ MaxLate < Modulus \div 2
        /\ MaxNackTimes \in Nat \ {0} /\ MaxNackCache \in Nat \ {0} /\ PairSpan \in Nat \ {0}
    BY NackAssumption, BufferAssumption
  <1>2. PICK H : H = Modulus \div 2
    OBVIOUS
  <1>3. H \in Nat /\ Modulus = 2 * H
    BY <1>1, <1>2
  <1>4. QED
    BY <1>1, <1>2, <1>3

LEMMA RingConstants ==
  ASSUME ShorterThanRing
  PROVE  \E H \in Nat :
           /\ H = Modulus \div 2 /\ Modulus = 2 * H
           /\ MaxSteps + 1 < H /\ MaxGap < H /\ MaxLate < MaxSteps
           /\ Modulus \in Nat \ {0} /\ MaxSteps \in Nat \ {0} /\ MaxIndex \in Nat \ {0}
           /\ MaxGap \in Nat /\ MaxLate \in Nat /\ StartSN \in Nat
  <1>1. /\ Modulus \in Nat \ {0} /\ MaxSteps \in Nat \ {0} /\ MaxIndex \in Nat \ {0}
        /\ MaxGap \in Nat /\ MaxLate \in Nat /\ StartSN \in Nat /\ Modulus % 2 = 0
        /\ MaxSteps + 1 < Modulus \div 2 /\ MaxGap < Modulus \div 2 /\ MaxLate < MaxSteps
    BY NackAssumption, BufferAssumption DEF ShorterThanRing
  <1>2. PICK H : H = Modulus \div 2
    OBVIOUS
  <1>3. H \in Nat /\ Modulus = 2 * H
    BY <1>1, <1>2
  <1>4. QED
    BY <1>1, <1>2, <1>3

\* uint16 subtraction.
LEMMA MinusIs ==
  ASSUME Modulus \in Nat \ {0}, NEW x \in Int, NEW y \in Int
  PROVE  Minus(x % Modulus, y % Modulus) = (x - y) % Modulus
  <1>0. x % Modulus \in 0 .. Modulus - 1 /\ y % Modulus \in 0 .. Modulus - 1
    BY DivMod
  <1>1. PICK a \in Int, c \in Int, one \in Int : a = x % Modulus /\ c = y % Modulus /\ one = 1
    BY <1>0
  <1>2. (a - c) % Modulus = (x - y) % Modulus
    BY <1>1, ModMinus
  <1>3. Modulus + a - c = (a - c) + Modulus * one /\ a - c \in Int
    BY <1>1
  <1>4. ((a - c) + Modulus * one) % Modulus = (a - c) % Modulus
    BY <1>1, <1>3, ModPlus
  <1>5. QED
    BY <1>1, <1>2, <1>3, <1>4 DEF Minus

\* The distance of two packets by their numbers.
LEMMA Distance ==
  ASSUME NEW i \in Int, NEW n \in Int, 0 <= i - n, i - n < Modulus \div 2
  PROVE  Minus(SNOf(i), SNOf(n)) = i - n
  <1>1. PICK H \in Nat :
          /\ H = Modulus \div 2 /\ Modulus = 2 * H /\ Modulus \in Nat \ {0} /\ StartSN \in Nat
    BY NumberConstants
  <1>2. PICK x \in Int, y \in Int, d \in 0 .. Modulus - 1 : x = StartSN + i /\ y = StartSN + n /\ d = i - n /\ x - y = d
    <2>1. StartSN + i \in Int /\ StartSN + n \in Int /\ i - n \in 0 .. Modulus - 1 /\ (StartSN + i) - (StartSN + n) = i - n
      BY <1>1
    <2>2. QED
      BY <2>1
  <1>3. SNOf(i) = x % Modulus /\ SNOf(n) = y % Modulus
    BY <1>2 DEF SNOf
  <1>4. d % Modulus = d
    BY <1>1, <1>2, ModSmall
  <1>5. Minus(x % Modulus, y % Modulus) = (x - y) % Modulus
    BY <1>1, <1>2, MinusIs
  <1>6. QED
    BY <1>2, <1>3, <1>4, <1>5

\* By its number a packet within the bounds is not behind the newest one exactly
\* if it is newer.
LEMMA NewerByNumber ==
  ASSUME NEW i \in Int, NEW n \in Int, i # n, n - i <= MaxLate, i - n <= MaxGap
  PROVE  AtOrAfter(SNOf(i), SNOf(n)) <=> i > n
  <1>1. PICK H \in Nat :
          /\ H = Modulus \div 2 /\ Modulus = 2 * H /\ Modulus \in Nat \ {0} /\ StartSN \in Nat
          /\ MaxGap < H /\ MaxLate < H /\ MaxGap \in Nat /\ MaxLate \in Nat
    BY NumberConstants
  <1>2. CASE i > n
    <2>1. 0 <= i - n /\ i - n < H
      BY <1>1, <1>2
    <2>2. Minus(SNOf(i), SNOf(n)) = i - n
      BY <1>1, <2>1, Distance
    <2>3. QED
      BY <1>1, <1>2, <2>1, <2>2 DEF AtOrAfter
  <1>3. CASE i < n
    <2>1. PICK x \in Int, y \in Int, r \in 0 .. Modulus - 1 :
            x = StartSN + i /\ y = StartSN + n /\ r = (i - n) + Modulus /\ x - y = Modulus * (-1) + r /\ r >= H
      <3>1. StartSN + i \in Int /\ StartSN + n \in Int /\ (i - n) + Modulus \in 0 .. Modulus - 1
            /\ (StartSN + i) - (StartSN + n) = Modulus * (-1) + ((i - n) + Modulus) /\ (i - n) + Modulus >= H
        BY <1>1, <1>3
      <3>2. QED
        BY <3>1
    <2>2. SNOf(i) = x % Modulus /\ SNOf(n) = y % Modulus
      BY <2>1 DEF SNOf
    <2>3. (x - y) % Modulus = r
      <3>1. x - y \in Int /\ -1 \in Int
        BY <2>1
      <3>2. QED
        BY <1>1, <2>1, <3>1, ModUnique
    <2>4. Minus(x % Modulus, y % Modulus) = (x - y) % Modulus
      BY <1>1, <2>1, MinusIs
    <2>5. ~(r < H)
      BY <1>1, <2>1
    <2>6. QED
      BY <1>1, <1>3, <2>2, <2>3, <2>4, <2>5 DEF AtOrAfter
  <1>4. QED
    BY <1>2, <1>3

\* A negative position is counted from the end of the ring.
LEMMA WrappedPosition ==
  ASSUME NEW m \in Nat \ {0}, NEW pos \in Int, -m <= pos, pos < m
  PROVE  /\ (IF pos < 0 THEN m + pos ELSE pos) = pos % m
         /\ pos % m \in 0 .. m - 1
  <1>1. CASE pos < 0
    <2>1. PICK r \in 0 .. m - 1, n \in Int : r = m + pos /\ n = -1
      BY <1>1
    <2>2. pos = m * n + r
      BY <2>1
    <2>3. pos % m = r
      BY <2>1, <2>2, ModUnique
    <2>4. QED
      BY <1>1, <2>1, <2>3
  <1>2. CASE ~(pos < 0)
    <2>1. pos \in 0 .. m - 1
      BY <1>2
    <2>2. QED
      BY <1>2, <2>1, ModSmall
  <1>3. QED
    BY <1>1, <1>2

-----------------------------------------------------------------------------
\* The newest packet after an arrival.
LEMMA NewestAfter ==
  ASSUME RingTypeOK, HeadOK, NEW i \in Packets, received' = received \cup {i},
         NEW n \in received', \A j \in received' : j <= n
  PROVE  newest' = n
  <1>1. received' # {} /\ newest' = Max(received')
    BY DEF newest
  <1>2. received' \subseteq Int
    BY DEF RingTypeOK, Packets
  <1>3. PICK m : m = Max(received')
    OBVIOUS
  <1>4. m \in received' /\ \A j \in received' : m >= j
    <2>1. \E m2 \in received' : \A j \in received' : m2 >= j
      BY <1>2
    <2>2. QED
      BY <1>3, <2>1 DEF Max
  <1>5. m \in Int /\ n \in Int /\ m >= n /\ n >= m
    BY <1>2, <1>4
  <1>6. m = n
    BY <1>5
  <1>7. QED
    BY <1>1, <1>3, <1>6

LEMMA SlotIsIn ==
  ASSUME ShorterThanRing, NEW st \in Int, NEW n \in Int, NEW k \in Int
  PROVE  (st - 1 - (n - k)) % MaxSteps \in 0 .. MaxSteps - 1
  <1>1. MaxSteps \in Nat \ {0}
    BY RingConstants
  <1>2. PICK x \in Int : x = st - 1 - (n - k)
    OBVIOUS
  <1>3. x % MaxSteps \in 0 .. MaxSteps - 1
    BY <1>1, <1>2, DivMod
  <1>4. QED
    BY <1>2, <1>3

\* Two packets that are less than MaxSteps apart have different slots.
LEMMA SlotsDiffer ==
  ASSUME ShorterThanRing, NEW st \in Int, NEW n \in Int, NEW j \in Int, NEW k \in Int,
         j - k < MaxSteps, k - j < MaxSteps,
         (st - 1 - (n - j)) % MaxSteps = (st - 1 - (n - k)) % MaxSteps
  PROVE  j = k
  <1>1. MaxSteps \in Nat \ {0}
    BY RingConstants
  <1>2. PICK x \in Int, y \in Int : x = st - 1 - (n - j) /\ y = st - 1 - (n - k)
    OBVIOUS
  <1>3. x - y < MaxSteps /\ y - x < MaxSteps
    BY <1>1, <1>2
  <1>4. x % MaxSteps = y % MaxSteps
    BY <1>2
  <1>5. x = y
    BY <1>1, <1>2, <1>3, <1>4, ModSame
  <1>6. QED
    BY <1>2, <1>5

\* When the newest packet moves on by d and the step with it, no slot moves.
LEMMA SlotStays ==
  ASSUME ShorterThanRing, NEW st \in Int, NEW d \in Int, NEW n \in Int
  PROVE  \E at \in 0 .. MaxSteps - 1, s2 \in 0 .. MaxSteps - 1 :
           /\ at = (st + d - 1) % MaxSteps /\ s2 = (at + 1) % MaxSteps
           /\ (s2 - 1 - 0) % MaxSteps = at
           /\ \A k \in Int : (s2 - 1 - ((n + d) - k)) % MaxSteps = (st - 1 - (n - k)) % MaxSteps
  <1>1. MaxSteps \in Nat \ {0}
    BY RingConstants
  <1>2. PICK x \in Int, one \in Int, minus \in Int : x = st + d - 1 /\ one = 1 /\ minus = -1
    OBVIOUS
  <1>3. PICK at \in 0 .. MaxSteps - 1 : at = x % MaxSteps
    BY <1>1, <1>2, DivMod
  <1>4. PICK y \in Int, s2 \in 0 .. MaxSteps - 1 : y = at + 1 /\ s2 = y % MaxSteps
    <2>1. PICK y \in Int : y = at + 1
      BY <1>3
    <2>2. QED
      BY <1>1, <2>1, DivMod
  <1>5. ASSUME NEW k \in Int PROVE (s2 - 1 - ((n + d) - k)) % MaxSteps = (st - 1 - (n - k)) % MaxSteps
    <2>1. PICK v \in Int, v1 \in Int, w \in Int : v = -((n + d) - k) - 1 /\ v1 = v + 1 /\ w = st - 1 - (n - k)
      <3>1. PICK v \in Int : v = -((n + d) - k) - 1
        OBVIOUS
      <3>2. QED
        BY <3>1
    <2>2. ((y % MaxSteps) + v) % MaxSteps = (y + v) % MaxSteps
      BY <1>1, ModAdd
    <2>3. ((x % MaxSteps) + v1) % MaxSteps = (x + v1) % MaxSteps
      BY <1>1, ModAdd
    <2>4. y + v = at + v1 /\ x + v1 = w /\ s2 - 1 - ((n + d) - k) = s2 + v
      BY <1>2, <1>3, <1>4, <2>1
    <2>5. QED
      BY <1>3, <1>4, <2>1, <2>2, <2>3, <2>4
  <1>6. (s2 - 1 - 0) % MaxSteps = at
    <2>1. ((y % MaxSteps) + minus) % MaxSteps = (y + minus) % MaxSteps
      BY <1>1, <1>2, <1>4, ModAdd
    <2>2. y + minus = at /\ s2 - 1 - 0 = s2 + minus
      BY <1>2, <1>3, <1>4
    <2>3. at % MaxSteps = at
      BY <1>1, <1>3, ModSmall
    <2>4. QED
      BY <1>4, <2>1, <2>2, <2>3
  <1>7. QED
    BY <1>2, <1>3, <1>4, <1>5, <1>6

-----------------------------------------------------------------------------
(* Every arrival keeps RingInv.                                            *)

\* What a slot may hold.
LEMMA ContentsAre ==
  /\ Packets \subseteq Contents /\ Empty \in Contents /\ Contents \subseteq Int
  /\ \A x \in Contents : (x > 0 <=> x \in Packets) /\ (x < 0 <=> x \in Stale)
  BY BufferAssumption, NumberConstants DEF BufferAssumption, Contents, Packets, Empty, Stale

\* What an earlier stream has left is none of this stream's packets.
LEMMA PoolMemoryIs ==
  ASSUME NEW m \in PoolMemory
  PROVE  /\ m \in [0 .. MaxSteps - 1 -> Contents]
         /\ \A p \in 0 .. MaxSteps - 1 : m[p] \in Int /\ m[p] <= 0
  <1>1. {Empty} \cup Stale \subseteq Contents /\ Empty = 0
    BY DEF Contents, Empty
  <1>2. \A x \in {Empty} \cup Stale : x \in Int /\ x <= 0
    BY <1>1, ContentsAre
  <1>3. QED
    BY <1>1, <1>2 DEF PoolMemory

\* What RingInv says when a packet has arrived.
LEMMA RingBegun ==
  ASSUME ShorterThanRing, RingInv, received # {}
  PROVE  /\ received \subseteq Int /\ newest \in received /\ newest \in Int
         /\ \A j \in received : j <= newest
         /\ step \in Int /\ buf \in [0 .. MaxSteps - 1 -> Contents]
         /\ maxSeqNo = SNOf(newest) /\ headSN = SNOf(newest)
         /\ \A k \in Int : Slot(k) \in 0 .. MaxSteps - 1
         /\ \A p \in 0 .. MaxSteps - 1 : buf[p] > 0 => buf[p] \in received /\ Slot(buf[p]) = p
         /\ \A i \in received : buf[Slot(i)] >= i
  <1>1. /\ received \subseteq Packets /\ step \in 0 .. MaxSteps - 1
        /\ buf \in [0 .. MaxSteps - 1 -> Contents]
    BY DEF RingInv, RingTypeOK
  <1>2. received \subseteq Int /\ step \in Int
    BY <1>1, RingConstants DEF Packets
  <1>3. /\ newest \in received /\ \A j \in received : j <= newest
        /\ maxSeqNo = SNOf(newest) /\ headSN = SNOf(newest)
    BY DEF RingInv, HeadOK
  <1>4. newest \in Int
    BY <1>2, <1>3
  <1>5. \A k \in Int : Slot(k) \in 0 .. MaxSteps - 1
    BY <1>2, <1>4, SlotIsIn DEF Slot
  <1>6. /\ \A p \in 0 .. MaxSteps - 1 : buf[p] > 0 => buf[p] \in received /\ Slot(buf[p]) = p
        /\ \A i \in received : buf[Slot(i)] >= i
    BY DEF RingInv, SlotsOK
  <1>7. QED
    BY <1>1, <1>2, <1>3, <1>4, <1>5, <1>6

\* A packet is put into its slot, in which nothing newer has arrived.
LEMMA Stored ==
  ASSUME ShorterThanRing, NEW i \in Packets
  PROVE  /\ RingInv
         /\ received' = received \cup {i}
         /\ step' \in 0 .. MaxSteps - 1
         /\ HeadOK'
         /\ \A k \in received' : Slot(k)' \in 0 .. MaxSteps - 1
         /\ \A k \in received : Slot(k)' = Slot(k)
         /\ buf' = [buf EXCEPT ![Slot(i)'] = i]
         /\ \A k \in received : Slot(k)' = Slot(i)' => k <= i
         => RingInv'
  <1>0. HAVE /\ RingInv
             /\ received' = received \cup {i}
             /\ step' \in 0 .. MaxSteps - 1
             /\ HeadOK'
             /\ \A k \in received' : Slot(k)' \in 0 .. MaxSteps - 1
             /\ \A k \in received : Slot(k)' = Slot(k)
             /\ buf' = [buf EXCEPT ![Slot(i)'] = i]
             /\ \A k \in received : Slot(k)' = Slot(i)' => k <= i
  <1>1. PICK at \in 0 .. MaxSteps - 1 : at = Slot(i)'
    BY <1>0
  <1>2. /\ received \subseteq Packets /\ buf \in [0 .. MaxSteps - 1 -> Contents]
        /\ buf' = [buf EXCEPT ![at] = i] /\ i \in Int
    BY <1>0, <1>1, RingConstants, SMTT(40) DEF RingInv, RingTypeOK, Packets
  <1>3. RingTypeOK'
    BY <1>0, <1>2, ContentsAre DEF RingTypeOK
  <1>4. ASSUME NEW p \in 0 .. MaxSteps - 1, buf'[p] > 0
        PROVE  buf'[p] \in received' /\ Slot(buf[p])' = p
    <2>1. CASE p = at
      <3>1. buf'[p] = i
        BY <1>2, <2>1
      <3>2. QED
        BY <1>0, <1>1, <2>1, <3>1 DEF Slot
    <2>2. CASE p # at
      <3>1. PICK e : e = buf[p]
        OBVIOUS
      <3>2. buf'[p] = e
        BY <1>2, <2>2, <3>1
      <3>3. e \in received /\ Slot(e) = p
        BY <1>0, <1>4, <3>1, <3>2 DEF RingInv, SlotsOK
      <3>4. Slot(e)' = p
        BY <1>0, <3>3
      <3>5. QED
        BY <1>0, <3>2, <3>3, <3>4 DEF Slot
    <2>3. QED
      BY <2>1, <2>2
  <1>5. ASSUME NEW k \in received' PROVE buf'[Slot(k)'] >= k
    <2>1. PICK s \in 0 .. MaxSteps - 1 : s = Slot(k)'
      BY <1>0
    <2>2. CASE s = at
      <3>1. buf'[s] = i
        BY <1>2, <2>2
      <3>2. k <= i
        <4>1. CASE k = i
          BY <1>2, <4>1
        <4>2. CASE k \in received
          BY <1>0, <1>1, <2>1, <2>2, <4>2
        <4>3. QED
          BY <1>0, <4>1, <4>2
      <3>3. k \in Int
        BY <1>0, <1>2, RingConstants DEF Packets
      <3>4. QED
        BY <1>2, <2>1, <3>1, <3>2, <3>3
    <2>3. CASE s # at
      <3>1. buf'[s] = buf[s] /\ k \in received
        BY <1>0, <1>1, <1>2, <2>1, <2>3
      <3>2. s = Slot(k) /\ buf[Slot(k)] >= k
        BY <1>0, <2>1, <3>1 DEF RingInv, SlotsOK
      <3>3. QED
        BY <2>1, <3>1, <3>2
    <2>4. QED
      BY <2>2, <2>3
  <1>6. SlotsOK'
    BY <1>4, <1>5 DEF SlotsOK
  <1>7. QED
    BY <1>0, <1>3, <1>6 DEF RingInv

LEMMA FirstKeepsRing ==
  ASSUME ShorterThanRing, NEW i \in Packets
  PROVE  RingInv /\ First(i) => RingInv'
  <1>0. HAVE RingInv /\ First(i)
  <1>1. /\ received = {} /\ received' = {i} /\ maxSeqNo' = SNOf(i)
        /\ AddLatest(i, Minus(SNOf(i), 1))
    BY <1>0 DEF First
  <1>2. RingTypeOK /\ step = 0
    BY <1>0, <1>1 DEF RingInv, HeadOK
  <1>3. /\ Modulus \in Nat \ {0} /\ MaxSteps \in Nat \ {0} /\ StartSN \in Nat /\ i \in Int /\ 1 \in 0 .. Modulus - 1
    BY RingConstants DEF Packets
  <1>4. Minus(SNOf(i), Minus(SNOf(i), 1)) = 1
    <2>1. PICK x \in Int, y \in Int, one \in Int : x = StartSN + i /\ y = x - 1 /\ one = 1 /\ x - y = 1
      <3>1. PICK x \in Int : x = StartSN + i
        BY <1>3
      <3>2. x - 1 \in Int /\ x - (x - 1) = 1
        OBVIOUS
      <3>3. QED
        BY <3>1, <3>2
    <2>2. SNOf(i) = x % Modulus /\ one % Modulus = 1
      BY <1>3, <2>1, ModSmall DEF SNOf
    <2>3. Minus(x % Modulus, one % Modulus) = (x - one) % Modulus
      BY <1>3, MinusIs
    <2>4. Minus(x % Modulus, y % Modulus) = (x - y) % Modulus
      BY <1>3, MinusIs
    <2>5. QED
      BY <2>1, <2>2, <2>3, <2>4
  <1>5. PICK st \in Int, d \in Int : st = 0 /\ d = 1
    OBVIOUS
  <1>6. PICK at \in 0 .. MaxSteps - 1, s2 \in 0 .. MaxSteps - 1 :
          at = (st + d - 1) % MaxSteps /\ s2 = (at + 1) % MaxSteps /\ (s2 - 1 - 0) % MaxSteps = at
    BY <1>5, SlotStays
  <1>7. headSN' = SNOf(i) /\ buf' = [buf EXCEPT ![at] = i] /\ step' = s2
    BY <1>1, <1>2, <1>4, <1>5, <1>6 DEF AddLatest, StepOver
  <1>8. newest' = i
    <2>1. received' = received \cup {i} /\ i \in received' /\ \A j \in received' : j <= i
      BY <1>1, <1>3
    <2>2. QED
      BY <1>0, <2>1, NewestAfter DEF RingInv
  <1>9. HeadOK'
    BY <1>1, <1>3, <1>7, <1>8 DEF HeadOK
  <1>10. Slot(i)' = at
    <2>1. i - i = 0
      BY <1>3
    <2>2. QED
      BY <1>6, <1>7, <1>8, <2>1 DEF Slot
  <1>11. QED
    BY <1>0, <1>1, <1>7, <1>9, <1>10, Stored

LEMMA NewerKeepsRing ==
  ASSUME ShorterThanRing, NEW i \in Packets
  PROVE  RingInv /\ Newer(i) => RingInv'
  <1>0. HAVE RingInv /\ Newer(i)
  <1>1. /\ received # {} /\ i \in newest - MaxLate .. newest + MaxGap /\ i \notin received
        /\ AtOrAfter(SNOf(i), maxSeqNo) /\ received' = received \cup {i} /\ maxSeqNo' = SNOf(i)
        /\ AddLatest(i, headSN)
    BY <1>0 DEF Newer
  <1>2. /\ received \subseteq Int /\ newest \in received /\ newest \in Int
        /\ \A j \in received : j <= newest
        /\ step \in Int /\ maxSeqNo = SNOf(newest) /\ headSN = SNOf(newest)
        /\ \A k \in Int : Slot(k) \in 0 .. MaxSteps - 1
        /\ \A p \in 0 .. MaxSteps - 1 : buf[p] > 0 => buf[p] \in received /\ Slot(buf[p]) = p
        /\ \A j \in received : buf[Slot(j)] >= j
    BY <1>0, <1>1, RingBegun
  <1>3. PICK n \in Int, st \in Int : n = newest /\ st = step
    BY <1>2
  <1>4. PICK H \in Nat : H = Modulus \div 2 /\ MaxGap < H /\ MaxGap \in Nat /\ MaxLate \in Nat /\ MaxSteps \in Nat \ {0}
    BY RingConstants
  <1>5. i \in Int /\ i # n /\ n - i <= MaxLate /\ i - n <= MaxGap
    BY <1>1, <1>2, <1>3, <1>4 DEF Packets
  <1>6. i > n
    BY <1>1, <1>2, <1>3, <1>5, NewerByNumber
  <1>7. PICK d \in Int : d = i - n /\ i = n + d /\ 0 <= i - n /\ i - n < H
    BY <1>4, <1>5, <1>6
  <1>8. Minus(SNOf(i), headSN) = d
    BY <1>2, <1>3, <1>4, <1>5, <1>7, Distance
  <1>9. PICK at \in 0 .. MaxSteps - 1, s2 \in 0 .. MaxSteps - 1 :
          /\ at = (st + d - 1) % MaxSteps /\ s2 = (at + 1) % MaxSteps
          /\ (s2 - 1 - 0) % MaxSteps = at
          /\ \A k \in Int : (s2 - 1 - ((n + d) - k)) % MaxSteps = (st - 1 - (n - k)) % MaxSteps
    <2>1. st \in Int /\ d \in Int /\ n \in Int
      BY <1>3, <1>7
    <2>2. QED
      BY <2>1, SlotStays, Zenon
  <1>10. headSN' = SNOf(i) /\ buf' = [buf EXCEPT ![at] = i] /\ step' = s2
    BY <1>1, <1>3, <1>8, <1>9 DEF AddLatest, StepOver
  <1>11. \A j \in received' : j <= i
    BY <1>1, <1>2, <1>3, <1>5, <1>6
  <1>12. newest' = i
    BY <1>0, <1>1, <1>11, NewestAfter DEF RingInv
  <1>13. HeadOK'
    BY <1>1, <1>10, <1>11, <1>12 DEF HeadOK
  <1>14. \A k \in Int : Slot(k)' = Slot(k)
    BY <1>3, <1>7, <1>9, <1>10, <1>12 DEF Slot
  <1>15. Slot(i)' = at
    <2>1. i - i = 0
      BY <1>5
    <2>2. QED
      BY <1>9, <1>10, <1>12, <2>1 DEF Slot
  <1>16. \A k \in received : Slot(k)' = Slot(k)
    BY <1>2, <1>14
  <1>18. \A k \in received' : Slot(k)' \in 0 .. MaxSteps - 1
    BY <1>1, <1>2, <1>5, <1>14
  <1>19. \A k \in received : Slot(k)' = Slot(i)' => k <= i
    BY <1>1, <1>11
  <1>20. buf' = [buf EXCEPT ![Slot(i)'] = i] /\ step' \in 0 .. MaxSteps - 1
    BY <1>9, <1>10, <1>15
  <1>21. QED
    BY <1>0, <1>1, <1>13, <1>16, <1>18, <1>19, <1>20, Stored

\* Where Set and Get look for a packet that is d behind the newest.
LEMMA PositionIs ==
  ASSUME ShorterThanRing, RingInv, received # {}, NEW i \in Int, NEW d \in Nat, d = newest - i, d < Modulus \div 2
  PROVE  LET pos  == Position(SNOf(i))
             slot == IF pos < 0 THEN MaxSteps + pos ELSE pos
         IN  /\ Minus(headSN, SNOf(i)) = d
             /\ d < MaxSteps => slot >= 0
             /\ slot >= 0 => slot = Slot(i)
  <1>1. PICK H \in Nat : H = Modulus \div 2 /\ Modulus = 2 * H /\ MaxSteps + 1 < H /\ MaxSteps \in Nat \ {0}
                         /\ Modulus \in Nat \ {0}
    BY RingConstants
  <1>2. newest \in Int /\ headSN = SNOf(newest)
    BY RingBegun
  <1>3. Minus(headSN, SNOf(i)) = d
    <2>1. 0 <= newest - i /\ newest - i < Modulus \div 2
      BY <1>2
    <2>2. QED
      BY <1>2, <2>1, Distance
  <1>4. (d + 1) % Modulus = d + 1
    <2>1. PICK e \in 0 .. Modulus - 1 : e = d + 1
      BY <1>1
    <2>2. QED
      BY <1>1, <2>1, ModSmall
  <1>5. PICK st \in 0 .. MaxSteps - 1 : st = step
    BY DEF RingInv, RingTypeOK
  <1>6. PICK pos \in Int : pos = st - (d + 1) /\ pos = st - 1 - d
    BY <1>1, <1>5
  <1>7. Position(SNOf(i)) = pos
    BY <1>3, <1>4, <1>5, <1>6 DEF Position
  <1>8. pos < MaxSteps /\ (d < MaxSteps => -MaxSteps <= pos)
    BY <1>1, <1>5, <1>6
  <1>9. Slot(i) = pos % MaxSteps
    BY <1>2, <1>5, <1>6 DEF Slot
  <1>10. ASSUME (IF pos < 0 THEN MaxSteps + pos ELSE pos) >= 0
         PROVE  (IF pos < 0 THEN MaxSteps + pos ELSE pos) = Slot(i)
    <2>1. -MaxSteps <= pos
      BY <1>1, <1>6, <1>10
    <2>2. QED
      BY <1>1, <1>6, <1>8, <1>9, <2>1, WrappedPosition
  <1>11. ASSUME d < MaxSteps PROVE (IF pos < 0 THEN MaxSteps + pos ELSE pos) >= 0
    BY <1>1, <1>6, <1>8, <1>11
  <1>12. QED
    BY <1>3, <1>7, <1>10, <1>11

LEMMA LateKeepsRing ==
  ASSUME ShorterThanRing, NEW i \in Packets
  PROVE  RingInv /\ Late(i) => RingInv'
  <1>0. HAVE RingInv /\ Late(i)
  <1>1. /\ received # {} /\ i \in newest - MaxLate .. newest + MaxGap /\ i \notin received
        /\ ~AtOrAfter(SNOf(i), maxSeqNo) /\ received' = received \cup {i} /\ maxSeqNo' = maxSeqNo
        /\ buf' = Set(i) /\ headSN' = headSN /\ step' = step
    BY <1>0 DEF Late, AddLate
  <1>2. /\ received \subseteq Int /\ newest \in received /\ newest \in Int
        /\ \A j \in received : j <= newest
        /\ step \in Int /\ maxSeqNo = SNOf(newest) /\ headSN = SNOf(newest)
        /\ \A k \in Int : Slot(k) \in 0 .. MaxSteps - 1
        /\ \A p \in 0 .. MaxSteps - 1 : buf[p] > 0 => buf[p] \in received /\ Slot(buf[p]) = p
        /\ \A j \in received : buf[Slot(j)] >= j
    BY <1>0, <1>1, RingBegun
  <1>3. PICK n \in Int, st \in Int : n = newest /\ st = step
    BY <1>2
  <1>4. PICK H \in Nat :
          /\ H = Modulus \div 2 /\ MaxGap \in Nat /\ MaxLate \in Nat /\ MaxSteps \in Nat \ {0}
          /\ MaxLate < MaxSteps /\ MaxSteps + 1 < H
    BY RingConstants
  <1>5. i \in Int /\ i # n /\ n - i <= MaxLate /\ i - n <= MaxGap
    BY <1>1, <1>2, <1>3, <1>4 DEF Packets
  <1>6. i < n
    BY <1>1, <1>2, <1>3, <1>5, NewerByNumber
  <1>7. PICK d \in Nat : d = newest - i /\ d < MaxSteps /\ d < Modulus \div 2
    BY <1>3, <1>4, <1>5, <1>6
  <1>8. buf' = [buf EXCEPT ![Slot(i)] = i]
    <2> DEFINE pos  == Position(SNOf(i))
               slot == IF pos < 0 THEN MaxSteps + pos ELSE pos
    <2>1. Minus(headSN, SNOf(i)) = d /\ slot >= 0 /\ slot = Slot(i)
      BY <1>0, <1>1, <1>5, <1>7, PositionIs
    <2>2. ~TooOld(SNOf(i))
      BY <1>4, <1>7, <2>1 DEF TooOld
    <2>3. ~(slot < 0)
      BY <1>2, <1>5, <2>1, <1>4
    <2>4. Set(i) = [buf EXCEPT ![slot] = i]
      BY <2>2, <2>3 DEF Set
    <2> HIDE DEF slot
    <2>5. QED
      BY <1>1, <2>1, <2>4
  <1>9. newest \in received' /\ \A j \in received' : j <= newest
    BY <1>1, <1>2, <1>3, <1>6
  <1>10. newest' = newest
    BY <1>0, <1>1, <1>9, NewestAfter DEF RingInv
  <1>11. HeadOK'
    <2>1. received' # {}
      BY <1>1
    <2>2. QED
      BY <1>1, <1>2, <1>9, <1>10, <2>1 DEF HeadOK, SNOf
  <1>12. \A k : Slot(k)' = Slot(k)
    BY <1>1, <1>10 DEF Slot
  <1>13. ASSUME NEW k \in received, Slot(k) = Slot(i) PROVE k <= i
    <2>1. k \in Int /\ k <= n
      BY <1>2, <1>3
    <2>2. ASSUME k > i PROVE FALSE
      <3>1. k - i < MaxSteps /\ i - k < MaxSteps
        BY <1>3, <1>4, <1>5, <1>7, <2>1, <2>2
      <3>2. (st - 1 - (n - k)) % MaxSteps = (st - 1 - (n - i)) % MaxSteps
        BY <1>3, <1>13 DEF Slot
      <3>3. k = i
        BY <1>3, <1>5, <2>1, <3>1, <3>2, SlotsDiffer
      <3>4. QED
        BY <1>5, <2>2, <3>3
    <2>3. QED
      BY <1>5, <2>1, <2>2
  <1>14. step' \in 0 .. MaxSteps - 1
    BY <1>0, <1>1 DEF RingInv, RingTypeOK
  <1>15. \A k \in received' : Slot(k)' \in 0 .. MaxSteps - 1
    BY <1>1, <1>2, <1>5, <1>12
  <1>16. \A k \in received : Slot(k)' = Slot(k)
    BY <1>12
  <1>17. buf' = [buf EXCEPT ![Slot(i)'] = i] /\ \A k \in received : Slot(k)' = Slot(i)' => k <= i
    BY <1>8, <1>12, <1>13
  <1>18. QED
    BY <1>0, <1>1, <1>11, <1>14, <1>15, <1>16, <1>17, Stored

\* The inductive step.
LEMMA RingKept ==
  ASSUME ShorterThanRing
  PROVE  RingInv /\ [BucketNext]_bufferVars => RingInv'
  <1>0. HAVE RingInv /\ [BucketNext]_bufferVars
  <1>1. CASE \E i \in Packets : First(i) \/ Newer(i) \/ Late(i)
    BY <1>0, <1>1, FirstKeepsRing, NewerKeepsRing, LateKeepsRing
  <1>2. CASE UNCHANGED bufferVars
    <2>1. UNCHANGED <<received, maxSeqNo, headSN, step, buf>>
      BY <1>2 DEF bufferVars, bucketVars
    <2>2. newest' = newest
      BY <2>1 DEF newest
    <2>3. \A k : Slot(k)' = Slot(k)
      BY <2>1, <2>2 DEF Slot
    <2>4. RingTypeOK' /\ HeadOK'
      BY <1>0, <2>1, <2>2 DEF RingInv, RingTypeOK, HeadOK, SNOf
    <2>5. SlotsOK'
      BY <1>0, <2>1, <2>2 DEF RingInv, SlotsOK, Slot
    <2>6. QED
      BY <2>4, <2>5 DEF RingInv
  <1>3. QED
    BY <1>0, <1>1, <1>2 DEF BucketNext

LEMMA RingInit ==
  ASSUME ShorterThanRing
  PROVE  BucketInit => RingInv
  <1>0. HAVE BucketInit
  <1>1. MaxSteps \in Nat \ {0}
    BY RingConstants
  <1>2. received = {} /\ step = 0 /\ buf \in PoolMemory
    BY <1>0 DEF BucketInit
  <1>3. /\ buf \in [0 .. MaxSteps - 1 -> Contents]
        /\ \A p \in 0 .. MaxSteps - 1 : buf[p] \in Int /\ buf[p] <= 0
    BY <1>2, PoolMemoryIs
  <1>4. QED
    BY <1>1, <1>2, <1>3 DEF RingInv, RingTypeOK, HeadOK, SlotsOK

LEMMA CachedByRing ==
  ASSUME ShorterThanRing
  PROVE  RingInv => RecentAreCached
  <1>0. HAVE RingInv
  <1>1. SUFFICES ASSUME NEW i \in received, newest - i < MaxSteps PROVE Get(SNOf(i)) = i
    BY DEF RecentAreCached
  <1>2. /\ received \subseteq Int /\ newest \in Int /\ \A j \in received : j <= newest
        /\ step \in Int /\ \A k \in Int : Slot(k) \in 0 .. MaxSteps - 1
        /\ buf \in [0 .. MaxSteps - 1 -> Contents]
        /\ \A p \in 0 .. MaxSteps - 1 : buf[p] > 0 => buf[p] \in received /\ Slot(buf[p]) = p
        /\ buf[Slot(i)] >= i
    BY <1>0, RingBegun
  <1>3. MaxSteps \in Nat \ {0} /\ MaxSteps < Modulus \div 2 /\ Modulus \div 2 \in Nat
    BY RingConstants
  <1>4. i \in Int /\ i > 0
    BY <1>0, <1>2, RingConstants DEF RingInv, RingTypeOK, Packets
  <1>5. PICK d \in Nat : d = newest - i /\ d < MaxSteps /\ d < Modulus \div 2
    BY <1>1, <1>2, <1>3, <1>4
  <1>6. PICK e : e = buf[Slot(i)]
    OBVIOUS
  <1>7. e \in received /\ Slot(e) = Slot(i) /\ e >= i /\ e > 0
    <2>1. e \in Int
      BY <1>2, <1>4, <1>6, ContentsAre
    <2>2. QED
      BY <1>2, <1>4, <1>6, <2>1, SMTT(40)
  <1>8. e = i
    <2>1. PICK n \in Int, st \in Int : n = newest /\ st = step
      BY <1>2
    <2>2. e \in Int /\ e <= n
      BY <1>2, <1>7, <2>1
    <2>3. e - i < MaxSteps /\ i - e < MaxSteps
      BY <1>3, <1>4, <1>5, <1>7, <2>1, <2>2
    <2>4. (st - 1 - (n - e)) % MaxSteps = (st - 1 - (n - i)) % MaxSteps
      BY <1>7, <2>1 DEF Slot
    <2>5. QED
      BY <1>4, <2>1, <2>2, <2>3, <2>4, SlotsDiffer
  <1>9. QED
    <2> DEFINE pos  == Position(SNOf(i))
               slot == IF pos < 0 THEN MaxSteps + pos ELSE pos
    <2>1. slot >= 0 /\ slot = Slot(i)
      BY <1>0, <1>1, <1>4, <1>5, PositionIs
    <2>2. ~(slot < 0)
      BY <1>2, <1>3, <1>4, <2>1
    <2>3. Get(SNOf(i)) = IF buf[slot] # Empty /\ NumberIn(buf[slot]) = SNOf(i) THEN buf[slot] ELSE Empty
      BY <2>2 DEF Get
    <2> HIDE DEF slot
    <2>4. buf[slot] = i
      BY <1>6, <1>8, <2>1
    <2>5. i # Empty /\ NumberIn(i) = SNOf(i)
      BY <1>4 DEF Empty, NumberIn
    <2>6. QED
      BY <2>3, <2>4, <2>5

LEMMA RightByRing ==
  ASSUME ShorterThanRing
  PROVE  RingInv => NeverAnotherPacket
  <1>0. HAVE RingInv
  <1>1. SUFFICES ASSUME NEW i \in Packets, i \in newest + 1 - Modulus \div 2 .. newest,
                        NEW j, j = Get(SNOf(i)), j # i, j # Empty
                 PROVE  /\ i \notin received
                        /\ j \in Stale \/ (j \in received /\ i - j >= Modulus)
                        /\ \A k \in received : k > j => (k - i) % MaxSteps # 0
    BY DEF NeverAnotherPacket
  <1>2. PICK H \in Nat : /\ H = Modulus \div 2 /\ Modulus = 2 * H /\ MaxSteps \in Nat \ {0}
                         /\ Modulus \in Nat \ {0} /\ MaxIndex \in Nat /\ StartSN \in Nat
    BY RingConstants
  <1>3. i \in Int /\ i > 0
    BY <1>2 DEF Packets
  <1>4. received # {}
    <2>1. received = {} => newest = 0
      BY DEF newest
    <2>2. QED
      BY <1>1, <1>2, <1>3, <2>1
  <1>5. /\ received \subseteq Int /\ newest \in Int /\ \A k \in received : k <= newest
        /\ step \in Int /\ \A k \in Int : Slot(k) \in 0 .. MaxSteps - 1
        /\ buf \in [0 .. MaxSteps - 1 -> Contents]
        /\ \A p \in 0 .. MaxSteps - 1 : buf[p] > 0 => buf[p] \in received /\ Slot(buf[p]) = p
        /\ \A k \in received : buf[Slot(k)] >= k
    BY <1>0, <1>4, RingBegun
  <1>6. PICK d \in Nat : d = newest - i /\ d < Modulus \div 2 /\ d < H
    BY <1>1, <1>2, <1>3, <1>5
  <1>7. j = buf[Slot(i)] /\ NumberIn(j) = SNOf(i)
    <2> DEFINE pos  == Position(SNOf(i))
               slot == IF pos < 0 THEN MaxSteps + pos ELSE pos
    <2>1. slot >= 0 => slot = Slot(i)
      BY <1>0, <1>3, <1>4, <1>6, PositionIs
    <2>2. Get(SNOf(i)) = IF slot < 0 THEN Empty
                       ELSE IF buf[slot] # Empty /\ NumberIn(buf[slot]) = SNOf(i) THEN buf[slot] ELSE Empty
      BY DEF Get
    <2>3. slot \in Int
      <3>1. Position(SNOf(i)) \in Int
        <4>1. Minus(headSN, SNOf(i)) = d
          BY <1>0, <1>3, <1>4, <1>6, PositionIs
        <4>2. PICK y \in Int : y = d + 1
          OBVIOUS
        <4>3. y % Modulus \in 0 .. Modulus - 1
          BY <1>2, <4>2, DivMod
        <4>4. QED
          BY <1>2, <1>5, <4>1, <4>2, <4>3 DEF Position
      <3>2. QED
        BY <1>2, <3>1
    <2> HIDE DEF slot
    <2>4. slot >= 0 /\ j = buf[slot] /\ NumberIn(j) = SNOf(i)
      BY <1>1, <2>2, <2>3
    <2>5. QED
      BY <2>1, <2>4
  <1>8. j \in Int /\ (j > 0 => j \in received /\ Slot(j) = Slot(i)) /\ (j <= 0 => j \in Stale)
    <2>1. Slot(i) \in 0 .. MaxSteps - 1 /\ j \in Contents /\ j \in Int
      BY <1>3, <1>5, <1>7, ContentsAre
    <2>2. j <= 0 => j < 0
      BY <1>1, <2>1 DEF Empty
    <2>3. QED
      BY <1>5, <1>7, <2>1, <2>2, ContentsAre
  <1>9. j > 0 => i - j >= Modulus
    <2>1. SUFFICES ASSUME j > 0, i - j < Modulus PROVE FALSE
      BY <1>2, <1>3, <1>8
    <2>2. PICK x \in Int, y \in Int : x = StartSN + i /\ y = StartSN + j
      BY <1>2, <1>3, <1>8
    <2>3. j <= newest
      BY <1>5, <1>8, <2>1
    <2>4. x - y < Modulus /\ y - x < Modulus /\ x # y
      <3>1. x - y = i - j /\ y - x = j - i /\ x # y
        BY <1>1, <1>2, <1>3, <1>8, <2>2
      <3>2. j - i <= d /\ d < Modulus
        BY <1>2, <1>3, <1>5, <1>6, <1>8, <2>3
      <3>3. QED
        BY <1>2, <1>3, <1>6, <1>8, <2>1, <2>2, <3>1, <3>2
    <2>5. x % Modulus = y % Modulus
      <3>1. NumberIn(j) = SNOf(j)
        BY <1>8, <2>1 DEF NumberIn
      <3>2. QED
        BY <1>7, <2>2, <3>1 DEF SNOf
    <2>6. QED
      BY <1>2, <2>2, <2>4, <2>5, ModSame
  <1>10. ASSUME NEW k \in received, k > j, (k - i) % MaxSteps = 0 PROVE FALSE
    <2>1. PICK n \in Int, st \in Int : n = newest /\ st = step
      BY <1>5
    <2>2. k \in Int
      BY <1>5
    <2>3. PICK z \in Int : z = k - i /\ z % MaxSteps = 0
      BY <1>3, <1>10, <2>2
    <2>4. PICK q \in Int : z = MaxSteps * q
      <3>1. z = MaxSteps * (z \div MaxSteps) + (z % MaxSteps) /\ z \div MaxSteps \in Int
        BY <1>2, <2>3, DivMod
      <3>2. PICK q \in Int : q = z \div MaxSteps
        BY <3>1
      <3>3. z = MaxSteps * q + 0
        BY <2>3, <3>1, <3>2
      <3>4. z = MaxSteps * q
        BY <1>2, <3>2, <3>3
      <3>5. QED
        BY <3>2, <3>4
    <2>5. PICK x \in Int, y \in Int : x = st - 1 - (n - i) /\ y = st - 1 - (n - k) /\ y = x + z
      BY <1>3, <2>1, <2>2, <2>3
    <2>6. (x + MaxSteps * q) % MaxSteps = x % MaxSteps
      BY <1>2, <2>4, <2>5, ModPlus
    <2>7. Slot(k) = Slot(i)
      BY <2>1, <2>4, <2>5, <2>6 DEF Slot
    <2>8. buf[Slot(k)] = j
      BY <1>7, <2>7
    <2>9. j >= k
      BY <1>5, <2>8
    <2>10. QED
      BY <1>8, <1>10, <2>2, <2>9
  <1>11. i \notin received
    <2>1. SUFFICES ASSUME i \in received PROVE FALSE
      OBVIOUS
    <2>2. j >= i
      BY <1>5, <1>7, <2>1
    <2>3. i - j >= Modulus
      BY <1>3, <1>8, <1>9, <2>2
    <2>4. QED
      BY <1>2, <1>3, <1>8, <2>2, <2>3
  <1>12. QED
    BY <1>8, <1>9, <1>10, <1>11

\* The inductive invariant of the ring, if no packet is later than the ring is
\* long: a slot holds the newest packet that arrived for it.
THEOREM RingInvariance == ShorterThanRing => (BucketSpec => []RingInv)
  <1> SUFFICES ASSUME ShorterThanRing PROVE BucketSpec => []RingInv
    OBVIOUS
  <1>1. BucketInit => RingInv
    BY RingInit
  <1>2. RingInv /\ [BucketNext]_bufferVars => RingInv'
    BY RingKept
  <1>3. QED
    BY <1>1, <1>2, PTL DEF BucketSpec

\* RecentAreCached (bucket.go addPacket, set and get): what arrived and is less
\* than maxSteps behind the newest packet is found under its number, whatever
\* was lost and reordered, over any number of wrap-arounds.
THEOREM RecentFound == ShorterThanRing => (BucketSpec => []RecentAreCached)
  <1> SUFFICES ASSUME ShorterThanRing PROVE BucketSpec => []RecentAreCached
    OBVIOUS
  <1>1. RingInv => RecentAreCached
    BY CachedByRing
  <1>2. BucketSpec => []RingInv
    BY RingInvariance
  <1>3. QED
    BY <1>1, <1>2, PTL

\* NeverAnotherPacket (bucket.go get): the number of a packet that has arrived
\* yields that packet or none, whatever an earlier stream has left in the memory
\* of the ring; another one is found only for a packet that is lost, and only as
\* long as nothing has arrived for its slot since.
THEOREM WrongNotFound == ShorterThanRing => (BucketSpec => []NeverAnotherPacket)
  <1> SUFFICES ASSUME ShorterThanRing PROVE BucketSpec => []NeverAnotherPacket
    OBVIOUS
  <1>1. RingInv => NeverAnotherPacket
    BY RightByRing
  <1>2. BucketSpec => []RingInv
    BY RingInvariance
  <1>3. QED
    BY <1>1, <1>2, PTL

-----------------------------------------------------------------------------
(* The queue of missing packets: entries of a sorted sequence.             *)

\* A part of a sequence, from its i-th to its j-th element, may be empty.
LEMMA PartIs ==
  ASSUME NEW S, NEW s \in Seq(S), NEW i \in 1 .. Len(s) + 1, NEW j \in i - 1 .. Len(s)
  PROVE  /\ SubSeq(s, i, j) \in Seq(S)
         /\ Len(SubSeq(s, i, j)) = j - i + 1
         /\ \A k \in 1 .. j - i + 1 : SubSeq(s, i, j)[k] = s[i + k - 1]
  <1> DEFINE a == SubSeq(s, i, j)
  <1>0. Len(s) \in Nat /\ i \in Int /\ j \in Int /\ 1 <= i /\ i - 1 <= j /\ j <= Len(s)
    BY LenProperties
  <1>1. ASSUME NEW k \in i .. j
        PROVE  s[k] \in S
    <2>1. k \in 1 .. Len(s)
      BY <1>0
    <2>2. QED
      BY <2>1, ElementOfSeq
  <1>2. /\ a \in Seq(S) /\ Len(a) = (IF i <= j THEN j - i + 1 ELSE 0)
        /\ \A k \in 1 .. j - i + 1 : a[k] = s[i + k - 1]
    BY <1>0, <1>1, SubSeqProperties
  <1> HIDE DEF a
  <1>3. Len(a) = j - i + 1
    <2>1. CASE i <= j
      BY <1>2, <2>1
    <2>2. CASE ~(i <= j)
      <3>1. j - i + 1 = 0
        BY <1>0, <2>2
      <3>2. QED
        BY <1>2, <2>2, <3>1
    <2>3. QED
      BY <2>1, <2>2
  <1>4. QED
    BY <1>2, <1>3 DEF a

LEMMA InsertIs ==
  ASSUME NEW S, NEW s \in Seq(S), NEW e \in S, NEW i \in 1 .. Len(s) + 1
  PROVE  /\ InsertAt(s, i, e) \in Seq(S)
         /\ Len(InsertAt(s, i, e)) = Len(s) + 1
         /\ \A k \in 1 .. Len(s) + 1 :
               InsertAt(s, i, e)[k] = IF k < i THEN s[k] ELSE IF k = i THEN e ELSE s[k - 1]
  <1> DEFINE a == SubSeq(s, 1, i - 1)
             z == SubSeq(s, i, Len(s))
             ae == a \o <<e>>
  <1>0. Len(s) \in Nat /\ i \in Nat /\ \A k \in 1 .. Len(s) : s[k] \in S
    BY LenProperties, ElementOfSeq
  <1>1. a \in Seq(S) /\ Len(a) = i - 1 /\ \A k \in 1 .. i - 1 : a[k] = s[k]
    <2>1. 1 \in 1 .. Len(s) + 1 /\ i - 1 \in 1 - 1 .. Len(s) /\ i - 1 - 1 + 1 = i - 1
      BY <1>0
    <2>2. /\ a \in Seq(S) /\ Len(a) = i - 1 - 1 + 1
          /\ \A k \in 1 .. i - 1 - 1 + 1 : a[k] = s[1 + k - 1]
      BY <2>1, PartIs
    <2> HIDE DEF a
    <2>3. ASSUME NEW k \in 1 .. i - 1
          PROVE  a[k] = s[k]
      <3>1. 1 + k - 1 = k /\ k \in 1 .. i - 1 - 1 + 1
        BY <1>0
      <3>2. a[k] = s[1 + k - 1]
        BY <2>2, <3>1
      <3>3. QED
        BY <3>1, <3>2
    <2>4. QED
      BY <2>1, <2>2, <2>3
  <1>2. z \in Seq(S) /\ Len(z) = Len(s) - i + 1 /\ \A k \in 1 .. Len(s) - i + 1 : z[k] = s[i + k - 1]
    <2>1. Len(s) \in i - 1 .. Len(s)
      BY <1>0
    <2>2. QED
      BY <2>1, PartIs
  <1> HIDE DEF a, z
  <1>3. <<e>> \in Seq(S) /\ Len(<<e>>) = 1 /\ <<e>>[1] = e
    OBVIOUS
  <1>4. PICK o \in Seq(S) : o = <<e>> /\ Len(o) = 1 /\ o[1] = e
    BY <1>3
  <1>5. ae \in Seq(S) /\ Len(ae) = i /\ \A k \in 1 .. i : ae[k] = IF k < i THEN s[k] ELSE e
    <2>1. /\ a \o o \in Seq(S) /\ Len(a \o o) = Len(a) + Len(o)
          /\ \A k \in 1 .. Len(a) + Len(o) : (a \o o)[k] = IF k <= Len(a) THEN a[k] ELSE o[k - Len(a)]
      BY <1>1, <1>4, ConcatProperties
    <2>2. ae = a \o o
      BY <1>4
    <2> HIDE DEF ae
    <2>3. QED
      BY <1>0, <1>1, <1>4, <2>1, <2>2
  <1>6. InsertAt(s, i, e) = ae \o z
    BY DEF InsertAt, a, z
  <1> HIDE DEF ae
  <1>7. /\ ae \o z \in Seq(S) /\ Len(ae \o z) = Len(ae) + Len(z)
        /\ \A k \in 1 .. Len(ae) + Len(z) : (ae \o z)[k] = IF k <= Len(ae) THEN ae[k] ELSE z[k - Len(ae)]
    BY <1>2, <1>5, ConcatProperties
  <1>8. Len(ae) + Len(z) = Len(s) + 1
    BY <1>0, <1>2, <1>5
  <1>9. ASSUME NEW k \in 1 .. Len(s) + 1
        PROVE  (ae \o z)[k] = IF k < i THEN s[k] ELSE IF k = i THEN e ELSE s[k - 1]
    <2>0. k <= i \/ k > i
      BY <1>0
    <2>1. CASE k <= i
      BY <1>0, <1>5, <1>7, <1>8, <2>1
    <2>2. CASE k > i
      <3>1. k - i \in 1 .. Len(s) - i + 1 /\ i + (k - i) - 1 = k - 1
        BY <1>0, <2>2
      <3>2. (ae \o z)[k] = z[k - i]
        BY <1>0, <1>5, <1>7, <1>8, <2>2
      <3>3. QED
        BY <1>0, <1>2, <2>2, <3>1, <3>2
    <2>3. QED
      BY <2>0, <2>1, <2>2
  <1>10. QED
    BY <1>6, <1>7, <1>8, <1>9

LEMMA RemoveIs ==
  ASSUME NEW S, NEW s \in Seq(S), NEW i \in 1 .. Len(s)
  PROVE  /\ RemoveAt(s, i) \in Seq(S)
         /\ Len(RemoveAt(s, i)) = Len(s) - 1
         /\ \A k \in 1 .. Len(s) - 1 : RemoveAt(s, i)[k] = IF k < i THEN s[k] ELSE s[k + 1]
  <1> DEFINE a == SubSeq(s, 1, i - 1)
             z == SubSeq(s, i + 1, Len(s))
  <1>0. Len(s) \in Nat /\ i \in Nat /\ \A k \in 1 .. Len(s) : s[k] \in S
    BY LenProperties, ElementOfSeq
  <1>1. a \in Seq(S) /\ Len(a) = i - 1 /\ \A k \in 1 .. i - 1 : a[k] = s[k]
    <2>1. 1 \in 1 .. Len(s) + 1 /\ i - 1 \in 1 - 1 .. Len(s) /\ i - 1 - 1 + 1 = i - 1
      BY <1>0
    <2>2. /\ a \in Seq(S) /\ Len(a) = i - 1 - 1 + 1
          /\ \A k \in 1 .. i - 1 - 1 + 1 : a[k] = s[1 + k - 1]
      BY <2>1, PartIs
    <2> HIDE DEF a
    <2>3. ASSUME NEW k \in 1 .. i - 1
          PROVE  a[k] = s[k]
      <3>1. 1 + k - 1 = k /\ k \in 1 .. i - 1 - 1 + 1
        BY <1>0
      <3>2. a[k] = s[1 + k - 1]
        BY <2>2, <3>1
      <3>3. QED
        BY <3>1, <3>2
    <2>4. QED
      BY <2>1, <2>2, <2>3
  <1>2. z \in Seq(S) /\ Len(z) = Len(s) - i /\ \A k \in 1 .. Len(s) - i : z[k] = s[i + k]
    <2>1. PICK j \in 1 .. Len(s) + 1 : j = i + 1
      BY <1>0
    <2>2. Len(s) \in j - 1 .. Len(s) /\ Len(s) - j + 1 = Len(s) - i
      BY <1>0, <2>1
    <2>3. z = SubSeq(s, j, Len(s))
      BY <2>1
    <2> HIDE DEF z
    <2>4. /\ z \in Seq(S) /\ Len(z) = Len(s) - j + 1
          /\ \A k \in 1 .. Len(s) - j + 1 : z[k] = s[j + k - 1]
      BY <2>2, <2>3, PartIs
    <2>5. ASSUME NEW k \in 1 .. Len(s) - i
          PROVE  z[k] = s[i + k]
      <3>1. j + k - 1 = i + k
        BY <1>0, <2>1
      <3>2. z[k] = s[j + k - 1]
        BY <2>2, <2>4
      <3>3. QED
        BY <3>1, <3>2
    <2>6. QED
      BY <2>2, <2>4, <2>5
  <1>3. RemoveAt(s, i) = a \o z
    BY DEF RemoveAt
  <1> HIDE DEF a, z
  <1>4. /\ a \o z \in Seq(S) /\ Len(a \o z) = Len(a) + Len(z)
        /\ \A k \in 1 .. Len(a) + Len(z) : (a \o z)[k] = IF k <= Len(a) THEN a[k] ELSE z[k - Len(a)]
    BY <1>1, <1>2, ConcatProperties
  <1>5. Len(a) + Len(z) = Len(s) - 1
    BY <1>0, <1>1, <1>2
  <1>6. ASSUME NEW k \in 1 .. Len(s) - 1
        PROVE  (a \o z)[k] = IF k < i THEN s[k] ELSE s[k + 1]
    <2>0. k < i \/ k >= i
      BY <1>0
    <2>1. CASE k < i
      BY <1>0, <1>1, <1>4, <1>5, <2>1
    <2>2. CASE k >= i
      <3>1. k - (i - 1) \in 1 .. Len(s) - i /\ i + (k - (i - 1)) = k + 1
        BY <1>0, <2>2
      <3>2. (a \o z)[k] = z[k - (i - 1)]
        BY <1>0, <1>1, <1>4, <1>5, <2>2
      <3>3. QED
        BY <1>0, <1>2, <2>2, <3>1, <3>2
    <2>3. QED
      BY <2>0, <2>1, <2>2
  <1>7. QED
    BY <1>3, <1>4, <1>5, <1>6

\* The number of entries before x, which sort.Search finds.
LEMMA BeforeBound ==
  ASSUME NEW q \in NackQueues, NEW x
  PROVE  Before(q, x) \in 0 .. Len(q.nacks)
  <1> DEFINE D == {i \in DOMAIN q.nacks : q.nacks[i].sn < x}
  <1>1. q.nacks \in Seq(NackEntries)
    BY DEF NackQueues
  <1>2. PICK n \in Nat : n = Len(q.nacks) /\ DOMAIN q.nacks = 1 .. n
    BY <1>1, LenProperties
  <1>3. IsFiniteSet(1 .. n) /\ Cardinality(1 .. n) = n
    <2>1. 1 \in Int /\ n \in Int
      OBVIOUS
    <2>2. IsFiniteSet(1 .. n) /\ Cardinality(1 .. n) = IF 1 > n THEN 0 ELSE n - 1 + 1
      BY <2>1, FS_Interval
    <2>3. QED
      BY <2>2
  <1>4. D \subseteq 1 .. n
    BY <1>2
  <1>5. Before(q, x) = Cardinality(D)
    BY DEF Before
  <1> HIDE DEF D
  <1>6. IsFiniteSet(D) /\ Cardinality(D) <= Cardinality(1 .. n)
    BY <1>3, <1>4, FS_Subset
  <1>7. Cardinality(D) \in Nat
    BY <1>6, FS_CardinalityType
  <1>8. QED
    BY <1>2, <1>3, <1>5, <1>6, <1>7

LEMMA BeforeIs ==
  ASSUME NEW q \in NackQueues, NEW x \in Nat, Ascending(q.nacks)
  PROVE  /\ Before(q, x) \in 0 .. Len(q.nacks)
         /\ \A k \in 1 .. Len(q.nacks) : k <= Before(q, x) <=> q.nacks[k].sn < x
  <1> DEFINE D == {i \in DOMAIN q.nacks : q.nacks[i].sn < x}
  <1>1. q.nacks \in Seq(NackEntries)
    BY DEF NackQueues
  <1>2. PICK n \in Nat : n = Len(q.nacks) /\ DOMAIN q.nacks = 1 .. n
    BY <1>1, LenProperties
  <1>3. \A k \in 1 .. n : q.nacks[k].sn \in Nat
    <2>1. ASSUME NEW k \in 1 .. n PROVE q.nacks[k] \in NackEntries
      BY <1>1, <1>2, <2>1, ElementOfSeq
    <2>2. QED
      BY <2>1 DEF NackEntries
  <1>4. PICK l \in 1 .. n + 1 : l \notin D /\ \A m \in 1 .. n + 1 : m \notin D => l <= m
    <2> DEFINE U == {m \in 1 .. n + 1 : m \notin D}
    <2>1. U \subseteq Nat /\ n + 1 \in U
      BY <1>2
    <2>2. PICK l \in U : \A m \in U : l <= m
      BY <2>1, LeastNumber
    <2>3. QED
      BY <2>2
  <1>5. D = 1 .. l - 1
    <2>1. ASSUME NEW k \in 1 .. l - 1 PROVE k \in D
      BY <1>4, <2>1
    <2>2. ASSUME NEW k \in D PROVE k \in 1 .. l - 1
      <3>1. k \in 1 .. n /\ q.nacks[k].sn < x
        BY <1>2
      <3>2. CASE k < l
        BY <3>1, <3>2
      <3>3. CASE l < k
        <4>1. l \in 1 .. n
          BY <1>2, <3>1, <3>3
        <4>2. ~(q.nacks[l].sn < x)
          BY <1>2, <1>4, <4>1
        <4>3. q.nacks[l].sn < q.nacks[k].sn \/ (q.nacks[l].sn = 0 /\ q.nacks[k].sn = 0)
          BY <1>2, <3>1, <3>3, <4>1 DEF Ascending
        <4>4. q.nacks[l].sn \in Nat /\ q.nacks[k].sn \in Nat
          BY <1>3, <3>1, <4>1
        <4>5. QED
          BY <3>1, <4>2, <4>3, <4>4
      <3>4. k # l
        BY <1>4
      <3>5. QED
        BY <3>1, <3>2, <3>3, <3>4
    <2>3. QED
      BY <2>1, <2>2
  <1>6. Before(q, x) = Cardinality(D)
    BY DEF Before
  <1>7. \A k \in 1 .. n : k \in D <=> q.nacks[k].sn < x
    BY <1>2
  <1> HIDE DEF D
  <1>8. Cardinality(1 .. l - 1) = l - 1
    <2>1. 1 \in Int /\ l - 1 \in Int
      OBVIOUS
    <2>2. Cardinality(1 .. l - 1) = IF 1 > l - 1 THEN 0 ELSE (l - 1) - 1 + 1
      BY <2>1, FS_Interval
    <2>3. QED
      BY <2>2
  <1>9. PICK v \in 0 .. n : v = Before(q, x) /\ v = l - 1
    BY <1>5, <1>6, <1>8
  <1>10. QED
    BY <1>2, <1>5, <1>7, <1>9

\* push and remove leave a queue.
LEMMA AdvanceType ==
  ASSUME NEW q \in NackQueues, NEW sn \in Nat, Modulus \in Nat
  PROVE  Advance(q, sn) \in NackQueues /\ Advance(q, sn).nacks = q.nacks /\ Advance(q, sn).counter = q.counter
  <1>1. CASE q.maxSN = 0
    BY <1>1 DEF Advance, NackQueues
  <1>2. CASE q.maxSN # 0 /\ ~AtOrAfter(sn, q.maxSN)
    BY <1>2 DEF Advance, NackQueues
  <1>3. CASE q.maxSN # 0 /\ AtOrAfter(sn, q.maxSN)
    <2>1. PICK c \in Nat : c = IF sn < q.maxSN THEN q.cycles + Modulus ELSE q.cycles
      BY DEF NackQueues
    <2>2. Advance(q, sn) = [q EXCEPT !.maxSN = sn, !.cycles = c]
      BY <1>3, <2>1 DEF Advance
    <2>3. QED
      BY <2>2 DEF NackQueues
  <1>4. QED
    BY <1>1, <1>2, <1>3

LEMMA PushType ==
  ASSUME NEW q \in NackQueues, NEW sn \in Nat
  PROVE  PushNack(q, sn) \in NackQueues
  <1> DEFINE a == Advance(q, sn)
             e == [sn |-> a.cycles + sn, nacked |-> 0]
             v == Before(a, a.cycles + sn)
             n == InsertAt(a.nacks, v + 1, e)
             t == IF Len(n) > MaxNackCache THEN Tail(n) ELSE n
  <1>0. Modulus \in Nat /\ MaxNackTimes \in Nat
    BY NumberConstants
  <1>1. a \in NackQueues
    BY <1>0, AdvanceType
  <1>2. PushNack(q, sn) = IF Holds(a, a.cycles + sn) THEN a ELSE [a EXCEPT !.nacks = t, !.counter = a.counter + 1]
    BY DEF PushNack
  <1> HIDE DEF a
  <1>3. a.nacks \in Seq(NackEntries) /\ a.cycles \in Nat /\ a.counter \in Nat
    BY <1>1 DEF NackQueues
  <1>4. e \in NackEntries
    BY <1>0, <1>3 DEF NackEntries
  <1>5. v \in 0 .. Len(a.nacks)
    BY <1>1, BeforeBound
  <1> HIDE DEF v, e
  <1>6. v + 1 \in 1 .. Len(a.nacks) + 1
    BY <1>3, <1>5
  <1>7. n \in Seq(NackEntries) /\ Len(n) = Len(a.nacks) + 1
    BY <1>3, <1>4, <1>6, InsertIs
  <1>8. n # <<>>
    BY <1>3, <1>7
  <1> HIDE DEF n
  <1>9. t \in Seq(NackEntries)
    BY <1>7, <1>8, HeadTailProperties
  <1> HIDE DEF t
  <1>10. PICK c \in Nat : c = a.counter + 1
    BY <1>3
  <1>11. CASE Holds(a, a.cycles + sn)
    BY <1>1, <1>2, <1>11
  <1>12. CASE ~Holds(a, a.cycles + sn)
    <2>1. PushNack(q, sn) = [a EXCEPT !.nacks = t, !.counter = c]
      BY <1>2, <1>10, <1>12
    <2>2. QED
      BY <1>1, <1>9, <2>1 DEF NackQueues
  <1>13. QED
    BY <1>11, <1>12

LEMMA RemoveType ==
  ASSUME NEW q \in NackQueues, NEW sn \in Nat
  PROVE  RemoveNack(q, sn) \in NackQueues
  <1> DEFINE v == Before(q, q.cycles + sn)
  <1>1. q.nacks \in Seq(NackEntries) /\ q.cycles \in Nat
    BY DEF NackQueues
  <1>2. RemoveNack(q, sn) = IF Holds(q, q.cycles + sn) THEN [q EXCEPT !.nacks = RemoveAt(q.nacks, v + 1)] ELSE q
    BY DEF RemoveNack
  <1>3. v \in 0 .. Len(q.nacks)
    BY BeforeBound
  <1>4. CASE Holds(q, q.cycles + sn)
    <2> DEFINE D == {i \in DOMAIN q.nacks : q.nacks[i].sn < q.cycles + sn}
    <2>1. PICK l \in 1 .. Len(q.nacks) : q.nacks[l].sn = q.cycles + sn
      BY <1>1, <1>4, LenProperties DEF Holds
    <2>2. l \notin D
      <3>1. q.cycles + sn \in Nat
        BY <1>1
      <3>2. QED
        BY <2>1, <3>1
    <2>3. PICK n \in Nat : n = Len(q.nacks) /\ DOMAIN q.nacks = 1 .. n
      BY <1>1, LenProperties
    <2>4. D \subseteq (1 .. n) \ {l}
      BY <2>2, <2>3
    <2>5. v = Cardinality(D)
      BY DEF Before
    <2> HIDE DEF D, v
    <2>6. IsFiniteSet((1 .. n) \ {l}) /\ Cardinality((1 .. n) \ {l}) = n - 1
      <3>1. 1 \in Int /\ n \in Int
        OBVIOUS
      <3>2. IsFiniteSet(1 .. n) /\ Cardinality(1 .. n) = IF 1 > n THEN 0 ELSE n - 1 + 1
        BY <3>1, FS_Interval
      <3>3. l \in 1 .. n
        BY <2>1, <2>3
      <3>4. IsFiniteSet((1 .. n) \ {l}) /\ Cardinality((1 .. n) \ {l}) = Cardinality(1 .. n) - 1
        BY <3>2, <3>3, FS_RemoveElement
      <3>5. QED
        BY <3>2, <3>3, <3>4
    <2>7. Cardinality(D) <= n - 1
      <3>1. PICK T : T = (1 .. n) \ {l}
        OBVIOUS
      <3>2. IsFiniteSet(T) /\ D \subseteq T
        BY <2>4, <2>6, <3>1
      <3>3. Cardinality(D) <= Cardinality(T)
        BY <3>2, FS_Subset
      <3>4. QED
        BY <2>6, <3>1, <3>3
    <2>8. v + 1 \in 1 .. Len(q.nacks)
      BY <1>1, <1>3, <2>3, <2>5, <2>7
    <2>9. RemoveAt(q.nacks, v + 1) \in Seq(NackEntries)
      BY <1>1, <2>8, RemoveIs
    <2>10. QED
      BY <1>2, <1>4, <2>9 DEF NackQueues
  <1>5. CASE ~Holds(q, q.cycles + sn)
    BY <1>2, <1>5
  <1>6. QED
    BY <1>4, <1>5

-----------------------------------------------------------------------------
(* The loops of addPacket and of pairs.                                    *)

\* f[j] is the queue q after the j numbers before sn have been pushed.
PushedFrom(f, q, sn, n) == f[0] = q /\ \A k \in 1 .. n : f[k] = PushNack(f[k - 1], Minus(sn, k))

\* The loops: the functions that they are written as are there.
LEMMA PushBeforeIs ==
  ASSUME NEW q, NEW sn, NEW n \in Nat
  PROVE  \E f : PushedFrom(f, q, sn, n) /\ PushBefore(q, sn, n) = f[n]
  <1> DEFINE G(f, m) == f = [k \in 0 .. m |-> IF k = 0 THEN q ELSE PushNack(f[k - 1], Minus(sn, k))]
  <1>1. \A m \in Nat : \E f : G(f, m)
    <2> DEFINE U == {m \in Nat : ~ \E f : G(f, m)}
    <2>1. ASSUME U # {} PROVE FALSE
      <3>1. PICK m \in U : \A l \in U : m <= l
        BY <2>1, LeastNumber
      <3>2. m \in Nat /\ ~ \E f : G(f, m)
        BY <3>1
      <3>3. m # 0
        <4>1. ASSUME m = 0 PROVE FALSE
          <5>1. 0 .. 0 = {0}
            OBVIOUS
          <5>2. [k \in 0 .. 0 |-> IF k = 0 THEN q ELSE PushNack([j \in 0 .. 0 |-> q][k - 1], Minus(sn, k))]
                  = [k \in 0 .. 0 |-> q]
            BY <5>1
          <5>3. G([k \in 0 .. 0 |-> q], 0)
            BY <5>2
          <5>4. QED
            BY <3>2, <4>1, <5>3, Zenon
        <4>2. QED
          BY <4>1
      <3>4. m - 1 \in Nat /\ m - 1 \notin U
        <4>1. m - 1 \in Nat /\ ~(m <= m - 1)
          BY <3>2, <3>3
        <4>2. QED
          BY <3>1, <4>1, Zenon
      <3>5. PICK f : G(f, m - 1)
        BY <3>4
      <3> DEFINE g == [k \in 0 .. m |-> IF k < m THEN f[k] ELSE PushNack(f[m - 1], Minus(sn, m))]
      <3>6. ASSUME NEW k \in 0 .. m PROVE g[k] = IF k = 0 THEN q ELSE PushNack(g[k - 1], Minus(sn, k))
        <4>1. CASE k = 0
          <5>1. g[k] = f[0] /\ 0 \in 0 .. m - 1
            BY <3>2, <3>3, <4>1
          <5>2. f[0] = q
            BY <3>5, <5>1
          <5>3. QED
            BY <4>1, <5>1, <5>2
        <4>2. CASE k # 0 /\ k < m
          <5>1. g[k] = f[k] /\ g[k - 1] = f[k - 1] /\ k \in 0 .. m - 1
            BY <3>2, <4>2
          <5>2. f[k] = PushNack(f[k - 1], Minus(sn, k))
            BY <3>5, <4>2, <5>1
          <5>3. QED
            BY <4>2, <5>1, <5>2
        <4>3. CASE k # 0 /\ k = m
          <5>1. g[k] = PushNack(f[m - 1], Minus(sn, m)) /\ g[k - 1] = f[m - 1]
            BY <3>2, <3>3, <4>3
          <5>2. QED
            BY <4>3, <5>1
        <4>4. QED
          BY <3>2, <4>1, <4>2, <4>3
      <3>7. g = [k \in 0 .. m |-> g[k]]
        OBVIOUS
      <3> HIDE DEF g
      <3>8. G(g, m)
        BY <3>6, <3>7
      <3>9. QED
        BY <3>2, <3>8
    <2>2. QED
      BY <2>1
  <1>2. PICK f : f = CHOOSE h : G(h, n)
    OBVIOUS
  <1>3. G(f, n)
    BY <1>1, <1>2, Zenon
  <1>4. PushBefore(q, sn, n) = f[n]
    BY <1>2, Zenon DEF PushBefore
  <1>5. f[0] = q
    BY <1>3
  <1>6. ASSUME NEW k \in 1 .. n PROVE f[k] = PushNack(f[k - 1], Minus(sn, k))
    <2>1. k \in 0 .. n /\ k # 0
      OBVIOUS
    <2>2. QED
      BY <1>3, <2>1
  <1>7. PushedFrom(f, q, sn, n)
    BY <1>5, <1>6 DEF PushedFrom
  <1>8. QED
    BY <1>4, <1>7, Zenon

LEMMA VisitAllIs ==
  ASSUME NEW nacks, Len(nacks) \in Nat
  PROVE  \E f : /\ f[0] = [id |-> 0, asked |-> {}, kept |-> <<>>]
                /\ \A k \in 1 .. Len(nacks) : f[k] = Visit(f[k - 1], nacks[k])
                /\ VisitAll(nacks) = f[Len(nacks)]
  <1> DEFINE first == [id |-> 0, asked |-> {}, kept |-> <<>>]
             G(f, m) == f = [k \in 0 .. m |-> IF k = 0 THEN first ELSE Visit(f[k - 1], nacks[k])]
  <1>1. VisitAll(nacks) = (CHOOSE h : G(h, Len(nacks)))[Len(nacks)]
    BY Zenon DEF VisitAll
  <1> HIDE DEF first
  <1>2. \A m \in Nat : \E f : G(f, m)
    <2> DEFINE U == {m \in Nat : ~ \E f : G(f, m)}
    <2>1. ASSUME U # {} PROVE FALSE
      <3>1. PICK m \in U : \A l \in U : m <= l
        BY <2>1, LeastNumber
      <3>2. m \in Nat /\ ~ \E f : G(f, m)
        BY <3>1
      <3>3. m # 0
        <4>1. ASSUME m = 0 PROVE FALSE
          <5>1. 0 .. 0 = {0}
            OBVIOUS
          <5>2. [k \in 0 .. 0 |-> IF k = 0 THEN first ELSE Visit([j \in 0 .. 0 |-> first][k - 1], nacks[k])]
                  = [k \in 0 .. 0 |-> first]
            BY <5>1
          <5>3. G([k \in 0 .. 0 |-> first], 0)
            BY <5>2
          <5>4. QED
            BY <3>2, <4>1, <5>3, Zenon
        <4>2. QED
          BY <4>1
      <3>4. m - 1 \in Nat /\ m - 1 \notin U
        <4>1. m - 1 \in Nat /\ ~(m <= m - 1)
          BY <3>2, <3>3
        <4>2. QED
          BY <3>1, <4>1, Zenon
      <3>5. PICK f : G(f, m - 1)
        BY <3>4
      <3> DEFINE g == [k \in 0 .. m |-> IF k < m THEN f[k] ELSE Visit(f[m - 1], nacks[m])]
      <3>6. ASSUME NEW k \in 0 .. m PROVE g[k] = IF k = 0 THEN first ELSE Visit(g[k - 1], nacks[k])
        <4>1. CASE k = 0
          <5>1. g[k] = f[0] /\ 0 \in 0 .. m - 1
            BY <3>2, <3>3, <4>1
          <5>2. f[0] = first
            BY <3>5, <5>1
          <5>3. QED
            BY <4>1, <5>1, <5>2
        <4>2. CASE k # 0 /\ k < m
          <5>1. g[k] = f[k] /\ g[k - 1] = f[k - 1] /\ k \in 0 .. m - 1
            BY <3>2, <4>2
          <5>2. f[k] = Visit(f[k - 1], nacks[k])
            BY <3>5, <4>2, <5>1
          <5>3. QED
            BY <4>2, <5>1, <5>2
        <4>3. CASE k # 0 /\ k = m
          <5>1. g[k] = Visit(f[m - 1], nacks[m]) /\ g[k - 1] = f[m - 1]
            BY <3>2, <3>3, <4>3
          <5>2. QED
            BY <4>3, <5>1
        <4>4. QED
          BY <3>2, <4>1, <4>2, <4>3
      <3>7. g = [k \in 0 .. m |-> g[k]]
        OBVIOUS
      <3> HIDE DEF g
      <3>8. G(g, m)
        BY <3>6, <3>7
      <3>9. QED
        BY <3>2, <3>8
    <2>2. QED
      BY <2>1
  <1>3. PICK f : f = CHOOSE h : G(h, Len(nacks))
    OBVIOUS
  <1>4. G(f, Len(nacks))
    BY <1>2, <1>3, Zenon
  <1>5. VisitAll(nacks) = f[Len(nacks)]
    BY <1>1, <1>3, Zenon
  <1>6. f[0] = first
    BY <1>4
  <1>7. ASSUME NEW k \in 1 .. Len(nacks) PROVE f[k] = Visit(f[k - 1], nacks[k])
    <2>1. k \in 0 .. Len(nacks) /\ k # 0
      OBVIOUS
    <2>2. QED
      BY <1>4, <2>1
  <1>8. QED
    BY <1>5, <1>6, <1>7 DEF first

-----------------------------------------------------------------------------
(* push, for the numbers between two heads.                                *)

\* A number that is not more than half a cycle behind counts no cycle.
LEMMA NoCycle ==
  ASSUME NEW q \in NackQueues, NEW sn \in 1 .. Modulus - 1,
         q.maxSN < Modulus, 2 * (q.maxSN - sn) < Modulus
  PROVE  Advance(q, sn).cycles = q.cycles /\ Advance(q, sn).maxSN \in {q.maxSN, sn}
  <1>0. PICK H \in Nat : H = Modulus \div 2 /\ Modulus = 2 * H /\ Modulus \in Nat \ {0}
    BY NumberConstants
  <1>1. q.maxSN \in Nat /\ q.cycles \in Nat /\ sn \in Nat
    BY <1>0 DEF NackQueues
  <1>2. CASE q.maxSN = 0
    BY <1>2 DEF Advance, NackQueues
  <1>3. CASE q.maxSN # 0 /\ ~AtOrAfter(sn, q.maxSN)
    BY <1>3 DEF Advance, NackQueues
  <1>4. CASE q.maxSN # 0 /\ AtOrAfter(sn, q.maxSN)
    <2>1. ~(sn < q.maxSN)
      <3>1. ASSUME sn < q.maxSN PROVE FALSE
        <4>1. PICK r \in 0 .. Modulus - 1 : r = Modulus + sn - q.maxSN /\ r > H
          <5>1. Modulus + sn - q.maxSN \in 0 .. Modulus - 1 /\ Modulus + sn - q.maxSN > H
            BY <1>0, <1>1, <3>1
          <5>2. QED
            BY <5>1
        <4>2. Minus(sn, q.maxSN) = r
          BY <1>0, <4>1, ModSmall DEF Minus
        <4>3. QED
          BY <1>0, <1>4, <4>1, <4>2 DEF AtOrAfter
      <3>2. QED
        BY <3>1
    <2>2. Advance(q, sn) = [q EXCEPT !.maxSN = sn, !.cycles = q.cycles]
      BY <1>4, <2>1 DEF Advance
    <2>3. QED
      BY <2>2 DEF NackQueues
  <1>5. QED
    BY <1>2, <1>3, <1>4

\* p is q with the entry new behind the v entries that are smaller; the smallest
\* one may have made room.
Inserted(p, q, new) ==
    \E v \in 0 .. Len(q.nacks) :
      /\ \A k \in 1 .. Len(q.nacks) : k <= v <=> q.nacks[k].sn < new.sn
      /\ \A m \in 1 .. Len(p.nacks) :
            \/ p.nacks[m] = new /\ Len(p.nacks) - m = Len(q.nacks) - v
            \/ \E k \in 1 .. Len(q.nacks) :
                  p.nacks[m] = q.nacks[k] /\ Len(p.nacks) - m <= Len(q.nacks) - k + 1
      /\ \A k \in 1 .. Len(q.nacks) :
            \/ \E m \in 1 .. Len(p.nacks) : p.nacks[m] = q.nacks[k]
            \/ k = 1 /\ Len(q.nacks) >= MaxNackCache
      /\ \/ \E m \in 1 .. Len(p.nacks) : p.nacks[m] = new
         \/ v = 0 /\ Len(q.nacks) >= MaxNackCache

\* push of a number that the queue does not hold.
LEMMA PushNackIs ==
  ASSUME NEW q \in NackQueues, NEW sn \in 1 .. Modulus - 1,
         q.maxSN < Modulus, 2 * (q.maxSN - sn) < Modulus,
         q.cycles = 0, Ascending(q.nacks),
         \A k \in 1 .. Len(q.nacks) : q.nacks[k].sn # sn,
         NEW p, p = PushNack(q, sn), NEW new, new = [sn |-> sn, nacked |-> 0]
  PROVE  /\ p \in NackQueues /\ p.cycles = 0 /\ p.maxSN \in {q.maxSN, sn}
         /\ p.counter = q.counter + 1
         /\ Ascending(p.nacks)
         /\ Inserted(p, q, new)
  <1> DEFINE a == Advance(q, sn)
  <1>0. Modulus \in Nat \ {0} /\ MaxNackCache \in Nat \ {0} /\ MaxNackTimes \in Nat \ {0} /\ sn \in Nat
    BY NumberConstants
  <1>1. a \in NackQueues /\ a.nacks = q.nacks /\ a.cycles = 0 /\ a.maxSN \in {q.maxSN, sn} /\ a.counter = q.counter
    BY <1>0, AdvanceType, NoCycle
  <1>2. PICK L \in Nat : L = Len(q.nacks) /\ DOMAIN q.nacks = 1 .. L
    BY LenProperties DEF NackQueues
  <1>3. q.nacks \in Seq(NackEntries) /\ q.counter \in Nat
    BY DEF NackQueues
  <1>4. \A k \in 1 .. L : q.nacks[k] \in NackEntries
    BY <1>2, <1>3, ElementOfSeq
  <1>5. new \in NackEntries /\ new.sn = sn
    BY <1>0 DEF NackEntries
  <1>6. PICK v \in 0 .. L : v = Before(a, sn) /\ \A k \in 1 .. L : k <= v <=> q.nacks[k].sn < sn
    <2>1. Ascending(a.nacks)
      BY <1>1
    <2>2. /\ Before(a, sn) \in 0 .. Len(a.nacks)
          /\ \A k \in 1 .. Len(a.nacks) : k <= Before(a, sn) <=> a.nacks[k].sn < sn
      BY <1>0, <1>1, <2>1, BeforeIs
    <2>3. QED
      BY <1>1, <1>2, <2>2
  <1>7. a.cycles + sn = sn /\ ~Holds(a, sn)
    BY <1>0, <1>1, <1>2 DEF Holds
  <1> DEFINE n == InsertAt(q.nacks, v + 1, new)
             t == IF Len(n) > MaxNackCache THEN Tail(n) ELSE n
  <1>8. p = [a EXCEPT !.nacks = t, !.counter = a.counter + 1]
    BY <1>1, <1>6, <1>7 DEF PushNack
  <1> HIDE DEF a
  <1>9. /\ n \in Seq(NackEntries) /\ Len(n) = L + 1
        /\ \A k \in 1 .. L + 1 :
              n[k] = IF k < v + 1 THEN q.nacks[k] ELSE IF k = v + 1 THEN new ELSE q.nacks[k - 1]
    <2>1. PICK i \in 1 .. Len(q.nacks) + 1 : i = v + 1
      BY <1>2
    <2>2. /\ n \in Seq(NackEntries) /\ Len(n) = Len(q.nacks) + 1
          /\ \A k \in 1 .. Len(q.nacks) + 1 :
                n[k] = IF k < i THEN q.nacks[k] ELSE IF k = i THEN new ELSE q.nacks[k - 1]
      <3>1. /\ InsertAt(q.nacks, i, new) \in Seq(NackEntries)
            /\ Len(InsertAt(q.nacks, i, new)) = Len(q.nacks) + 1
            /\ \A k \in 1 .. Len(q.nacks) + 1 : InsertAt(q.nacks, i, new)[k] =
                  IF k < i THEN q.nacks[k] ELSE IF k = i THEN new ELSE q.nacks[k - 1]
        <4>1. PICK s \in Seq(NackEntries), e \in NackEntries : s = q.nacks /\ e = new
          BY <1>3, <1>5
        <4>2. i \in 1 .. Len(s) + 1
          BY <4>1
        <4>3. /\ InsertAt(s, i, e) \in Seq(NackEntries)
              /\ Len(InsertAt(s, i, e)) = Len(s) + 1
              /\ \A k \in 1 .. Len(s) + 1 : InsertAt(s, i, e)[k] =
                    IF k < i THEN s[k] ELSE IF k = i THEN e ELSE s[k - 1]
          BY <4>2, InsertIs
        <4>4. QED
          BY <4>1, <4>3
      <3>2. n = InsertAt(q.nacks, i, new)
        BY <2>1
      <3>3. QED
        BY <3>1, <3>2
    <2> HIDE DEF n
    <2>3. QED
      BY <1>2, <2>1, <2>2
  <1> HIDE DEF n
  <1>10. Tail(n) \in Seq(NackEntries) /\ Len(Tail(n)) = L /\ \A k \in 1 .. L : Tail(n)[k] = n[k + 1]
    <2>1. n # <<>>
      BY <1>9
    <2>2. /\ Tail(n) \in Seq(NackEntries) /\ Len(Tail(n)) = Len(n) - 1
          /\ \A k \in 1 .. Len(Tail(n)) : Tail(n)[k] = n[k + 1]
      BY <1>9, <2>1, HeadTailProperties
    <2>3. QED
      BY <1>9, <2>2
  <1>11. PICK d \in {0, 1} : d = IF L + 1 > MaxNackCache THEN 1 ELSE 0
    OBVIOUS
  <1>12. t \in Seq(NackEntries) /\ Len(t) = L + 1 - d /\ \A k \in 1 .. L + 1 - d : t[k] = n[k + d]
    BY <1>9, <1>10, <1>11
  <1> HIDE DEF t
  <1>13. p \in NackQueues /\ p.cycles = 0 /\ p.maxSN \in {q.maxSN, sn} /\ p.counter = q.counter + 1 /\ p.nacks = t
    <2>1. PICK c \in Nat : c = a.counter + 1
      BY <1>1, <1>3
    <2>2. p = [a EXCEPT !.nacks = t, !.counter = c]
      BY <1>8, <2>1
    <2>3. p \in NackQueues /\ p.cycles = a.cycles /\ p.maxSN = a.maxSN /\ p.counter = c /\ p.nacks = t
      BY <1>1, <1>12, <2>2 DEF NackQueues
    <2>4. QED
      BY <1>1, <2>1, <2>3
  <1>14. \A k \in 1 .. L : q.nacks[k].sn \in Nat
    BY <1>4 DEF NackEntries
  <1>15. ASSUME NEW j \in 1 .. L + 1, NEW k \in 1 .. L + 1, j < k
         PROVE  n[j].sn < n[k].sn \/ (n[j].sn = 0 /\ n[k].sn = 0)
    <2>1. CASE k <= v
      <3>1. n[j] = q.nacks[j] /\ n[k] = q.nacks[k] /\ j \in 1 .. L /\ k \in 1 .. L
        BY <1>9, <1>15, <2>1
      <3>2. QED
        BY <1>2, <1>15, <3>1 DEF Ascending
    <2>2. CASE k = v + 1
      BY <1>5, <1>6, <1>9, <1>15, <2>2
    <2>3. CASE k > v + 1 /\ j <= v
      <3>1. n[j] = q.nacks[j] /\ n[k] = q.nacks[k - 1] /\ j \in 1 .. L /\ k - 1 \in 1 .. L /\ j < k - 1
        <4>1. j \in 1 .. L /\ k - 1 \in 1 .. L /\ j < k - 1 /\ j < v + 1 /\ ~(k < v + 1) /\ k # v + 1
          BY <2>3
        <4>2. QED
          BY <1>9, <4>1
      <3>2. QED
        BY <1>2, <3>1 DEF Ascending
    <2>4. CASE k > v + 1 /\ j = v + 1
      <3>1. n[j] = new /\ n[k] = q.nacks[k - 1] /\ k - 1 \in 1 .. L /\ ~(k - 1 <= v)
        BY <1>9, <2>4
      <3>2. ~(q.nacks[k - 1].sn < sn) /\ q.nacks[k - 1].sn # sn /\ q.nacks[k - 1].sn \in Nat
        BY <1>2, <1>6, <1>14, <3>1
      <3>3. QED
        BY <1>0, <1>5, <3>1, <3>2
    <2>5. CASE k > v + 1 /\ j > v + 1
      <3>1. n[j] = q.nacks[j - 1] /\ n[k] = q.nacks[k - 1] /\ j - 1 \in 1 .. L /\ k - 1 \in 1 .. L /\ j - 1 < k - 1
        <4>1. /\ j - 1 \in 1 .. L /\ k - 1 \in 1 .. L /\ j - 1 < k - 1
              /\ ~(j < v + 1) /\ j # v + 1 /\ ~(k < v + 1) /\ k # v + 1
          BY <1>15, <2>5
        <4>2. QED
          BY <1>9, <4>1
      <3>2. QED
        BY <1>2, <3>1, ZenonT(60) DEF Ascending
    <2>6. QED
      BY <2>1, <2>2, <2>3, <2>4, <2>5
  <1>16. Ascending(t)
    <2>1. DOMAIN t = 1 .. L + 1 - d
      BY <1>12, LenProperties
    <2>2. ASSUME NEW j \in 1 .. L + 1 - d, NEW k \in 1 .. L + 1 - d, j < k
          PROVE  t[j].sn < t[k].sn \/ (t[j].sn = 0 /\ t[k].sn = 0)
      <3>1. t[j] = n[j + d] /\ t[k] = n[k + d]
        BY <1>12
      <3>2. j + d \in 1 .. L + 1 /\ k + d \in 1 .. L + 1 /\ j + d < k + d
        BY <2>2
      <3>3. QED
        BY <1>15, <3>1, <3>2
    <2>3. QED
      BY <2>1, <2>2 DEF Ascending
  <1>17. ASSUME NEW m \in 1 .. L + 1 - d
         PROVE  \/ t[m] = new /\ L + 1 - d - m = L - v
                \/ \E k \in 1 .. L : t[m] = q.nacks[k] /\ L + 1 - d - m <= L - k + 1
    <2>1. PICK j \in 1 .. L + 1 : j = m + d /\ t[m] = n[j]
      <3>1. m + d \in 1 .. L + 1
        OBVIOUS
      <3>2. QED
        BY <1>12, <3>1
    <2>2. CASE j < v + 1
      <3>1. j \in 1 .. L /\ t[m] = q.nacks[j] /\ L + 1 - d - m <= L - j + 1
        BY <1>9, <2>1, <2>2
      <3>2. QED
        BY <3>1
    <2>3. CASE j = v + 1
      BY <1>9, <2>1, <2>3
    <2>4. CASE j > v + 1
      <3>1. j - 1 \in 1 .. L /\ t[m] = q.nacks[j - 1] /\ L + 1 - d - m <= L - (j - 1) + 1
        <4>1. j - 1 \in 1 .. L /\ L + 1 - d - m <= L - (j - 1) + 1
          BY <2>1, <2>4
        <4>2. n[j] = q.nacks[j - 1]
          BY <1>9, <2>1, <2>4
        <4>3. QED
          BY <2>1, <4>1, <4>2
      <3>2. QED
        BY <3>1
    <2>5. QED
      BY <2>2, <2>3, <2>4
  <1>18. ASSUME NEW k \in 1 .. L
         PROVE  (\E m \in 1 .. L + 1 - d : t[m] = q.nacks[k]) \/ (k = 1 /\ L >= MaxNackCache)
    <2>1. CASE k <= v /\ k - d >= 1
      <3>1. k - d \in 1 .. L + 1 - d /\ (k - d) + d = k
        BY <2>1
      <3>2. t[k - d] = n[k] /\ n[k] = q.nacks[k]
        <4>1. t[k - d] = n[(k - d) + d]
          BY <1>12, <3>1
        <4>2. n[k] = q.nacks[k]
          BY <1>9, <2>1
        <4>3. QED
          BY <3>1, <4>1, <4>2
      <3>3. QED
        BY <3>1, <3>2
    <2>2. CASE k <= v /\ k - d < 1
      BY <1>0, <1>11, <2>2
    <2>3. CASE k > v
      <3>1. k + 1 - d \in 1 .. L + 1 - d /\ (k + 1 - d) + d = k + 1 /\ k + 1 \in 1 .. L + 1 /\ (k + 1) - 1 = k
        OBVIOUS
      <3>2. t[k + 1 - d] = n[k + 1] /\ n[k + 1] = q.nacks[k]
        <4>1. t[k + 1 - d] = n[(k + 1 - d) + d]
          BY <1>12, <3>1
        <4>2. n[k + 1] = q.nacks[(k + 1) - 1]
          BY <1>9, <2>3, <3>1
        <4>3. QED
          BY <3>1, <4>1, <4>2
      <3>3. QED
        BY <3>1, <3>2
    <2>4. QED
      BY <2>1, <2>2, <2>3
  <1>19. (\E m \in 1 .. L + 1 - d : t[m] = new) \/ (v = 0 /\ L >= MaxNackCache)
    <2>1. CASE v + 1 - d >= 1
      <3>1. v + 1 - d \in 1 .. L + 1 - d /\ (v + 1 - d) + d = v + 1 /\ v + 1 \in 1 .. L + 1
        BY <2>1
      <3>2. t[v + 1 - d] = n[v + 1] /\ n[v + 1] = new
        BY <1>9, <1>12, <3>1
      <3>3. QED
        BY <3>1, <3>2
    <2>2. CASE v + 1 - d < 1
      BY <1>0, <1>11, <2>2
    <2>3. QED
      BY <2>1, <2>2
  <1>20. Len(p.nacks) = L + 1 - d
    BY <1>12, <1>13
  <1>21. QED
    <2>1. /\ \A k \in 1 .. Len(q.nacks) : k <= v <=> q.nacks[k].sn < sn
          /\ \A m \in 1 .. Len(p.nacks) :
                \/ p.nacks[m] = new /\ Len(p.nacks) - m = Len(q.nacks) - v
                \/ \E k \in 1 .. Len(q.nacks) :
                      p.nacks[m] = q.nacks[k] /\ Len(p.nacks) - m <= Len(q.nacks) - k + 1
          /\ \A k \in 1 .. Len(q.nacks) :
                \/ \E m \in 1 .. Len(p.nacks) : p.nacks[m] = q.nacks[k]
                \/ k = 1 /\ Len(q.nacks) >= MaxNackCache
          /\ \/ \E m \in 1 .. Len(p.nacks) : p.nacks[m] = new
             \/ v = 0 /\ Len(q.nacks) >= MaxNackCache
      BY <1>2, <1>5, <1>6, <1>13, <1>17, <1>18, <1>19, <1>20
    <2>2. v \in 0 .. Len(q.nacks) /\ Ascending(p.nacks)
      BY <1>2, <1>13, <1>16
    <2>3. Inserted(p, q, new)
      BY <1>5, <2>1, <2>2 DEF Inserted
    <2>4. QED
      BY <1>13, <2>2, <2>3

\* Behind the entries of q come those that were pushed; with each of them one more
\* entry is behind an entry of q.
PushedOK(f, q, sn, j) ==
    /\ f[j] \in NackQueues /\ f[j].cycles = 0 /\ f[j].counter = q.counter + j
    /\ Ascending(f[j].nacks) /\ f[j].maxSN < sn
    /\ \A m \in 1 .. Len(f[j].nacks) :
          \/ \E k \in 1 .. Len(q.nacks) :
                f[j].nacks[m] = q.nacks[k] /\ Len(f[j].nacks) - m <= Len(q.nacks) - k + j
          \/ /\ Len(f[j].nacks) - m < j
             /\ \E t \in 1 .. j : f[j].nacks[m] = [sn |-> sn - t, nacked |-> 0]

\* Only the first entry is lost in a step, and only when the queue is full.
StepKeeps(f, sn, j) ==
    /\ \A k \in 1 .. Len(f[j].nacks) :
          \/ \E m \in 1 .. Len(f[j + 1].nacks) : f[j + 1].nacks[m] = f[j].nacks[k]
          \/ k = 1 /\ Len(f[j].nacks) >= MaxNackCache
    /\ \/ \E m \in 1 .. Len(f[j + 1].nacks) : f[j + 1].nacks[m] = [sn |-> sn - (j + 1), nacked |-> 0]
       \/ Len(f[j].nacks) >= MaxNackCache /\ Len(f[j].nacks) <= j

\* The queue before a batch of numbers above h.
BelowHead(q, h) ==
    /\ q \in NackQueues /\ q.cycles = 0 /\ q.maxSN <= h /\ Ascending(q.nacks)
    /\ \A k \in 1 .. Len(q.nacks) : q.nacks[k].sn <= h

LEMMA MinusSmall ==
  ASSUME NEW sn \in Nat, NEW k \in Nat, sn < Modulus, k <= sn, k > 0
  PROVE  Minus(sn, k) = sn - k
  <1>1. Modulus \in Nat \ {0}
    BY NumberConstants
  <1>2. PICK r \in 0 .. Modulus - 1, one \in Int, x \in Int : r = sn - k /\ one = 1 /\ x = Modulus + sn - k
    BY <1>1
  <1>3. x = Modulus * one + r
    BY <1>1, <1>2
  <1>4. x % Modulus = r
    BY <1>1, <1>3, ModUnique
  <1>5. QED
    BY <1>2, <1>4 DEF Minus

LEMMA PushedStep ==
  ASSUME NEW q, NEW h \in Nat, NEW sn \in Nat, NEW n \in Nat, h + n < sn, sn < Modulus, 2 * n < Modulus,
         BelowHead(q, h), NEW f, PushedFrom(f, q, sn, n),
         NEW j \in Nat, j < n, PushedOK(f, q, sn, j)
  PROVE  PushedOK(f, q, sn, j + 1) /\ StepKeeps(f, sn, j)
  <1>0. PICK H \in Nat : H = Modulus \div 2 /\ Modulus = 2 * H /\ Modulus \in Nat \ {0} /\ MaxNackCache \in Nat \ {0}
    BY NumberConstants
  <1>1. PICK x \in 1 .. Modulus - 1 : x = sn - (j + 1) /\ h < x
    BY <1>0
  <1>2. PICK p, c : p = f[j + 1] /\ c = f[j]
    OBVIOUS
  <1>3. p = PushNack(c, x)
    <2>1. j + 1 \in 1 .. n /\ (j + 1) - 1 = j
      OBVIOUS
    <2>2. p = PushNack(c, Minus(sn, j + 1))
      BY <1>2, <2>1 DEF PushedFrom
    <2>3. Minus(sn, j + 1) = x
      BY <1>1, <2>1, MinusSmall
    <2>4. QED
      BY <2>2, <2>3
  <1>4. /\ c \in NackQueues /\ c.cycles = 0 /\ c.counter = q.counter + j /\ Ascending(c.nacks) /\ c.maxSN < sn
        /\ \A m \in 1 .. Len(c.nacks) :
              \/ \E k \in 1 .. Len(q.nacks) : c.nacks[m] = q.nacks[k] /\ Len(c.nacks) - m <= Len(q.nacks) - k + j
              \/ /\ Len(c.nacks) - m < j
                 /\ \E t \in 1 .. j : c.nacks[m] = [sn |-> sn - t, nacked |-> 0]
    BY <1>2 DEF PushedOK
  <1>5. q.counter \in Nat /\ Len(q.nacks) \in Nat /\ \A k \in 1 .. Len(q.nacks) : q.nacks[k].sn \in Nat /\ q.nacks[k].sn <= h
    <2>1. q.nacks \in Seq(NackEntries) /\ q.counter \in Nat
      BY DEF BelowHead, NackQueues
    <2>2. ASSUME NEW k \in 1 .. Len(q.nacks) PROVE q.nacks[k] \in NackEntries
      BY <2>1, <2>2, ElementOfSeq
    <2>3. \A k \in 1 .. Len(q.nacks) : q.nacks[k].sn <= h
      BY DEF BelowHead
    <2>4. \A e \in NackEntries : e.sn \in Nat
      BY DEF NackEntries
    <2>5. Len(q.nacks) \in Nat
      BY <2>1, LenProperties
    <2>6. QED
      BY <2>1, <2>2, <2>3, <2>4, <2>5
  <1>6. c.maxSN \in Nat /\ Len(c.nacks) \in Nat
    BY <1>4, LenProperties DEF NackQueues
  <1>7. c.maxSN < Modulus /\ 2 * (c.maxSN - x) < Modulus
    BY <1>0, <1>1, <1>4, <1>6
  <1>8. \A m \in 1 .. Len(c.nacks) : c.nacks[m].sn # x /\ (~(c.nacks[m].sn < x) => Len(c.nacks) - m < j)
    <2>1. ASSUME NEW m \in 1 .. Len(c.nacks), NEW k \in 1 .. Len(q.nacks), c.nacks[m] = q.nacks[k]
          PROVE  c.nacks[m].sn # x /\ c.nacks[m].sn < x
      <3>1. PICK y \in Nat : y = q.nacks[k].sn /\ y <= h
        BY <1>5
      <3>2. c.nacks[m].sn = y
        BY <2>1, <3>1
      <3>3. QED
        BY <1>1, <3>1, <3>2, SMTT(40)
    <2>2. ASSUME NEW m \in 1 .. Len(c.nacks), NEW t \in 1 .. j, c.nacks[m] = [sn |-> sn - t, nacked |-> 0]
          PROVE  c.nacks[m].sn # x
      <3>1. c.nacks[m].sn = sn - t
        BY <2>2
      <3>2. QED
        BY <1>1, <3>1
    <2>3. QED
      BY <1>4, <2>1, <2>2
  <1>n. PICK new : new = [sn |-> x, nacked |-> 0]
    OBVIOUS
  <1>9. /\ p \in NackQueues /\ p.cycles = 0 /\ p.maxSN \in {c.maxSN, x}
        /\ p.counter = c.counter + 1
        /\ Ascending(p.nacks)
        /\ Inserted(p, c, new)
    <2>1. \A k \in 1 .. Len(c.nacks) : c.nacks[k].sn # x
      BY <1>8
    <2>2. QED
      <3>1. c \in NackQueues /\ c.cycles = 0 /\ Ascending(c.nacks) /\ c.maxSN < Modulus /\ 2 * (c.maxSN - x) < Modulus
        BY <1>4, <1>7
      <3>2. QED
        BY <1>1, <1>3, <1>n, <2>1, <3>1, PushNackIs, SMTT(40)
  <1>10. PICK v \in 0 .. Len(c.nacks) :
           /\ \A k \in 1 .. Len(c.nacks) : k <= v <=> c.nacks[k].sn < x
           /\ \A m \in 1 .. Len(p.nacks) :
                 \/ p.nacks[m] = new /\ Len(p.nacks) - m = Len(c.nacks) - v
                 \/ \E k \in 1 .. Len(c.nacks) :
                       p.nacks[m] = c.nacks[k] /\ Len(p.nacks) - m <= Len(c.nacks) - k + 1
           /\ \A k \in 1 .. Len(c.nacks) :
                 \/ \E m \in 1 .. Len(p.nacks) : p.nacks[m] = c.nacks[k]
                 \/ k = 1 /\ Len(c.nacks) >= MaxNackCache
           /\ \/ \E m \in 1 .. Len(p.nacks) : p.nacks[m] = new
              \/ v = 0 /\ Len(c.nacks) >= MaxNackCache
    BY <1>9, <1>n DEF Inserted
  <1>11. Len(c.nacks) - v <= j
    <2>1. CASE v = Len(c.nacks)
      BY <1>6, <2>1
    <2>2. CASE v < Len(c.nacks)
      <3>1. v + 1 \in 1 .. Len(c.nacks) /\ ~(v + 1 <= v)
        BY <1>6, <2>2
      <3>2. ~(c.nacks[v + 1].sn < x)
        BY <1>10, <3>1
      <3>3. Len(c.nacks) - (v + 1) < j
        BY <1>8, <3>1, <3>2
      <3>4. QED
        BY <1>6, <3>3
    <2>3. QED
      BY <1>6, <2>1, <2>2
  <1>12. ASSUME NEW m \in 1 .. Len(p.nacks)
         PROVE  \/ \E k \in 1 .. Len(q.nacks) :
                      p.nacks[m] = q.nacks[k] /\ Len(p.nacks) - m <= Len(q.nacks) - k + (j + 1)
                \/ /\ Len(p.nacks) - m < j + 1
                   /\ \E t \in 1 .. j + 1 : p.nacks[m] = [sn |-> sn - t, nacked |-> 0]
    <2>0. PICK lp \in Nat : lp = Len(p.nacks)
      BY <1>9, LenProperties DEF NackQueues
    <2>1. CASE p.nacks[m] = new /\ Len(p.nacks) - m = Len(c.nacks) - v
      <3>1. j + 1 \in 1 .. j + 1 /\ p.nacks[m] = [sn |-> sn - (j + 1), nacked |-> 0]
        BY <1>1, <1>n, <2>1
      <3>2. Len(p.nacks) - m < j + 1
        BY <1>6, <1>11, <2>1, SMTT(40)
      <3>3. QED
        BY <3>1, <3>2
    <2>2. ASSUME NEW l \in 1 .. Len(c.nacks), p.nacks[m] = c.nacks[l], Len(p.nacks) - m <= Len(c.nacks) - l + 1
          PROVE  \/ \E k \in 1 .. Len(q.nacks) :
                       p.nacks[m] = q.nacks[k] /\ Len(p.nacks) - m <= Len(q.nacks) - k + (j + 1)
                 \/ /\ Len(p.nacks) - m < j + 1
                    /\ \E t \in 1 .. j + 1 : p.nacks[m] = [sn |-> sn - t, nacked |-> 0]
      <3>1. ASSUME NEW k \in 1 .. Len(q.nacks), c.nacks[l] = q.nacks[k], Len(c.nacks) - l <= Len(q.nacks) - k + j
            PROVE  p.nacks[m] = q.nacks[k] /\ Len(p.nacks) - m <= Len(q.nacks) - k + (j + 1)
        <4>1. Len(p.nacks) - m <= Len(q.nacks) - k + (j + 1)
          <5>1. PICK lc \in Int, lq \in Int, mm \in Int, ll \in Int, kk \in Int :
                  lc = Len(c.nacks) /\ lq = Len(q.nacks) /\ mm = m /\ ll = l /\ kk = k
            BY <1>5, <1>6, <2>0, SMTT(40)
          <5>2. lp - mm <= lc - ll + 1 /\ lc - ll <= lq - kk + j
            BY <2>0, <2>2, <3>1, <5>1
          <5>3. lp - mm <= lq - kk + (j + 1)
            BY <5>2
          <5>4. QED
            BY <2>0, <5>1, <5>3
        <4>2. QED
          BY <2>2, <3>1, <4>1
      <3>2. ASSUME Len(c.nacks) - l < j, NEW t \in 1 .. j, c.nacks[l] = [sn |-> sn - t, nacked |-> 0]
            PROVE  Len(p.nacks) - m < j + 1 /\ t \in 1 .. j + 1 /\ p.nacks[m] = [sn |-> sn - t, nacked |-> 0]
        <4>1. Len(p.nacks) - m < j + 1
          <5>1. PICK lc \in Int, mm \in Int, ll \in Int : lc = Len(c.nacks) /\ mm = m /\ ll = l
            BY <1>6, <2>0
          <5>2. lp - mm <= lc - ll + 1 /\ lc - ll < j
            BY <2>0, <2>2, <3>2, <5>1
          <5>3. lp - mm < j + 1
            BY <5>2
          <5>4. QED
            BY <2>0, <5>1, <5>3
        <4>2. t \in 1 .. j + 1
          OBVIOUS
        <4>3. QED
          BY <2>2, <3>2, <4>1, <4>2
      <3>3. QED
        BY <1>4, <3>1, <3>2
    <2>3. QED
      BY <1>10, <2>1, <2>2
  <1>13. PushedOK(f, q, sn, j + 1)
    <2>1. p.maxSN < sn
      <3>1. x < sn
        BY <1>1
      <3>2. QED
        BY <1>4, <1>9, <3>1
    <2>2. p.counter = q.counter + (j + 1)
      <3>1. PICK qc \in Nat : qc = q.counter
        BY <1>5
      <3>2. p.counter = (qc + j) + 1
        BY <1>4, <1>9, <3>1
      <3>3. (qc + j) + 1 = qc + (j + 1)
        BY <3>1, SMTT(40)
      <3>4. QED
        BY <3>1, <3>2, <3>3
    <2>3. p \in NackQueues /\ p.cycles = 0 /\ Ascending(p.nacks)
      BY <1>9
    <2>4. QED
      BY <1>2, <1>12, <2>1, <2>2, <2>3 DEF PushedOK
  <1>14. \A k \in 1 .. Len(f[j].nacks) :
               \/ \E m \in 1 .. Len(f[j + 1].nacks) : f[j + 1].nacks[m] = f[j].nacks[k]
               \/ k = 1 /\ Len(f[j].nacks) >= MaxNackCache
    BY <1>2, <1>10
  <1>15. \/ \E m \in 1 .. Len(f[j + 1].nacks) : f[j + 1].nacks[m] = [sn |-> sn - (j + 1), nacked |-> 0]
         \/ Len(f[j].nacks) >= MaxNackCache /\ Len(f[j].nacks) <= j
    <2>1. CASE \E m \in 1 .. Len(p.nacks) : p.nacks[m] = new
      BY <1>1, <1>2, <1>n, <2>1
    <2>2. CASE v = 0 /\ Len(c.nacks) >= MaxNackCache
      BY <1>2, <1>6, <1>11, <2>2
    <2>3. QED
      BY <1>10, <2>1, <2>2
  <1>16. QED
    BY <1>13, <1>14, <1>15 DEF StepKeeps

LEMMA PushedAll ==
  ASSUME NEW q, NEW h \in Nat, NEW sn \in Nat, NEW n \in Nat, h + n < sn, sn < Modulus, 2 * n < Modulus,
         BelowHead(q, h), NEW f, PushedFrom(f, q, sn, n)
  PROVE  \A j \in 0 .. n : PushedOK(f, q, sn, j)
  <1> DEFINE U == {j \in 0 .. n : ~PushedOK(f, q, sn, j)}
  <1>1. PushedOK(f, q, sn, 0)
    <2>1. f[0] = q /\ q \in NackQueues /\ q.cycles = 0 /\ q.maxSN <= h /\ Ascending(q.nacks)
      BY DEF PushedFrom, BelowHead
    <2>2. q.counter \in Nat /\ q.maxSN \in Nat /\ Len(q.nacks) \in Nat
      BY <2>1, LenProperties DEF NackQueues
    <2>3. q.counter = q.counter + 0 /\ q.maxSN < sn
      BY <2>1, <2>2
    <2>4. \A m \in 1 .. Len(q.nacks) : q.nacks[m] = q.nacks[m] /\ Len(q.nacks) - m <= Len(q.nacks) - m + 0
      BY <2>2
    <2>5. QED
      BY <2>1, <2>3, <2>4 DEF PushedOK
  <1>2. ASSUME U # {} PROVE FALSE
    <2>1. U \subseteq Nat
      OBVIOUS
    <2>2. PICK m \in U : \A l \in U : m <= l
      BY <1>2, <2>1, LeastNumber
    <2>3. m \in 0 .. n /\ ~PushedOK(f, q, sn, m) /\ m # 0
      BY <1>1, <2>2
    <2>4. PICK j \in Nat : j = m - 1 /\ j < n /\ m = j + 1
      BY <2>3
    <2>5. j \in 0 .. n /\ j \notin U
      BY <2>2, <2>4
    <2>6. PushedOK(f, q, sn, j)
      BY <2>5
    <2>7. PushedOK(f, q, sn, j + 1)
      BY <2>4, <2>6, PushedStep
    <2>8. QED
      BY <2>3, <2>4, <2>7
  <1>3. QED
    BY <1>2

LEMMA OneMore ==
  ASSUME NEW a \in Nat, NEW z \in Nat, NEW g \in Nat, a < z
  PROVE  a * g \in Nat /\ z * g \in Nat /\ a * g + g <= z * g
  <1>1. PICK d \in Nat : z = a + 1 + d
    <2>1. z - a - 1 \in Nat /\ z = a + 1 + (z - a - 1)
      OBVIOUS
    <2>2. QED
      BY <2>1
  <1>2. z * g = a * g + g + d * g
    BY <1>1
  <1>3. d * g \in Nat /\ a * g \in Nat
    OBVIOUS
  <1>4. QED
    BY <1>2, <1>3

\* The entries behind an entry, w of which were pushed after the last round.
Room(q, w) ==
    \A k \in 1 .. Len(q.nacks) :
        q.nacks[k].sn # 0 => Len(q.nacks) - k < q.nacks[k].nacked * MaxGap + w

\* The queue is long enough for what is lost while a packet is asked for.
LongEnough == MaxNackTimes * MaxGap <= MaxNackCache

PushedKeeps(f, q, sn, j) ==
    /\ \A k \in 1 .. Len(q.nacks) :
          q.nacks[k].sn # 0 /\ q.nacks[k].nacked < MaxNackTimes =>
              \E m \in 1 .. Len(f[j].nacks) : f[j].nacks[m] = q.nacks[k]
    /\ \A t \in 1 .. j : \E m \in 1 .. Len(f[j].nacks) : f[j].nacks[m] = [sn |-> sn - t, nacked |-> 0]

LEMMA PushedKept ==
  ASSUME NEW q, NEW h \in Nat, NEW sn \in Nat, NEW n \in Nat, h + n < sn, sn < Modulus, 2 * n < Modulus,
         BelowHead(q, h), NEW f, PushedFrom(f, q, sn, n),
         LongEnough, NEW w \in {0, 1}, n + w <= MaxGap, Room(q, w)
  PROVE  \A j \in 0 .. n : PushedKeeps(f, q, sn, j)
  <1> DEFINE U == {j \in 0 .. n : ~PushedKeeps(f, q, sn, j)}
  <1>0. MaxGap \in Nat \ {0} /\ MaxNackTimes \in Nat \ {0} /\ MaxNackCache \in Nat \ {0}
    BY NumberConstants
  <1>a. q \in NackQueues /\ f[0] = q /\ q.nacks \in Seq(NackEntries) /\ Len(q.nacks) \in Nat
    BY LenProperties DEF BelowHead, PushedFrom, NackQueues
  <1>v. \A k \in 1 .. Len(q.nacks) : q.nacks[k].nacked \in Nat
    <2>1. ASSUME NEW k \in 1 .. Len(q.nacks) PROVE q.nacks[k] \in NackEntries
      BY <1>a, <2>1, ElementOfSeq
    <2>2. QED
      BY <1>0, <2>1 DEF NackEntries
  <1>1. PushedKeeps(f, q, sn, 0)
    BY <1>a DEF PushedKeeps
  <1>2. ASSUME NEW j \in Nat, j < n, PushedKeeps(f, q, sn, j)
        PROVE  PushedKeeps(f, q, sn, j + 1)
    <2>1. PICK c, p : c = f[j] /\ p = f[j + 1]
      OBVIOUS
    <2>2. PushedOK(f, q, sn, j)
      <3>1. j \in 0 .. n
        BY <1>2
      <3>2. QED
        BY <3>1, PushedAll
    <2>3. /\ c \in NackQueues
          /\ \A m \in 1 .. Len(c.nacks) :
                \/ \E k \in 1 .. Len(q.nacks) : c.nacks[m] = q.nacks[k] /\ Len(c.nacks) - m <= Len(q.nacks) - k + j
                \/ /\ Len(c.nacks) - m < j
                   /\ \E t \in 1 .. j : c.nacks[m] = [sn |-> sn - t, nacked |-> 0]
      BY <2>1, <2>2 DEF PushedOK
    <2>4. PICK l \in Nat : l = Len(c.nacks)
      BY <2>3, LenProperties DEF NackQueues
    <2>5. /\ \A k \in 1 .. l : \/ \E m \in 1 .. Len(p.nacks) : p.nacks[m] = c.nacks[k]
                               \/ k = 1 /\ l >= MaxNackCache
          /\ \/ \E m \in 1 .. Len(p.nacks) : p.nacks[m] = [sn |-> sn - (j + 1), nacked |-> 0]
             \/ l >= MaxNackCache /\ l <= j
      <3>1. StepKeeps(f, sn, j)
        BY <1>2, <2>2, PushedStep
      <3>2. QED
        BY <2>1, <2>4, <3>1 DEF StepKeeps
    <2>6. j < MaxNackCache
      <3>1. 0 * MaxGap + MaxGap <= MaxNackTimes * MaxGap
        BY <1>0, OneMore
      <3>2. PICK y \in Nat : y = MaxNackTimes * MaxGap
        BY <1>0
      <3>3. MaxGap <= y /\ y <= MaxNackCache
        BY <1>0, <3>1, <3>2 DEF LongEnough
      <3>4. QED
        BY <1>0, <1>2, <3>3
    <2>7. \E m \in 1 .. Len(p.nacks) : p.nacks[m] = [sn |-> sn - (j + 1), nacked |-> 0]
      BY <1>0, <2>5, <2>6
    <2>8. ASSUME NEW k \in 1 .. Len(q.nacks), q.nacks[k].sn # 0, q.nacks[k].nacked < MaxNackTimes
          PROVE  Len(q.nacks) - k + j + 1 < MaxNackCache
      <3>1. PICK a \in Nat, lq \in Int, kk \in Int : a = q.nacks[k].nacked /\ lq = Len(q.nacks) /\ kk = k
        BY <1>a, <1>v
      <3>2. lq - kk < a * MaxGap + w
        BY <2>8, <3>1 DEF Room
      <3>3. PICK y \in Nat, z \in Nat : y = a * MaxGap /\ z = MaxNackTimes * MaxGap /\ y + MaxGap <= z
        BY <1>0, <2>8, <3>1, OneMore
      <3>4. z <= MaxNackCache /\ lq - kk < y + w
        BY <3>2, <3>3 DEF LongEnough
      <3>5. lq - kk + j + 1 < MaxNackCache
        BY <1>0, <1>2, <3>3, <3>4
      <3>6. QED
        BY <3>1, <3>5
    <2>9. ASSUME NEW k \in 1 .. Len(q.nacks), q.nacks[k].sn # 0, q.nacks[k].nacked < MaxNackTimes
          PROVE  \E m \in 1 .. Len(p.nacks) : p.nacks[m] = q.nacks[k]
      <3>1. PICK m \in 1 .. l : c.nacks[m] = q.nacks[k]
        BY <1>2, <2>1, <2>4, <2>9 DEF PushedKeeps
      <3>2. ASSUME m = 1, l >= MaxNackCache PROVE FALSE
        <4>1. ASSUME NEW kk \in 1 .. Len(q.nacks), c.nacks[m] = q.nacks[kk], l - m <= Len(q.nacks) - kk + j
              PROVE  FALSE
          <5>1. Len(q.nacks) - kk + j + 1 < MaxNackCache
            BY <2>8, <2>9, <3>1, <4>1
          <5>2. PICK lq \in Int, k2 \in Int : lq = Len(q.nacks) /\ k2 = kk
            BY <1>a
          <5>3. QED
            BY <1>0, <3>2, <4>1, <5>1, <5>2
        <4>2. ASSUME l - m < j PROVE FALSE
          BY <1>0, <2>6, <3>2, <4>2
        <4>3. QED
          BY <2>3, <2>4, <4>1, <4>2
      <3>3. QED
        BY <2>5, <3>1, <3>2
    <2>10. ASSUME NEW t \in 1 .. j + 1
           PROVE  \E m \in 1 .. Len(p.nacks) : p.nacks[m] = [sn |-> sn - t, nacked |-> 0]
      <3>1. CASE t = j + 1
        BY <2>7, <3>1
      <3>2. CASE t # j + 1
        <4>0. t \in 1 .. j
          BY <3>2
        <4>1. PICK m \in 1 .. l : c.nacks[m] = [sn |-> sn - t, nacked |-> 0]
          BY <1>2, <2>1, <2>4, <4>0 DEF PushedKeeps
        <4>2. ASSUME m = 1, l >= MaxNackCache PROVE FALSE
          <5>1. ASSUME NEW kk \in 1 .. Len(q.nacks), c.nacks[m] = q.nacks[kk] PROVE FALSE
            <6>1. q.nacks[kk].sn = sn - t
              BY <4>1, <5>1
            <6>2. q.nacks[kk].sn <= h
              BY DEF BelowHead
            <6>3. PICK x \in Int : x = sn - t /\ x > h
              BY <1>2, <4>0
            <6>4. QED
              BY <6>1, <6>2, <6>3
          <5>2. ASSUME l - m < j PROVE FALSE
            BY <1>0, <2>6, <4>2, <5>2
          <5>3. QED
            BY <2>3, <2>4, <5>1, <5>2
        <4>3. QED
          BY <2>5, <4>1, <4>2
      <3>3. QED
        BY <3>1, <3>2
    <2>11. QED
      BY <2>1, <2>9, <2>10 DEF PushedKeeps
  <1>3. ASSUME U # {} PROVE FALSE
    <2>1. U \subseteq Nat
      OBVIOUS
    <2>2. PICK m \in U : \A l \in U : m <= l
      BY <1>3, <2>1, LeastNumber
    <2>3. m \in 0 .. n /\ ~PushedKeeps(f, q, sn, m) /\ m # 0
      BY <1>1, <2>2
    <2>4. PICK j \in Nat : j = m - 1 /\ j < n /\ m = j + 1
      BY <2>3
    <2>5. j \in 0 .. n /\ j \notin U
      BY <2>2, <2>4
    <2>6. PushedKeeps(f, q, sn, j)
      BY <2>5
    <2>7. PushedKeeps(f, q, sn, j + 1)
      BY <1>2, <2>4, <2>6
    <2>8. QED
      BY <2>3, <2>4, <2>7
  <1>4. QED
    BY <1>3

-----------------------------------------------------------------------------
(* pairs: a round of NACKs.                                                *)

\* What the loop of pairs has after some entries.
PairLists == [id : Nat, asked : SUBSET Nat, kept : Seq(NackEntries)]

LEMMA AddType ==
  ASSUME NEW np \in PairLists, NEW sn \in Nat
  PROVE  AddToPairs(np, sn) \in PairLists /\ AddToPairs(np, sn).kept = np.kept
  <1>1. CASE np.id = 0 \/ sn > (np.id + PairSpan) % Modulus
    <2>1. PICK A \in SUBSET Nat : A = IF sn = 0 THEN np.asked ELSE np.asked \cup {sn}
      BY DEF PairLists
    <2>2. AddToPairs(np, sn) = [np EXCEPT !.id = sn, !.asked = A]
      BY <1>1, <2>1 DEF AddToPairs
    <2>3. QED
      BY <2>2 DEF PairLists
  <1>2. CASE ~(np.id = 0 \/ sn > (np.id + PairSpan) % Modulus)
    <2>1. PICK A \in SUBSET Nat : A = IF Minus(sn, np.id) \in 1 .. PairSpan THEN np.asked \cup {sn} ELSE np.asked
      BY DEF PairLists
    <2>2. AddToPairs(np, sn) = [np EXCEPT !.asked = A]
      BY <1>2, <2>1 DEF AddToPairs
    <2>3. QED
      BY <2>2 DEF PairLists
  <1>3. QED
    BY <1>1, <1>2

\* In ascending order every number but 0 is named by a pair, without a wrap-around.
LEMMA AddIs ==
  ASSUME NEW np \in PairLists, NEW sn \in 0 .. Modulus - 1, np.id = 0 \/ np.id < sn
  PROVE  /\ AddToPairs(np, sn).asked = np.asked \cup ({sn} \ {0})
         /\ AddToPairs(np, sn).id \in {np.id, sn}
  <1>0. PICK H \in Nat : H = Modulus \div 2 /\ Modulus = 2 * H /\ Modulus \in Nat \ {0} /\ PairSpan \in Nat \ {0} /\ PairSpan < H
    BY NumberConstants, NackAssumption
  <1>1. CASE np.id = 0 \/ sn > (np.id + PairSpan) % Modulus
    <2>1. AddToPairs(np, sn) = [np EXCEPT !.id = sn, !.asked = IF sn = 0 THEN np.asked ELSE np.asked \cup {sn}]
      BY <1>1 DEF AddToPairs
    <2>2. QED
      BY <2>1 DEF PairLists
  <1>2. CASE ~(np.id = 0 \/ sn > (np.id + PairSpan) % Modulus)
    <2>1. PICK i \in Nat : i = np.id /\ i # 0 /\ i < sn
      BY <1>2 DEF PairLists
    <2>2. i + PairSpan < Modulus
      <3>1. ASSUME ~(i + PairSpan < Modulus) PROVE FALSE
        <4>1. PICK r \in 0 .. Modulus - 1, one \in Int, x \in Int :
                 r = i + PairSpan - Modulus /\ one = 1 /\ x = i + PairSpan /\ r < sn
          <5>1. i + PairSpan - Modulus \in 0 .. Modulus - 1 /\ i + PairSpan - Modulus < sn
            BY <1>0, <2>1, <3>1
          <5>2. QED
            BY <1>0, <5>1
        <4>2. x = Modulus * one + r
          BY <1>0, <4>1
        <4>3. x % Modulus = r
          BY <1>0, <4>2, ModUnique
        <4>4. ~(sn > r)
          BY <1>2, <2>1, <4>1, <4>3
        <4>5. QED
          BY <1>0, <4>1, <4>4
      <3>2. QED
        BY <3>1
    <2>3. sn <= i + PairSpan
      <3>1. PICK r \in 0 .. Modulus - 1 : r = i + PairSpan
        BY <1>0, <2>2
      <3>2. r % Modulus = r
        BY <1>0, ModSmall
      <3>3. ~(sn > r)
        BY <1>2, <2>1, <3>1, <3>2
      <3>4. QED
        BY <1>0, <3>1, <3>3
    <2>4. Minus(sn, i) = sn - i
      <3>1. sn \in Nat /\ sn < Modulus /\ i <= sn /\ i > 0
        BY <1>0, <2>1
      <3>2. QED
        BY <3>1, MinusSmall
    <2>5. Minus(sn, np.id) \in 1 .. PairSpan /\ sn # 0
      BY <1>0, <2>1, <2>3, <2>4
    <2>6. AddToPairs(np, sn) = [np EXCEPT !.asked = np.asked \cup {sn}]
      BY <1>2, <2>5 DEF AddToPairs
    <2>7. QED
      BY <2>5, <2>6 DEF PairLists
  <1>3. QED
    BY <1>1, <1>2

LEMMA AppendIs ==
  ASSUME NEW S, NEW s \in Seq(S), NEW e \in S
  PROVE  /\ Append(s, e) \in Seq(S) /\ Len(Append(s, e)) = Len(s) + 1
         /\ \A k \in 1 .. Len(s) + 1 : Append(s, e)[k] = IF k = Len(s) + 1 THEN e ELSE s[k]
  OBVIOUS

\* The body of the loop.
LEMMA VisitIs ==
  ASSUME NEW np \in PairLists, NEW e \in NackEntries
  PROVE  /\ Visit(np, e) \in PairLists
         /\ GivenUp(e) => Visit(np, e) = np
         /\ ~GivenUp(e) => /\ e.nacked < MaxNackTimes
                           /\ Visit(np, e).id = AddToPairs(np, e.sn % Modulus).id
                           /\ Visit(np, e).asked = AddToPairs(np, e.sn % Modulus).asked
                           /\ Visit(np, e).kept = Append(np.kept, [sn |-> e.sn, nacked |-> e.nacked + 1])
                           /\ [sn |-> e.sn, nacked |-> e.nacked + 1] \in NackEntries
  <1>0. Modulus \in Nat \ {0} /\ MaxNackTimes \in Nat
    BY NumberConstants
  <1>1. CASE GivenUp(e)
    BY <1>1 DEF Visit
  <1>2. CASE ~GivenUp(e)
    <2>1. e.sn \in Nat /\ e.nacked \in Nat /\ e.nacked < MaxNackTimes
      BY <1>0, <1>2 DEF GivenUp, NackEntries
    <2>2. PICK sn \in Nat : sn = e.sn % Modulus
      <3>1. e.sn \in Int
        BY <2>1
      <3>2. e.sn % Modulus \in 0 .. Modulus - 1
        BY <1>0, <3>1, DivMod
      <3>3. QED
        BY <1>0, <3>2
    <2>3. PICK a \in PairLists : a = AddToPairs(np, sn) /\ a.kept = np.kept
      BY AddType
    <2>4. PICK x \in NackEntries : x = [sn |-> e.sn, nacked |-> e.nacked + 1]
      <3>1. e.nacked + 1 \in 0 .. MaxNackTimes
        BY <1>0, <2>1
      <3>2. QED
        BY <2>1, <3>1 DEF NackEntries
    <2>5. Visit(np, e) = [a EXCEPT !.kept = Append(np.kept, x)]
      BY <1>2, <2>2, <2>3, <2>4 DEF Visit
    <2>6. PICK s \in Seq(NackEntries) : s = Append(np.kept, x)
      <3>1. np.kept \in Seq(NackEntries)
        BY DEF PairLists
      <3>2. QED
        BY <3>1, AppendIs
    <2>7. Visit(np, e) \in PairLists /\ Visit(np, e).id = a.id /\ Visit(np, e).asked = a.asked /\ Visit(np, e).kept = s
      <3>1. Visit(np, e) = [a EXCEPT !.kept = s]
        BY <2>5, <2>6
      <3>2. QED
        BY <3>1 DEF PairLists
    <2>8. QED
      BY <1>2, <2>1, <2>2, <2>3, <2>4, <2>6, <2>7
  <1>3. QED
    BY <1>1, <1>2

LEMMA VisitAllType ==
  ASSUME NEW nacks \in Seq(NackEntries), NEW f,
         f[0] = [id |-> 0, asked |-> {}, kept |-> <<>>],
         \A k \in 1 .. Len(nacks) : f[k] = Visit(f[k - 1], nacks[k])
  PROVE  \A k \in 0 .. Len(nacks) : f[k] \in PairLists
  <1> DEFINE U == {k \in 0 .. Len(nacks) : f[k] \notin PairLists}
  <1>0. Len(nacks) \in Nat
    BY LenProperties
  <1>1. f[0] \in PairLists
    BY DEF PairLists
  <1>2. ASSUME U # {} PROVE FALSE
    <2>1. U \subseteq Nat
      BY <1>0
    <2>2. PICK m \in U : \A l \in U : m <= l
      BY <1>2, <2>1, LeastNumber
    <2>3. m \in 0 .. Len(nacks) /\ f[m] \notin PairLists /\ m # 0
      BY <1>1, <2>2
    <2>4. m - 1 \in 0 .. Len(nacks) /\ m \in 1 .. Len(nacks) /\ m - 1 \notin U
      BY <1>0, <2>2, <2>3
    <2>5. f[m - 1] \in PairLists /\ f[m] = Visit(f[m - 1], nacks[m]) /\ nacks[m] \in NackEntries
      BY <2>4, ElementOfSeq
    <2>6. QED
      BY <2>3, <2>5, VisitIs
  <1>3. QED
    BY <1>2

\* After k entries of an ascending queue of the first cycle: those that are not
\* given up are kept, in their order, counted and asked for.
VisitedOK(p, nacks, k) ==
    /\ p \in PairLists
    /\ Ascending(p.kept)
    /\ \A m \in 1 .. Len(p.kept) :
          \E j \in 1 .. k :
             /\ nacks[j].nacked < MaxNackTimes
             /\ p.kept[m] = [sn |-> nacks[j].sn, nacked |-> nacks[j].nacked + 1]
             /\ Len(p.kept) - m <= k - j
    /\ \A j \in 1 .. k :
          nacks[j].nacked < MaxNackTimes =>
             \E m \in 1 .. Len(p.kept) : p.kept[m].sn = nacks[j].sn
    /\ p.asked = {nacks[j].sn : j \in {i \in 1 .. k : nacks[i].nacked < MaxNackTimes}} \ {0}
    /\ p.id = 0 \/ \E j \in 1 .. k : p.id = nacks[j].sn

LEMMA VisitedStep ==
  ASSUME NEW nacks \in Seq(NackEntries), Ascending(nacks),
         \A k \in 1 .. Len(nacks) : nacks[k].sn < Modulus,
         NEW f, NEW k \in Nat, k + 1 \in 1 .. Len(nacks), f[k + 1] = Visit(f[k], nacks[k + 1]),
         VisitedOK(f[k], nacks, k)
  PROVE  VisitedOK(f[k + 1], nacks, k + 1)
  <1>0. Modulus \in Nat \ {0} /\ MaxNackTimes \in Nat \ {0} /\ Len(nacks) \in Nat /\ DOMAIN nacks = 1 .. Len(nacks)
    BY NumberConstants, LenProperties
  <1>1. PICK e \in NackEntries : e = nacks[k + 1]
    BY ElementOfSeq
  <1>2. e.sn \in 0 .. Modulus - 1 /\ e.nacked \in Nat
    BY <1>0, <1>1 DEF NackEntries
  <1>3. PICK np, p : np \in PairLists /\ np = f[k] /\ p = f[k + 1] /\ p = Visit(np, e)
    BY <1>1 DEF VisitedOK
  <1>4. /\ Ascending(np.kept)
        /\ \A m \in 1 .. Len(np.kept) :
              \E j \in 1 .. k :
                 /\ nacks[j].nacked < MaxNackTimes
                 /\ np.kept[m] = [sn |-> nacks[j].sn, nacked |-> nacks[j].nacked + 1]
                 /\ Len(np.kept) - m <= k - j
        /\ \A j \in 1 .. k :
              nacks[j].nacked < MaxNackTimes =>
                 \E m \in 1 .. Len(np.kept) : np.kept[m].sn = nacks[j].sn
        /\ np.asked = {nacks[j].sn : j \in {i \in 1 .. k : nacks[i].nacked < MaxNackTimes}} \ {0}
        /\ np.id = 0 \/ \E j \in 1 .. k : np.id = nacks[j].sn
    BY <1>3 DEF VisitedOK
  <1>5. PICK l \in Nat : l = Len(np.kept) /\ DOMAIN np.kept = 1 .. l /\ np.kept \in Seq(NackEntries)
    BY <1>3, LenProperties DEF PairLists
  <1>6. \A j \in 1 .. k : nacks[j].sn \in Nat /\ (nacks[j].sn < e.sn \/ (nacks[j].sn = 0 /\ e.sn = 0))
    <2>1. ASSUME NEW j \in 1 .. k PROVE nacks[j].sn \in Nat /\ (nacks[j].sn < e.sn \/ (nacks[j].sn = 0 /\ e.sn = 0))
      <3>1. j \in 1 .. Len(nacks) /\ j < k + 1
        BY <1>0
      <3>2. nacks[j] \in NackEntries
        BY <3>1, ElementOfSeq
      <3>3. QED
        BY <1>0, <1>1, <3>1, <3>2 DEF Ascending, NackEntries
    <2>2. QED
      BY <2>1
  <1>7. CASE GivenUp(e)
    <2>1. p = np
      BY <1>3, <1>7, VisitIs
    <2>2. ~(nacks[k + 1].nacked < MaxNackTimes)
      BY <1>0, <1>1, <1>2, <1>7 DEF GivenUp
    <2>3. {i \in 1 .. k + 1 : nacks[i].nacked < MaxNackTimes} = {i \in 1 .. k : nacks[i].nacked < MaxNackTimes}
      BY <2>2
    <2>4. \A m \in 1 .. Len(p.kept) :
              \E j \in 1 .. k + 1 :
                 /\ nacks[j].nacked < MaxNackTimes
                 /\ p.kept[m] = [sn |-> nacks[j].sn, nacked |-> nacks[j].nacked + 1]
                 /\ Len(p.kept) - m <= (k + 1) - j
      <3>1. ASSUME NEW m \in 1 .. l
            PROVE  \E j \in 1 .. k + 1 :
                     /\ nacks[j].nacked < MaxNackTimes
                     /\ np.kept[m] = [sn |-> nacks[j].sn, nacked |-> nacks[j].nacked + 1]
                     /\ l - m <= (k + 1) - j
        <4>1. PICK j \in 1 .. k :
                 /\ nacks[j].nacked < MaxNackTimes
                 /\ np.kept[m] = [sn |-> nacks[j].sn, nacked |-> nacks[j].nacked + 1]
                 /\ l - m <= k - j
          BY <1>4, <1>5
        <4>2. j \in 1 .. k + 1 /\ l - m <= (k + 1) - j
          BY <4>1
        <4>3. QED
          BY <4>1, <4>2
      <3>2. QED
        BY <1>5, <2>1, <3>1
    <2>5. \A j \in 1 .. k + 1 :
              nacks[j].nacked < MaxNackTimes =>
                 \E m \in 1 .. Len(p.kept) : p.kept[m].sn = nacks[j].sn
      BY <1>4, <2>1, <2>2
    <2>6. p.id = 0 \/ \E j \in 1 .. k + 1 : p.id = nacks[j].sn
      BY <1>4, <2>1
    <2>7. p \in PairLists /\ Ascending(p.kept)
          /\ p.asked = {nacks[j].sn : j \in {i \in 1 .. k + 1 : nacks[i].nacked < MaxNackTimes}} \ {0}
      BY <1>3, <1>4, <2>1, <2>3
    <2>8. QED
      <3>1. VisitedOK(p, nacks, k + 1)
        BY <2>4, <2>5, <2>6, <2>7, Zenon DEF VisitedOK
      <3>2. QED
        BY <1>3, <3>1
  <1>8. CASE ~GivenUp(e)
    <2>1. PICK x \in NackEntries : x = [sn |-> e.sn, nacked |-> e.nacked + 1]
      BY <1>3, <1>8, VisitIs
    <2>2. e.sn % Modulus = e.sn
      BY <1>0, <1>2, ModSmall
    <2>3. /\ p \in PairLists /\ e.nacked < MaxNackTimes
          /\ p.id = AddToPairs(np, e.sn).id /\ p.asked = AddToPairs(np, e.sn).asked
          /\ p.kept = Append(np.kept, x)
      <3>1. np \in PairLists /\ e \in NackEntries /\ p = Visit(np, e)
        BY <1>3
      <3>2. /\ Visit(np, e) \in PairLists /\ e.nacked < MaxNackTimes
            /\ Visit(np, e).id = AddToPairs(np, e.sn % Modulus).id
            /\ Visit(np, e).asked = AddToPairs(np, e.sn % Modulus).asked
            /\ Visit(np, e).kept = Append(np.kept, [sn |-> e.sn, nacked |-> e.nacked + 1])
        BY <1>8, <3>1, VisitIs
      <3>3. QED
        BY <2>1, <2>2, <3>1, <3>2
    <2>4. np.id = 0 \/ np.id < e.sn
      BY <1>4, <1>6
    <2>5. p.asked = np.asked \cup ({e.sn} \ {0}) /\ p.id \in {np.id, e.sn}
      BY <1>2, <1>3, <2>3, <2>4, AddIs
    <2>6. /\ Len(p.kept) = l + 1 /\ p.kept \in Seq(NackEntries)
          /\ \A m \in 1 .. l + 1 : p.kept[m] = IF m = l + 1 THEN x ELSE np.kept[m]
      BY <1>5, <2>3, AppendIs
    <2>7. DOMAIN p.kept = 1 .. l + 1
      BY <2>6, LenProperties
    <2>8. x.sn = e.sn /\ nacks[k + 1].sn = e.sn /\ nacks[k + 1].nacked = e.nacked
      BY <1>1, <2>1
    <2>9. \A m \in 1 .. l + 1 :
              \E j \in 1 .. k + 1 :
                 /\ nacks[j].nacked < MaxNackTimes
                 /\ p.kept[m] = [sn |-> nacks[j].sn, nacked |-> nacks[j].nacked + 1]
                 /\ (l + 1) - m <= (k + 1) - j
      <3>1. ASSUME NEW m \in 1 .. l + 1, m # l + 1
            PROVE  \E j \in 1 .. k + 1 :
                     /\ nacks[j].nacked < MaxNackTimes
                     /\ p.kept[m] = [sn |-> nacks[j].sn, nacked |-> nacks[j].nacked + 1]
                     /\ (l + 1) - m <= (k + 1) - j
        <4>0. m \in 1 .. l
          BY <3>1
        <4>1. PICK j \in 1 .. k :
                 /\ nacks[j].nacked < MaxNackTimes
                 /\ np.kept[m] = [sn |-> nacks[j].sn, nacked |-> nacks[j].nacked + 1]
                 /\ l - m <= k - j
          BY <1>4, <1>5, <4>0
        <4>2. j \in 1 .. k + 1 /\ (l + 1) - m <= (k + 1) - j
          BY <4>1
        <4>3. p.kept[m] = np.kept[m]
          BY <2>6, <3>1
        <4>4. QED
          BY <4>1, <4>2, <4>3
      <3>2. /\ nacks[k + 1].nacked < MaxNackTimes
            /\ p.kept[l + 1] = [sn |-> nacks[k + 1].sn, nacked |-> nacks[k + 1].nacked + 1]
            /\ (l + 1) - (l + 1) <= (k + 1) - (k + 1) /\ k + 1 \in 1 .. k + 1
        BY <2>1, <2>3, <2>6, <2>8
      <3>3. QED
        BY <3>1, <3>2
    <2>10. \A j \in 1 .. k + 1 :
              nacks[j].nacked < MaxNackTimes =>
                 \E m \in 1 .. l + 1 : p.kept[m].sn = nacks[j].sn
      <3>1. ASSUME NEW j \in 1 .. k, nacks[j].nacked < MaxNackTimes
            PROVE  \E m \in 1 .. l + 1 : p.kept[m].sn = nacks[j].sn
        <4>1. PICK m \in 1 .. l : np.kept[m].sn = nacks[j].sn
          BY <1>4, <1>5, <3>1
        <4>2. m \in 1 .. l + 1 /\ m # l + 1
          OBVIOUS
        <4>3. QED
          BY <2>6, <4>1, <4>2
      <3>2. l + 1 \in 1 .. l + 1 /\ p.kept[l + 1].sn = nacks[k + 1].sn
        BY <2>6, <2>8
      <3>3. QED
        BY <3>1, <3>2
    <2>11. Ascending(p.kept)
      <3>1. ASSUME NEW a \in 1 .. l + 1, NEW z \in 1 .. l + 1, a < z
            PROVE  p.kept[a].sn < p.kept[z].sn \/ (p.kept[a].sn = 0 /\ p.kept[z].sn = 0)
        <4>1. CASE z # l + 1
          <5>1. a \in 1 .. l /\ z \in 1 .. l /\ a # l + 1
            BY <3>1, <4>1, SMTT(40)
          <5>2. QED
            <6>1. p.kept[a] = np.kept[a] /\ p.kept[z] = np.kept[z]
              BY <2>6, <4>1, <5>1
            <6>2. np.kept[a].sn < np.kept[z].sn \/ (np.kept[a].sn = 0 /\ np.kept[z].sn = 0)
              BY <1>4, <1>5, <3>1, <5>1 DEF Ascending
            <6>3. QED
              BY <6>1, <6>2
        <4>2. CASE z = l + 1
          <5>1. a \in 1 .. l /\ a # l + 1
            BY <3>1, <4>2
          <5>2. PICK j \in 1 .. k : np.kept[a] = [sn |-> nacks[j].sn, nacked |-> nacks[j].nacked + 1]
            BY <1>4, <1>5, <5>1
          <5>3. p.kept[a].sn = nacks[j].sn /\ p.kept[z].sn = e.sn
            <6>1. np.kept[a].sn = nacks[j].sn
              BY <5>2
            <6>2. p.kept[a] = np.kept[a] /\ p.kept[z] = x
              BY <2>6, <4>2, <5>1
            <6>3. QED
              BY <2>8, <6>1, <6>2
          <5>4. QED
            BY <1>6, <5>3
        <4>3. QED
          BY <4>1, <4>2
      <3>2. QED
        BY <2>7, <3>1 DEF Ascending
    <2>12. p.asked = {nacks[j].sn : j \in {i \in 1 .. k + 1 : nacks[i].nacked < MaxNackTimes}} \ {0}
      <3>1. {i \in 1 .. k + 1 : nacks[i].nacked < MaxNackTimes} = {i \in 1 .. k : nacks[i].nacked < MaxNackTimes} \cup {k + 1}
        BY <2>3, <2>8
      <3>2. {nacks[j].sn : j \in {i \in 1 .. k : nacks[i].nacked < MaxNackTimes} \cup {k + 1}}
              = {nacks[j].sn : j \in {i \in 1 .. k : nacks[i].nacked < MaxNackTimes}} \cup {e.sn}
        BY <2>8
      <3>3. QED
        BY <1>4, <2>5, <3>1, <3>2
    <2>13. p.id = 0 \/ \E j \in 1 .. k + 1 : p.id = nacks[j].sn
      <3>1. k + 1 \in 1 .. k + 1 /\ \A j \in 1 .. k : j \in 1 .. k + 1
        OBVIOUS
      <3>2. QED
        BY <1>4, <2>5, <2>8, <3>1
    <2>14. QED
      <3>1. p \in PairLists /\ Len(p.kept) = l + 1
        BY <2>3, <2>6
      <3>2. /\ \A m \in 1 .. Len(p.kept) :
                  \E j \in 1 .. k + 1 :
                     /\ nacks[j].nacked < MaxNackTimes
                     /\ p.kept[m] = [sn |-> nacks[j].sn, nacked |-> nacks[j].nacked + 1]
                     /\ Len(p.kept) - m <= (k + 1) - j
            /\ \A j \in 1 .. k + 1 :
                  nacks[j].nacked < MaxNackTimes =>
                     \E m \in 1 .. Len(p.kept) : p.kept[m].sn = nacks[j].sn
        BY <2>9, <2>10, <3>1
      <3>3. QED
        BY <1>3, <2>11, <2>12, <2>13, <3>1, <3>2 DEF VisitedOK
  <1>9. QED
    BY <1>7, <1>8

LEMMA VisitedAll ==
  ASSUME NEW nacks \in Seq(NackEntries), Ascending(nacks),
         \A k \in 1 .. Len(nacks) : nacks[k].sn < Modulus, NEW f,
         f[0] = [id |-> 0, asked |-> {}, kept |-> <<>>],
         \A k \in 1 .. Len(nacks) : f[k] = Visit(f[k - 1], nacks[k])
  PROVE  VisitedOK(f[Len(nacks)], nacks, Len(nacks))
  <1> DEFINE U == {k \in 0 .. Len(nacks) : ~VisitedOK(f[k], nacks, k)}
  <1>0. Len(nacks) \in Nat
    BY LenProperties
  <1>1. VisitedOK(f[0], nacks, 0)
    <2>1. f[0] \in PairLists /\ f[0].kept = <<>> /\ f[0].asked = {} /\ f[0].id = 0
      BY DEF PairLists
    <2>2. Ascending(f[0].kept) /\ 1 .. 0 = {} /\ Len(f[0].kept) = 0
      BY <2>1 DEF Ascending
    <2>3. QED
      BY <2>1, <2>2 DEF VisitedOK
  <1>2. ASSUME U # {} PROVE FALSE
    <2>1. U \subseteq Nat
      BY <1>0
    <2>2. PICK m \in U : \A l \in U : m <= l
      BY <1>2, <2>1, LeastNumber
    <2>3. m \in 0 .. Len(nacks) /\ ~VisitedOK(f[m], nacks, m) /\ m # 0
      BY <1>1, <2>2
    <2>4. PICK k \in Nat : k = m - 1 /\ m = k + 1 /\ k \in 0 .. Len(nacks) /\ k + 1 \in 1 .. Len(nacks) /\ (k + 1) - 1 = k
      BY <1>0, <2>3
    <2>5. VisitedOK(f[k], nacks, k)
      <3>1. k \notin U
        BY <2>2, <2>4
      <3>2. QED
        BY <2>4, <3>1
    <2>6. f[k + 1] = Visit(f[k], nacks[k + 1])
      BY <2>4
    <2>7. VisitedOK(f[k + 1], nacks, k + 1)
      BY <2>4, <2>5, <2>6, VisitedStep
    <2>8. QED
      BY <2>3, <2>4, <2>7
  <1>3. QED
    BY <1>0, <1>2

LEMMA EntriesBounded ==
  ASSUME NEW s \in Seq(NackEntries)
  PROVE  \E B \in Nat : \A k \in 1 .. Len(s) : s[k].sn <= B
  <1> DEFINE P(m) == \E B \in Nat : \A k \in 1 .. m : s[k].sn <= B
             U    == {m \in 0 .. Len(s) : ~P(m)}
  <1>0. PICK n \in Nat : n = Len(s)
    BY LenProperties
  <1>1. \A k \in 1 .. n : s[k].sn \in Nat
    <2>1. ASSUME NEW k \in 1 .. n PROVE s[k] \in NackEntries
      BY <1>0, <2>1, ElementOfSeq
    <2>2. QED
      BY <2>1 DEF NackEntries
  <1>2. P(0)
    <2>1. 1 .. 0 = {} /\ 0 \in Nat
      OBVIOUS
    <2>2. QED
      BY <2>1
  <1>3. ASSUME NEW m \in 1 .. n, P(m - 1) PROVE P(m)
    <2>1. PICK B \in Nat : \A k \in 1 .. m - 1 : s[k].sn <= B
      BY <1>3
    <2>2. PICK C \in Nat : C = s[m].sn
      BY <1>1
    <2> HIDE DEF P
    <2>3. PICK M \in Nat : M >= B /\ M >= C
      <3>1. CASE B >= C
        BY <3>1, SMTT(40)
      <3>2. CASE C >= B
        BY <3>2
      <3>3. QED
        BY <3>1, <3>2
    <2>4. ASSUME NEW k \in 1 .. m PROVE s[k].sn <= M
      <3>1. CASE k = m
        BY <2>2, <2>3, <3>1
      <3>2. CASE k # m
        <4>1. k \in 1 .. m - 1 /\ k \in 1 .. n
          BY <3>2
        <4>2. PICK x \in Nat : x = s[k].sn /\ x <= B
          BY <1>1, <2>1, <4>1
        <4>3. x <= M
          BY <2>3, <4>2
        <4>4. QED
          BY <4>2, <4>3
      <3>3. QED
        BY <3>1, <3>2
    <2>5. QED
      BY <2>4 DEF P
  <1> HIDE DEF P
  <1>4. ASSUME U # {} PROVE FALSE
    <2>1. U \subseteq Nat
      BY <1>0
    <2>2. PICK m \in U : \A l \in U : m <= l
      BY <1>4, <2>1, LeastNumber
    <2>3. m \in 1 .. n /\ m - 1 \in 0 .. n /\ ~P(m)
      BY <1>0, <1>2, <2>2
    <2>4. m - 1 \notin U
      BY <2>2, <2>3
    <2>5. QED
      BY <1>0, <1>3, <2>3, <2>4
  <1>5. P(Len(s))
    BY <1>0, <1>4
  <1>6. QED
    BY <1>5 DEF P

LEMMA GreatestIs ==
  ASSUME NEW S, S \subseteq Nat, S # {}, NEW B \in Nat, \A x \in S : x <= B
  PROVE  Max(S) \in S
  <1> DEFINE R == {B - x : x \in S}
  <1>1. R \subseteq Nat /\ R # {}
    <2>1. \A x \in S : B - x \in Nat
      OBVIOUS
    <2>2. QED
      BY <2>1
  <1>2. PICK r \in R : \A y \in R : r <= y
    BY <1>1, LeastNumber
  <1>3. PICK m \in S : r = B - m
    BY <1>2
  <1>4. ASSUME NEW y \in S PROVE m >= y
    <2>1. B - m <= B - y
      BY <1>2, <1>3
    <2>2. QED
      BY <2>1
  <1>5. \E x \in S : \A y \in S : x >= y
    BY <1>4
  <1>6. QED
    BY <1>5, Zenon DEF Max

\* pairs leaves a queue.
LEMMA PairsType ==
  ASSUME NEW q \in NackQueues, NEW r, r = Pairs(q)
  PROVE  /\ r.queue \in NackQueues /\ r.queue.cycles = q.cycles /\ r.queue.maxSN = q.maxSN
         /\ q.counter < 2 => r.asked = {} /\ r.queue.nacks = q.nacks /\ r.queue.counter = q.counter + 1
         /\ ~(q.counter < 2) => /\ r.asked = VisitAll(q.nacks).asked
                                /\ r.queue.nacks = VisitAll(q.nacks).kept
                                /\ r.queue.counter = 0
  <1> DEFINE all  == VisitAll(q.nacks)
             late == {x \in {q.nacks[i].sn : i \in {j \in DOMAIN q.nacks : GivenUp(q.nacks[j])}} : x > q.kfSN}
  <1>0. q.nacks \in Seq(NackEntries) /\ q.counter \in Nat /\ q.kfSN \in Nat
    BY DEF NackQueues
  <1>1. CASE q.counter < 2
    <2>1. PICK c \in Nat : c = q.counter + 1
      BY <1>0
    <2>2. r.asked = {} /\ r.queue = [q EXCEPT !.counter = c]
      BY <1>1, <2>1 DEF Pairs
    <2>3. QED
      BY <1>1, <2>1, <2>2 DEF NackQueues
  <1>2. CASE ~(q.counter < 2)
    <2>1. r.asked = all.asked /\ r.queue = [q EXCEPT !.counter = 0, !.kfSN = IF late = {} THEN q.kfSN ELSE Max(late), !.nacks = all.kept]
      BY <1>2 DEF Pairs
    <2>2. PICK n \in Nat : n = Len(q.nacks) /\ DOMAIN q.nacks = 1 .. n
      BY <1>0, LenProperties
    <2>3. PICK B \in Nat : \A k \in 1 .. n : q.nacks[k].sn <= B
      BY <1>0, <2>2, EntriesBounded
    <2>4. \A k \in 1 .. n : q.nacks[k].sn \in Nat
      <3>1. ASSUME NEW k \in 1 .. n PROVE q.nacks[k] \in NackEntries
        BY <1>0, <2>2, <3>1, ElementOfSeq
      <3>2. QED
        BY <3>1 DEF NackEntries
    <2>5. late \subseteq Nat /\ \A x \in late : x <= B
      BY <2>2, <2>3, <2>4
    <2> HIDE DEF late
    <2>6. PICK kf \in Nat : kf = IF late = {} THEN q.kfSN ELSE Max(late)
      <3>1. CASE late = {}
        BY <1>0, <3>1
      <3>2. CASE late # {}
        <4>1. Max(late) \in Nat
          BY <2>5, <3>2, GreatestIs
        <4>2. QED
          BY <3>2, <4>1
      <3>3. QED
        BY <3>1, <3>2
    <2>7. all \in PairLists
      <3>1. PICK f : /\ f[0] = [id |-> 0, asked |-> {}, kept |-> <<>>]
                     /\ \A k \in 1 .. Len(q.nacks) : f[k] = Visit(f[k - 1], q.nacks[k])
                     /\ all = f[Len(q.nacks)]
        BY <2>2, VisitAllIs
      <3> HIDE DEF all
      <3>2. \A k \in 0 .. Len(q.nacks) : f[k] \in PairLists
        BY <1>0, <3>1, VisitAllType
      <3>3. Len(q.nacks) \in 0 .. Len(q.nacks)
        BY <2>2
      <3>4. QED
        BY <3>1, <3>2, <3>3
    <2> HIDE DEF all
    <2>8. PICK s \in Seq(NackEntries) : s = all.kept
      BY <2>7 DEF PairLists
    <2>9. r.queue = [q EXCEPT !.counter = 0, !.kfSN = kf, !.nacks = s]
      BY <2>1, <2>6, <2>8
    <2>10. r.queue \in NackQueues /\ r.queue.cycles = q.cycles /\ r.queue.maxSN = q.maxSN /\ r.queue.nacks = s /\ r.queue.counter = 0
      <3>1. r.queue \in NackQueues
        <4>1. PICK a \in NackQueues : a = [q EXCEPT !.counter = 0]
          BY DEF NackQueues
        <4>2. PICK v \in NackQueues : v = [a EXCEPT !.kfSN = kf]
          BY DEF NackQueues
        <4>3. PICK c \in NackQueues : c = [v EXCEPT !.nacks = s]
          BY DEF NackQueues
        <4>4. r.queue = c
          BY <2>9, <4>1, <4>2, <4>3 DEF NackQueues
        <4>5. QED
          BY <4>4
      <3>2. r.queue.cycles = q.cycles /\ r.queue.maxSN = q.maxSN
        BY <2>9 DEF NackQueues
      <3>3. r.queue.nacks = s /\ r.queue.counter = 0
        BY <2>9 DEF NackQueues
      <3>4. QED
        BY <3>1, <3>2, <3>3
    <2>11. QED
      BY <1>2, <2>1, <2>8, <2>10 DEF all
  <1>3. QED
    BY <1>1, <1>2

\* A round: the entries that are not given up are asked for and counted; s is what
\* is left of the queue q.
RoundOK(q, r, s) ==
    /\ \A m \in 1 .. Len(s) :
          \E j \in 1 .. Len(q.nacks) :
             /\ q.nacks[j].nacked < MaxNackTimes
             /\ s[m] = [sn |-> q.nacks[j].sn, nacked |-> q.nacks[j].nacked + 1]
             /\ Len(s) - m <= Len(q.nacks) - j
    /\ \A j \in 1 .. Len(q.nacks) :
          q.nacks[j].nacked < MaxNackTimes => \E m \in 1 .. Len(s) : s[m].sn = q.nacks[j].sn
    /\ r.asked = {q.nacks[j].sn : j \in {i \in 1 .. Len(q.nacks) : q.nacks[i].nacked < MaxNackTimes}} \ {0}

\* A round of NACKs in the first cycle.
LEMMA PairsIs ==
  ASSUME NEW q \in NackQueues, Ascending(q.nacks), ~(q.counter < 2),
         \A k \in 1 .. Len(q.nacks) : q.nacks[k].sn < Modulus,
         NEW r, r = Pairs(q), NEW s, s = r.queue.nacks
  PROVE  Ascending(s) /\ RoundOK(q, r, s)
  <1> DEFINE all  == VisitAll(q.nacks)
  <1>1. r.asked = all.asked /\ s = all.kept
    BY PairsType
  <1>2. PICK n \in Seq(NackEntries) : n = q.nacks /\ Len(n) \in Nat
    BY LenProperties DEF NackQueues
  <1>3. PICK f : /\ f[0] = [id |-> 0, asked |-> {}, kept |-> <<>>]
                 /\ \A k \in 1 .. Len(n) : f[k] = Visit(f[k - 1], n[k])
                 /\ all = f[Len(n)]
    BY <1>2, VisitAllIs
  <1> HIDE DEF all
  <1>4. VisitedOK(f[Len(n)], n, Len(n))
    BY <1>2, <1>3, VisitedAll
  <1>5. QED
    BY <1>1, <1>2, <1>3, <1>4 DEF VisitedOK, RoundOK

-----------------------------------------------------------------------------
(* remove.                                                                 *)

\* p is q without the entry of sn.
Removed(p, q, sn) ==
    /\ \A m \in 1 .. Len(p.nacks) : \E k \in 1 .. Len(q.nacks) :
          p.nacks[m] = q.nacks[k] /\ q.nacks[k].sn # sn /\ Len(p.nacks) - m <= Len(q.nacks) - k
    /\ \A k \in 1 .. Len(q.nacks) :
          q.nacks[k].sn # sn => \E m \in 1 .. Len(p.nacks) : p.nacks[m] = q.nacks[k]

\* remove takes off the entry of the number, and no other.
LEMMA RemoveNackIs ==
  ASSUME NEW q \in NackQueues, q.cycles = 0, Ascending(q.nacks), NEW sn \in Nat \ {0},
         NEW p, p = RemoveNack(q, sn)
  PROVE  /\ p.cycles = 0 /\ p.maxSN = q.maxSN /\ p.counter = q.counter
         /\ Ascending(p.nacks)
         /\ Removed(p, q, sn)
  <1>0. PICK s \in Seq(NackEntries), n \in Nat : s = q.nacks /\ n = Len(s) /\ DOMAIN s = 1 .. n
    BY LenProperties DEF NackQueues
  <1>1. \A k \in 1 .. n : s[k].sn \in Nat
    <2>1. ASSUME NEW k \in 1 .. n PROVE s[k] \in NackEntries
      BY <1>0, <2>1, ElementOfSeq
    <2>2. QED
      BY <2>1 DEF NackEntries
  <1>2. \A j, k \in 1 .. n : j < k => s[j].sn < s[k].sn \/ (s[j].sn = 0 /\ s[k].sn = 0)
    BY <1>0 DEF Ascending
  <1>3. q.cycles + sn = sn
    OBVIOUS
  <1>4. CASE ~Holds(q, sn)
    <2>1. p = q
      BY <1>3, <1>4 DEF RemoveNack
    <2>2. \A k \in 1 .. n : s[k].sn # sn
      BY <1>0, <1>4 DEF Holds
    <2>3. \A m \in 1 .. n : n - m <= n - m
      OBVIOUS
    <2>4. Removed(p, q, sn)
      BY <1>0, <2>1, <2>2, <2>3 DEF Removed
    <2>5. QED
      BY <2>1, <2>4
  <1>5. CASE Holds(q, sn)
    <2>1. PICK l \in 1 .. n : s[l].sn = sn
      BY <1>0, <1>5 DEF Holds
    <2>2. Before(q, sn) + 1 = l
      <3>1. /\ Before(q, sn) \in 0 .. Len(q.nacks)
            /\ \A k \in 1 .. Len(q.nacks) : k <= Before(q, sn) <=> q.nacks[k].sn < sn
        BY BeforeIs
      <3>2. PICK v \in 0 .. n : v = Before(q, sn) /\ \A k \in 1 .. n : k <= v <=> s[k].sn < sn
        BY <1>0, <3>1
      <3>3. ~(l <= v)
        BY <1>1, <2>1, <3>2
      <3>4. ASSUME v + 1 < l PROVE FALSE
        <4>1. v + 1 \in 1 .. n /\ ~(v + 1 <= v)
          BY <3>4
        <4>2. ~(s[v + 1].sn < sn) /\ (s[v + 1].sn < s[l].sn \/ s[l].sn = 0)
          BY <1>2, <3>2, <3>4, <4>1
        <4>3. QED
          BY <2>1, <4>2
      <3>5. QED
        BY <3>2, <3>3, <3>4
    <2>3. PICK t \in Seq(NackEntries) :
            /\ t = RemoveAt(s, l) /\ Len(t) = n - 1 /\ DOMAIN t = 1 .. n - 1
            /\ \A k \in 1 .. n - 1 : t[k] = IF k < l THEN s[k] ELSE s[k + 1]
      <3>1. l \in 1 .. Len(s)
        BY <1>0
      <3>2. /\ RemoveAt(s, l) \in Seq(NackEntries) /\ Len(RemoveAt(s, l)) = Len(s) - 1
            /\ \A k \in 1 .. Len(s) - 1 : RemoveAt(s, l)[k] = IF k < l THEN s[k] ELSE s[k + 1]
        BY <3>1, RemoveIs, ZenonT(60)
      <3>3. QED
        BY <1>0, <3>2, LenProperties
    <2>4. p = [q EXCEPT !.nacks = t]
      BY <1>0, <1>3, <1>5, <2>2, <2>3 DEF RemoveNack
    <2>5. p.nacks = t /\ p.cycles = 0 /\ p.maxSN = q.maxSN /\ p.counter = q.counter
      BY <2>4 DEF NackQueues
    <2>6. \A k \in 1 .. n : k # l => s[k].sn # sn
      <3>1. ASSUME NEW k \in 1 .. n, k # l PROVE s[k].sn # sn
        <4>1. k < l \/ l < k
          BY <3>1
        <4>2. QED
          BY <1>1, <1>2, <2>1, <4>1
      <3>2. QED
        BY <3>1
    <2>7. Ascending(t)
      <3>1. ASSUME NEW j \in 1 .. n - 1, NEW k \in 1 .. n - 1, j < k
            PROVE  t[j].sn < t[k].sn \/ (t[j].sn = 0 /\ t[k].sn = 0)
        <4>1. PICK jj \in 1 .. n, kk \in 1 .. n : t[j] = s[jj] /\ t[k] = s[kk] /\ jj < kk
          <5>1. CASE k < l
            <6>1. j < l /\ j \in 1 .. n /\ k \in 1 .. n
              BY <3>1, <5>1
            <6>2. t[j] = s[j] /\ t[k] = s[k]
              BY <2>3, <5>1, <6>1
            <6>3. QED
              BY <3>1, <6>1, <6>2
          <5>2. CASE ~(k < l)
            <6>1. k + 1 \in 1 .. n /\ j + 1 \in 1 .. n /\ j \in 1 .. n /\ j < k + 1 /\ j + 1 < k + 1
              BY <3>1
            <6>2. t[k] = s[k + 1] /\ (t[j] = s[j] \/ t[j] = s[j + 1])
              BY <2>3, <5>2
            <6>3. QED
              BY <6>1, <6>2
          <5>3. QED
            BY <5>1, <5>2
        <4>2. QED
          BY <1>2, <4>1
      <3>2. QED
        BY <2>3, <3>1 DEF Ascending
    <2>8. ASSUME NEW m \in 1 .. n - 1
          PROVE  \E k \in 1 .. n : t[m] = s[k] /\ s[k].sn # sn /\ n - 1 - m <= n - k
      <3>1. CASE m < l
        <4>1. m \in 1 .. n /\ m # l /\ n - 1 - m <= n - m
          BY <3>1
        <4>2. QED
          BY <2>3, <2>6, <3>1, <4>1
      <3>2. CASE ~(m < l)
        <4>1. m + 1 \in 1 .. n /\ m + 1 # l /\ n - 1 - m <= n - (m + 1)
          BY <3>2
        <4>2. t[m] = s[m + 1]
          BY <2>3, <3>2
        <4>3. QED
          BY <2>6, <4>1, <4>2
      <3>3. QED
        BY <3>1, <3>2
    <2>9. ASSUME NEW k \in 1 .. n, s[k].sn # sn
          PROVE  \E m \in 1 .. n - 1 : t[m] = s[k]
      <3>0. k # l
        BY <2>1, <2>9
      <3>1. CASE k < l
        <4>1. k \in 1 .. n - 1
          BY <3>1
        <4>2. QED
          BY <2>3, <3>1, <4>1
      <3>2. CASE k > l
        <4>1. k - 1 \in 1 .. n - 1 /\ ~(k - 1 < l) /\ (k - 1) + 1 = k
          BY <3>2
        <4>2. t[k - 1] = s[k]
          BY <2>3, <4>1
        <4>3. QED
          BY <4>1, <4>2
      <3>3. QED
        BY <3>0, <3>1, <3>2
    <2>10. Len(p.nacks) = n - 1 /\ Len(q.nacks) = n /\ p.nacks = t /\ q.nacks = s
      BY <1>0, <2>3, <2>5
    <2>11. /\ \A m \in 1 .. Len(p.nacks) : \E k \in 1 .. Len(q.nacks) :
                 p.nacks[m] = q.nacks[k] /\ q.nacks[k].sn # sn /\ Len(p.nacks) - m <= Len(q.nacks) - k
           /\ \A k \in 1 .. Len(q.nacks) :
                 q.nacks[k].sn # sn => \E m \in 1 .. Len(p.nacks) : p.nacks[m] = q.nacks[k]
      <3>1. \A m \in 1 .. n - 1 : \E k \in 1 .. n :
               t[m] = s[k] /\ s[k].sn # sn /\ (n - 1) - m <= n - k
        BY <2>8
      <3>2. \A k \in 1 .. n : s[k].sn # sn => \E m \in 1 .. n - 1 : t[m] = s[k]
        BY <2>9
      <3>3. PICK lp, lq, np, nq : lp = Len(p.nacks) /\ lq = Len(q.nacks) /\ np = p.nacks /\ nq = q.nacks
        OBVIOUS
      <3>4. lp = n - 1 /\ lq = n /\ np = t /\ nq = s
        BY <2>10, <3>3
      <3>5. /\ \A m \in 1 .. lp : \E k \in 1 .. lq : np[m] = nq[k] /\ nq[k].sn # sn /\ lp - m <= lq - k
            /\ \A k \in 1 .. lq : nq[k].sn # sn => \E m \in 1 .. lp : np[m] = nq[k]
        BY <3>1, <3>2, <3>4
      <3>6. QED
        BY <3>3, <3>5
    <2>12. QED
      BY <2>5, <2>7, <2>10, <2>11 DEF Removed
  <1>6. QED
    BY <1>4, <1>5

-----------------------------------------------------------------------------
(* What an arrival does to the queue.                                      *)

\* The newest packet, with or without a packet.
LEMMA NewestIs ==
  ASSUME BucketTypeOK, HeadOK
  PROVE  /\ newest \in Nat /\ \A j \in received : j \in Nat /\ j >= 1 /\ j <= newest
         /\ received = {} => newest = 0
         /\ received # {} => newest \in received /\ headSN = SNOf(newest) /\ maxSeqNo = SNOf(newest)
  <1>1. received \subseteq Packets /\ \A j \in Packets : j \in Nat /\ j >= 1
    BY DEF BucketTypeOK, Packets
  <1>2. CASE received = {}
    BY <1>2 DEF newest
  <1>3. CASE received # {}
    <2>1. /\ newest \in received /\ \A j \in received : j <= newest
          /\ maxSeqNo = SNOf(newest) /\ headSN = SNOf(newest)
      BY <1>3 DEF HeadOK
    <2>2. QED
      BY <1>1, <1>3, <2>1
  <1>4. QED
    BY <1>2, <1>3

LEMMA NewestBecomes ==
  ASSUME BucketTypeOK, NEW i \in Packets, received' = received \cup {i},
         NEW n \in received', \A j \in received' : j <= n
  PROVE  newest' = n
  <1>1. received' # {} /\ newest' = Max(received')
    BY DEF newest
  <1>2. received' \subseteq Int
    BY DEF BucketTypeOK, Packets
  <1>3. PICK m : m = Max(received')
    OBVIOUS
  <1>4. m \in received' /\ \A j \in received' : m >= j
    <2>1. \E m2 \in received' : \A j \in received' : m2 >= j
      BY <1>2
    <2>2. QED
      BY <1>3, <2>1 DEF Max
  <1>5. m \in Int /\ n \in Int /\ m >= n /\ n >= m
    BY <1>2, <1>4
  <1>6. m = n
    BY <1>5
  <1>7. QED
    BY <1>1, <1>3, <1>6

LEMMA SNIs ==
  ASSUME NEW n \in Nat
  PROVE  SNOf(n) \in 0 .. Modulus - 1 /\ (StartSN + n < Modulus => SNOf(n) = StartSN + n)
  <1>1. Modulus \in Nat \ {0} /\ StartSN \in Nat
    BY NumberConstants
  <1>2. PICK x \in Int : x = StartSN + n /\ x >= 0
    BY <1>1
  <1>3. x % Modulus \in 0 .. Modulus - 1
    BY <1>1, DivMod
  <1>4. x < Modulus => x % Modulus = x
    <2>1. HAVE x < Modulus
    <2>2. x \in 0 .. Modulus - 1
      BY <1>1, <1>2, <2>1
    <2>3. QED
      BY <1>1, <2>2, ModSmall
  <1>5. QED
    BY <1>2, <1>3, <1>4 DEF SNOf

LEMMA PushBeforeType ==
  ASSUME NEW q \in NackQueues, NEW sn \in Nat, NEW n \in Nat
  PROVE  PushBefore(q, sn, n) \in NackQueues
  <1>0. PICK f : PushedFrom(f, q, sn, n) /\ PushBefore(q, sn, n) = f[n]
    BY PushBeforeIs
  <1>1. /\ f[0] = q /\ PushBefore(q, sn, n) = f[n]
        /\ \A k \in 1 .. n : f[k] = PushNack(f[k - 1], Minus(sn, k))
    BY <1>0 DEF PushedFrom
  <1>2. Modulus \in Nat \ {0}
    BY NumberConstants
  <1>3. \A k \in 0 .. n : f[k] \in NackQueues
    <2> DEFINE U == {k \in 0 .. n : f[k] \notin NackQueues}
    <2>1. ASSUME U # {} PROVE FALSE
      <3>1. U \subseteq Nat
        OBVIOUS
      <3>2. PICK m \in U : \A l \in U : m <= l
        BY <2>1, <3>1, LeastNumber
      <3>3. m \in 0 .. n /\ f[m] \notin NackQueues /\ m # 0
        BY <1>1, <3>2
      <3>4. m - 1 \in 0 .. n /\ m \in 1 .. n /\ m - 1 \notin U
        BY <3>2, <3>3
      <3>5. f[m - 1] \in NackQueues /\ f[m] = PushNack(f[m - 1], Minus(sn, m))
        BY <1>1, <3>4
      <3>6. Minus(sn, m) \in Nat
        <4>1. PICK x \in Int : x = Modulus + sn - m
          BY <1>2, <3>4
        <4>2. x % Modulus \in 0 .. Modulus - 1
          BY <1>2, DivMod
        <4>3. QED
          BY <1>2, <4>1, <4>2 DEF Minus
      <3>7. QED
        BY <3>3, <3>5, <3>6, PushType
    <2>2. QED
      BY <2>1
  <1>4. n \in 0 .. n
    OBVIOUS
  <1>5. QED
    BY <1>1, <1>3, <1>4

\* What a packet that is newer than all others does: the np numbers before it are
\* pushed.
Latest(i, np) ==
    /\ received' = received \cup {i} /\ newest' = i /\ newest < i
    /\ np \in Nat /\ newest + np < i /\ np < MaxGap
    /\ IF received = {} THEN np = 0 /\ i \in {1, 2} ELSE np = i - newest - 1
    /\ nacker' = Pairs(PushBefore(nacker, SNOf(i), np)).queue
    /\ OnLost(Pairs(PushBefore(nacker, SNOf(i), np)))

LEMMA LatestKeepsTypes ==
  ASSUME BucketTypeOK, HeadOK, NEW i \in Packets, NEW np, Latest(i, np),
         maxSeqNo' = SNOf(i), headSN' = SNOf(i),
         NEW at, at = StepOver(np + 1), buf' = [buf EXCEPT ![at] = i], step' = (at + 1) % MaxSteps
  PROVE  BucketTypeOK' /\ HeadOK'
  <1>0. MaxSteps \in Nat \ {0} /\ MaxIndex \in Nat /\ i \in Nat /\ np \in Nat /\ Modulus \in Nat \ {0}
    BY NumberConstants DEF Packets, Latest
  <1>1. received' \subseteq Packets /\ received' = received \cup {i}
    BY DEF BucketTypeOK, Latest
  <1>2. {maxSeqNo', headSN'} \subseteq 0 .. Modulus - 1
    BY <1>0, SNIs
  <1>3. step' \in 0 .. MaxSteps - 1 /\ buf' \in [0 .. MaxSteps - 1 -> Contents]
    <2>1. step \in 0 .. MaxSteps - 1 /\ buf \in [0 .. MaxSteps - 1 -> Contents]
      BY DEF BucketTypeOK
    <2>2. PICK x \in Int : x = step + (np + 1) - 1
      BY <1>0, <2>1
    <2>3. at = x % MaxSteps
      BY <2>2 DEF StepOver
    <2>4. at \in 0 .. MaxSteps - 1
      BY <1>0, <2>3, DivMod
    <2>5. PICK y \in Int : y = at + 1
      BY <1>0, <2>4
    <2>6. y % MaxSteps \in 0 .. MaxSteps - 1
      BY <1>0, DivMod
    <2>7. i \in Contents
      BY ContentsAre
    <2>8. QED
      BY <2>1, <2>4, <2>5, <2>6, <2>7
  <1>4. nacker' \in NackQueues
    <2>1. PICK q : q = PushBefore(nacker, SNOf(i), np)
      OBVIOUS
    <2>2. q \in NackQueues
      BY <1>0, <2>1, SNIs, PushBeforeType, SMTT(40) DEF BucketTypeOK
    <2>3. nacker' = Pairs(q).queue
      BY <2>1 DEF Latest
    <2>4. QED
      BY <2>2, <2>3, PairsType
  <1>5. asked' \in [Packets -> Nat]
    <2>1. asked \in [Packets -> Nat]
      BY DEF BucketTypeOK
    <2>2. QED
      BY <2>1 DEF Latest, OnLost
  <1>6. HeadOK'
    <2>1. newest' = i /\ i \in received' /\ received' # {}
      BY <1>1 DEF Latest
    <2>2. \A j \in received' : j <= i
      BY <1>0, <1>1, NewestIs DEF Latest
    <2>3. QED
      BY <2>1, <2>2 DEF HeadOK
  <1>7. QED
    BY <1>1, <1>2, <1>3, <1>4, <1>5, <1>6 DEF BucketTypeOK

LEMMA FirstIsLatest ==
  ASSUME BucketTypeOK, HeadOK, NEW i \in Packets, First(i)
  PROVE  /\ received = {} /\ Latest(i, 0) /\ maxSeqNo' = SNOf(i) /\ headSN' = SNOf(i)
         /\ buf' = [buf EXCEPT ![StepOver(0 + 1)] = i] /\ step' = (StepOver(0 + 1) + 1) % MaxSteps
  <1>1. /\ received = {} /\ i \in {1, 2} /\ received' = {i} /\ maxSeqNo' = SNOf(i)
        /\ AddLatest(i, Minus(SNOf(i), 1))
    BY DEF First
  <1>2. Modulus \in Nat \ {0} /\ StartSN \in Nat /\ i \in Int /\ 1 \in 0 .. Modulus - 1 /\ MaxGap \in Nat \ {0}
    BY NumberConstants DEF Packets
  <1>3. Minus(SNOf(i), Minus(SNOf(i), 1)) = 1
    <2>1. PICK x \in Int, y \in Int, one \in Int : x = StartSN + i /\ y = x - 1 /\ one = 1 /\ x - y = 1
      <3>1. PICK x \in Int : x = StartSN + i
        BY <1>2
      <3>2. x - 1 \in Int /\ x - (x - 1) = 1
        OBVIOUS
      <3>3. QED
        BY <3>1, <3>2
    <2>2. SNOf(i) = x % Modulus /\ one % Modulus = 1
      BY <1>2, <2>1, ModSmall DEF SNOf
    <2>3. Minus(x % Modulus, one % Modulus) = (x - one) % Modulus
      BY <1>2, MinusIs
    <2>4. Minus(x % Modulus, y % Modulus) = (x - y) % Modulus
      BY <1>2, MinusIs
    <2>5. QED
      BY <2>1, <2>2, <2>3, <2>4
  <1>4. /\ headSN' = SNOf(i)
        /\ nacker' = Pairs(PushMissing(nacker, SNOf(i), 1)).queue
        /\ OnLost(Pairs(PushMissing(nacker, SNOf(i), 1)))
        /\ buf' = [buf EXCEPT ![StepOver(1)] = i]
        /\ step' = (StepOver(1) + 1) % MaxSteps
    BY <1>1, <1>3, Zenon DEF AddLatest
  <1>5. 1 - 1 = 0 /\ 0 + 1 = 1
    OBVIOUS
  <1>6. PushMissing(nacker, SNOf(i), 1) = PushBefore(nacker, SNOf(i), 0)
    BY <1>5 DEF PushMissing
  <1>7. newest = 0 /\ newest' = i
    <2>1. received' = received \cup {i} /\ i \in received' /\ \A j \in received' : j <= i
      BY <1>1, <1>2
    <2>2. QED
      BY <1>1, <2>1, NewestBecomes DEF newest
  <1>8. received' = received \cup {i} /\ newest < i /\ 0 \in Nat /\ newest + 0 < i /\ 0 < MaxGap
    BY <1>1, <1>2, <1>7
  <1>9. Latest(i, 0)
    BY <1>1, <1>4, <1>6, <1>7, <1>8 DEF Latest
  <1>10. QED
    BY <1>1, <1>4, <1>5, <1>9

LEMMA NewerIsLatest ==
  ASSUME BucketTypeOK, HeadOK, NEW i \in Packets, Newer(i)
  PROVE  \E np \in Nat :
           /\ received # {} /\ Latest(i, np) /\ maxSeqNo' = SNOf(i) /\ headSN' = SNOf(i)
           /\ buf' = [buf EXCEPT ![StepOver(np + 1)] = i] /\ step' = (StepOver(np + 1) + 1) % MaxSteps
  <1>1. /\ received # {} /\ i \in newest - MaxLate .. newest + MaxGap /\ i \notin received
        /\ AtOrAfter(SNOf(i), maxSeqNo) /\ received' = received \cup {i} /\ maxSeqNo' = SNOf(i)
        /\ AddLatest(i, headSN)
    BY DEF Newer
  <1>2. PICK n \in Nat : n = newest /\ n \in received /\ headSN = SNOf(n) /\ maxSeqNo = SNOf(n) /\ \A j \in received : j \in Nat /\ j <= n
    BY <1>1, NewestIs
  <1>3. PICK H \in Nat : H = Modulus \div 2 /\ MaxGap < H /\ MaxGap \in Nat /\ MaxLate \in Nat
    BY NumberConstants
  <1>4. i \in Int /\ n \in Int /\ i # n /\ n - i <= MaxLate /\ i - n <= MaxGap
    BY <1>1, <1>2, <1>3 DEF Packets
  <1>5. i > n
    BY <1>1, <1>2, <1>4, NewerByNumber
  <1>6. PICK np \in Nat : np = i - n - 1 /\ np + 1 = i - n /\ (i - n) - 1 = np /\ 0 <= i - n /\ i - n < H /\ n + np < i /\ np < MaxGap
    <2>1. i - n - 1 \in Nat /\ (i - n - 1) + 1 = i - n /\ 0 <= i - n /\ i - n < H /\ n + (i - n - 1) < i /\ i - n - 1 < MaxGap
      BY <1>3, <1>4, <1>5
    <2>2. QED
      BY <2>1
  <1>7. Minus(SNOf(i), headSN) = np + 1
    BY <1>2, <1>3, <1>4, <1>6, Distance
  <1>8. /\ headSN' = SNOf(i)
        /\ nacker' = Pairs(PushMissing(nacker, SNOf(i), np + 1)).queue
        /\ OnLost(Pairs(PushMissing(nacker, SNOf(i), np + 1)))
        /\ buf' = [buf EXCEPT ![StepOver(np + 1)] = i]
        /\ step' = (StepOver(np + 1) + 1) % MaxSteps
    BY <1>1, <1>7, Zenon DEF AddLatest
  <1>9. PushMissing(nacker, SNOf(i), np + 1) = PushBefore(nacker, SNOf(i), np)
    <2>1. (np + 1) - 1 = np
      OBVIOUS
    <2>2. QED
      BY <2>1 DEF PushMissing
  <1>10. newest' = i
    <2>1. i \in received' /\ \A j \in received' : j <= i
      BY <1>1, <1>2, <1>4, <1>5
    <2>2. QED
      BY <1>1, <2>1, NewestBecomes
  <1>11. newest < i /\ newest + np < i /\ np = i - newest - 1
    BY <1>2, <1>5, <1>6
  <1>12. Latest(i, np)
    BY <1>1, <1>6, <1>8, <1>9, <1>10, <1>11 DEF Latest
  <1>13. QED
    BY <1>1, <1>8, <1>12

LEMMA LateIs ==
  ASSUME BucketTypeOK, HeadOK, NEW i \in Packets, Late(i)
  PROVE  /\ received # {} /\ i < newest /\ i \notin received /\ received' = received \cup {i} /\ newest' = newest
         /\ nacker' = RemoveNack(nacker, SNOf(i)) /\ asked' = asked
         /\ BucketTypeOK' /\ HeadOK'
  <1>1. /\ received # {} /\ i \in newest - MaxLate .. newest + MaxGap /\ i \notin received
        /\ ~AtOrAfter(SNOf(i), maxSeqNo) /\ received' = received \cup {i} /\ maxSeqNo' = maxSeqNo
        /\ nacker' = RemoveNack(nacker, SNOf(i)) /\ asked' = asked
        /\ buf' = Set(i) /\ headSN' = headSN /\ step' = step
    BY DEF Late, AddLate
  <1>2. PICK n \in Nat : n = newest /\ n \in received /\ headSN = SNOf(n) /\ maxSeqNo = SNOf(n) /\ \A j \in received : j \in Nat /\ j <= n
    BY <1>1, NewestIs
  <1>3. MaxGap \in Nat /\ MaxLate \in Nat /\ MaxSteps \in Nat \ {0} /\ Modulus \in Nat \ {0}
    BY NumberConstants
  <1>4. i \in Nat /\ n \in Int /\ i # n /\ n - i <= MaxLate /\ i - n <= MaxGap
    BY <1>1, <1>2, <1>3 DEF Packets
  <1>5. i < n
    BY <1>1, <1>2, <1>4, NewerByNumber
  <1>6. newest \in received' /\ \A j \in received' : j <= newest
    BY <1>1, <1>2, <1>4, <1>5
  <1>7. newest' = newest
    BY <1>1, <1>6, NewestBecomes
  <1>8. HeadOK'
    <2>1. received' # {}
      BY <1>1
    <2>2. SNOf(newest)' = SNOf(newest)
      BY <1>7 DEF SNOf
    <2>3. maxSeqNo' = SNOf(newest)' /\ headSN' = SNOf(newest)'
      BY <1>1, <1>2, <2>2
    <2>4. QED
      BY <1>6, <1>7, <2>1, <2>3 DEF HeadOK
  <1>9. buf' \in [0 .. MaxSteps - 1 -> Contents]
    <2> DEFINE pos  == Position(SNOf(i))
               slot == IF pos < 0 THEN MaxSteps + pos ELSE pos
    <2>1. step \in 0 .. MaxSteps - 1 /\ buf \in [0 .. MaxSteps - 1 -> Contents] /\ headSN \in Nat
      BY <1>3 DEF BucketTypeOK
    <2>2. SNOf(i) \in Nat
      BY <1>3, <1>4, SNIs
    <2>3. Minus(headSN, SNOf(i)) \in Nat
      <3>1. PICK x \in Int : x = Modulus + headSN - SNOf(i)
        BY <1>3, <2>1, <2>2
      <3>2. x % Modulus \in 0 .. Modulus - 1
        BY <1>3, DivMod
      <3>3. QED
        BY <1>3, <3>1, <3>2 DEF Minus
    <2>4. PICK x \in Int, m \in Nat : x = Minus(headSN, SNOf(i)) + 1 /\ m = x % Modulus
      <3>1. PICK x \in Int : x = Minus(headSN, SNOf(i)) + 1
        BY <2>3
      <3>2. x % Modulus \in 0 .. Modulus - 1
        BY <1>3, DivMod
      <3>3. QED
        BY <1>3, <3>1, <3>2
    <2>5. pos = step - m
      BY <2>4 DEF Position
    <2>6. slot < 0 \/ slot \in 0 .. MaxSteps - 1
      <3> HIDE DEF pos
      <3>1. QED
        BY <1>3, <2>1, <2>4, <2>5
    <2>7. buf' = IF TooOld(SNOf(i)) \/ slot < 0 THEN buf ELSE [buf EXCEPT ![slot] = i]
      BY <1>1 DEF Set
    <2> HIDE DEF slot
    <2>8. i \in Contents
      BY ContentsAre
    <2>9. QED
      BY <2>1, <2>6, <2>7, <2>8
  <1>10. nacker' \in NackQueues
    <2>1. SNOf(i) \in Nat /\ nacker \in NackQueues
      BY <1>3, <1>4, SNIs DEF BucketTypeOK
    <2>2. QED
      BY <1>1, <2>1, RemoveType
  <1>11. BucketTypeOK'
    BY <1>1, <1>9, <1>10 DEF BucketTypeOK
  <1>12. i < newest
    BY <1>2, <1>5
  <1>13. QED
    BY <1>1, <1>7, <1>8, <1>11, <1>12

LEMMA EntriesAre ==
  ASSUME NEW q \in NackQueues
  PROVE  /\ q.nacks \in Seq(NackEntries) /\ Len(q.nacks) \in Nat
         /\ DOMAIN q.nacks = 1 .. Len(q.nacks)
         /\ \A k \in 1 .. Len(q.nacks) : q.nacks[k] \in NackEntries /\ q.nacks[k].sn \in Nat
         /\ q.counter \in Nat /\ q.maxSN \in Nat
  <1>1. q.nacks \in Seq(NackEntries) /\ q.counter \in Nat /\ q.maxSN \in Nat
    BY DEF NackQueues
  <1>2. PICK s \in Seq(NackEntries) : s = q.nacks
    BY <1>1
  <1>3. Len(s) \in Nat /\ DOMAIN s = 1 .. Len(s) /\ \A k \in 1 .. Len(s) : s[k] \in NackEntries
    OBVIOUS
  <1>4. \A e \in NackEntries : e.sn \in Nat
    BY DEF NackEntries
  <1>5. QED
    BY <1>1, <1>2, <1>3, <1>4

\* A newer packet leaves those between it and the newest one so far missing.
LEMMA LatestMissing ==
  ASSUME BucketTypeOK, HeadOK, NEW i \in Packets, NEW np, Latest(i, np), NEW p
  PROVE  p \in Missing' <=> p \in Missing \/ \E t \in 1 .. np : p = i - t
  <1>1. /\ received' = received \cup {i} /\ newest' = i /\ newest < i /\ np \in Nat
        /\ IF received = {} THEN np = 0 /\ i \in {1, 2} ELSE np = i - newest - 1
    BY DEF Latest
  <1>2. i \in Nat /\ \A j \in Packets : j \in Nat /\ (j \in Nat /\ j >= 1)
    BY DEF Packets
  <1>3. p \in Missing' <=> p \in Packets /\ p < i /\ p \notin received' /\ \E j \in received' : j < p
    BY <1>1 DEF Missing, Packets
  <1>4. p \in Missing <=> p \in Packets /\ p < newest /\ p \notin received /\ \E j \in received : j < p
    BY DEF Missing
  <1>5. PICK n \in Nat : n = newest /\ (\A j \in received : j \in Nat /\ j >= 1 /\ j <= n) /\ (received # {} => n \in received)
    BY NewestIs
  <1>6. ASSUME p \in Missing' PROVE p \in Missing \/ \E t \in 1 .. np : p = i - t
    <2>1. p \in Nat /\ p < i /\ p \notin received
      BY <1>1, <1>2, <1>3, <1>6
    <2>2. PICK j \in received : j < p
      BY <1>1, <1>2, <1>3, <1>6, <2>1
    <2>3. np = i - n - 1 /\ p # n
      BY <1>1, <1>5, <2>1, <2>2
    <2>4. CASE p < n
      BY <1>3, <1>4, <1>5, <1>6, <2>1, <2>2, <2>4
    <2>5. CASE p > n
      <3>1. i - p \in 1 .. np /\ p = i - (i - p)
        BY <1>1, <1>2, <2>1, <2>3, <2>5
      <3>2. QED
        BY <3>1
    <2>6. QED
      BY <1>5, <2>1, <2>3, <2>4, <2>5
  <1>7. ASSUME p \in Missing PROVE p \in Missing'
    <2>1. p \in Nat /\ p < n /\ n < i
      BY <1>1, <1>2, <1>4, <1>5, <1>7
    <2>2. p < i /\ p \notin received'
      BY <1>1, <1>2, <1>4, <1>7, <2>1
    <2>3. QED
      BY <1>1, <1>3, <1>4, <1>7, <2>2
  <1>8. ASSUME NEW t \in 1 .. np, p = i - t PROVE p \in Missing'
    <2>1. received # {} /\ np = i - n - 1 /\ n \in received
      BY <1>1, <1>5
    <2>2. p \in Nat /\ n < p /\ p < i /\ p >= 1
      BY <1>1, <1>2, <1>5, <1>8, <2>1
    <2>3. p \in Packets /\ p \notin received' /\ n \in received'
      <3>1. MaxIndex \in Nat /\ i <= MaxIndex
        BY NumberConstants DEF Packets
      <3>2. p \in Packets
        BY <1>2, <2>2, <3>1 DEF Packets
      <3>3. QED
        BY <1>1, <1>2, <1>5, <2>1, <2>2, <3>2
    <2>4. QED
      BY <1>3, <2>2, <2>3
  <1>9. QED
    BY <1>6, <1>7, <1>8

\* The queue and the missing numbers when a newer packet comes in the first cycle.
FirstPush(f, i, np) ==
    /\ nacker' = Pairs(f[np]).queue /\ OnLost(Pairs(f[np]))
    /\ BelowHead(nacker, StartSN + newest)
    /\ PushedFrom(f, nacker, StartSN + i, np)
    /\ PushedOK(f, nacker, StartSN + i, np)
    /\ \A m \in 1 .. Len(f[np].nacks) :
          f[np].nacks[m].sn # 0 => f[np].nacks[m].sn - StartSN \in Missing'

LEMMA LatestPushes ==
  ASSUME NackInv, NEW i \in Packets, NEW np, Latest(i, np), StartSN + i < Modulus
  PROVE  /\ FirstCycle /\ StartSN + newest + np < StartSN + i /\ 2 * np < Modulus
         /\ StartSN + i \in Nat /\ StartSN + newest \in Nat /\ np \in Nat
         /\ \E f : FirstPush(f, i, np)
  <1>1. BucketTypeOK /\ HeadOK /\ QueueOK /\ nacker \in NackQueues
    BY DEF NackInv, BucketTypeOK
  <1>2. PICK n \in Nat : n = newest
    BY <1>1, NewestIs
  <1>3. PICK H \in Nat : Modulus = 2 * H /\ MaxGap < H /\ MaxGap \in Nat /\ StartSN \in Nat
    BY NumberConstants
  <1>4. i \in Nat /\ np \in Nat /\ n < i /\ n + np < i /\ np < MaxGap
    BY <1>2 DEF Latest, Packets
  <1>5. PICK h \in Nat, sn \in Nat : h = StartSN + n /\ sn = StartSN + i /\ h + np < sn /\ sn < Modulus /\ 2 * np < Modulus /\ h < Modulus
    <2>1. StartSN + n \in Nat /\ StartSN + i \in Nat /\ StartSN + n + np < StartSN + i /\ 2 * np < Modulus /\ StartSN + n < Modulus
      BY <1>3, <1>4
    <2>2. QED
      BY <2>1
  <1>6. FirstCycle
    BY <1>2, <1>5 DEF FirstCycle
  <1>7. nacker.cycles = 0 /\ nacker.maxSN <= h /\ Ascending(nacker.nacks)
        /\ \A k \in 1 .. Len(nacker.nacks) :
              nacker.nacks[k].sn # 0 => nacker.nacks[k].sn - StartSN \in Missing
    BY <1>1, <1>2, <1>5, <1>6, EntriesAre DEF QueueOK
  <1>8. \A k \in 1 .. Len(nacker.nacks) : nacker.nacks[k].sn \in Nat /\ nacker.nacks[k].sn <= h
    <2>1. TAKE k \in 1 .. Len(nacker.nacks)
    <2>2. PICK x \in Nat : x = nacker.nacks[k].sn
      BY <1>1, EntriesAre
    <2>3. CASE x = 0
      BY <1>5, <2>2, <2>3
    <2>4. CASE x # 0
      <3>1. x - StartSN \in Missing
        BY <1>7, <2>2, <2>4
      <3>2. x - StartSN < n
        BY <1>2, <3>1 DEF Missing
      <3>3. QED
        BY <1>3, <1>5, <2>2, <3>2
    <2>5. QED
      BY <2>3, <2>4
  <1>9. BelowHead(nacker, h)
    BY <1>1, <1>7, <1>8 DEF BelowHead
  <1>10. SNOf(i) = sn
    BY <1>4, <1>5, SNIs
  <1>11. PICK f : PushedFrom(f, nacker, sn, np) /\ PushBefore(nacker, sn, np) = f[np]
    BY <1>4, PushBeforeIs
  <1>12. PushedFrom(f, nacker, sn, np)
    BY <1>11
  <1>13. PushedOK(f, nacker, sn, np)
    <2>1. \A j \in 0 .. np : PushedOK(f, nacker, sn, j)
      BY <1>4, <1>5, <1>9, <1>12, PushedAll
    <2>2. np \in 0 .. np
      BY <1>4
    <2>3. QED
      BY <2>1, <2>2
  <1>14. \A m \in 1 .. Len(f[np].nacks) :
            f[np].nacks[m].sn # 0 => f[np].nacks[m].sn - StartSN \in Missing'
    <2>1. TAKE m \in 1 .. Len(f[np].nacks)
    <2>2. HAVE f[np].nacks[m].sn # 0
    <2>3. \/ \E k \in 1 .. Len(nacker.nacks) : f[np].nacks[m] = nacker.nacks[k]
          \/ \E t \in 1 .. np : f[np].nacks[m] = [sn |-> sn - t, nacked |-> 0]
      BY <1>13 DEF PushedOK
    <2>4. CASE \E k \in 1 .. Len(nacker.nacks) : f[np].nacks[m] = nacker.nacks[k]
      <3>1. f[np].nacks[m].sn - StartSN \in Missing
        BY <1>7, <2>2, <2>4
      <3>2. QED
        BY <1>1, <3>1, LatestMissing
    <2>5. CASE \E t \in 1 .. np : f[np].nacks[m] = [sn |-> sn - t, nacked |-> 0]
      <3>1. PICK t \in 1 .. np : f[np].nacks[m].sn = sn - t
        BY <2>5
      <3>2. sn - t - StartSN = i - t
        BY <1>3, <1>4, <1>5
      <3>3. QED
        BY <1>1, <3>1, <3>2, LatestMissing
    <2>6. QED
      BY <2>3, <2>4, <2>5
  <1>15. FirstPush(f, i, np)
    <2>1. nacker' = Pairs(f[np]).queue /\ OnLost(Pairs(f[np]))
      BY <1>10, <1>11 DEF Latest
    <2>2. QED
      BY <1>2, <1>5, <1>9, <1>12, <1>13, <1>14, <2>1 DEF FirstPush
  <1>16. QED
    BY <1>2, <1>4, <1>5, <1>6, <1>15

-----------------------------------------------------------------------------
(* What has arrived is not asked for: NackInv.                             *)

LEMMA PushedEntriesSmall ==
  ASSUME BucketTypeOK, HeadOK, NEW i \in Packets, newest' = i, StartSN + i < Modulus,
         NEW q \in NackQueues,
         \A m \in 1 .. Len(q.nacks) : q.nacks[m].sn # 0 => q.nacks[m].sn - StartSN \in Missing'
  PROVE  \A m \in 1 .. Len(q.nacks) : q.nacks[m].sn < Modulus
  <1>1. TAKE m \in 1 .. Len(q.nacks)
  <1>2. Modulus \in Nat \ {0} /\ StartSN \in Nat /\ i \in Nat
    BY NumberConstants DEF Packets
  <1>3. PICK x \in Nat : x = q.nacks[m].sn
    BY EntriesAre
  <1>4. CASE x = 0
    BY <1>2, <1>3, <1>4
  <1>5. CASE x # 0
    <2>1. x - StartSN < i
      BY <1>3, <1>5 DEF Missing
    <2>2. QED
      BY <1>2, <1>3, <2>1
  <1>6. QED
    BY <1>4, <1>5

\* A newer packet keeps what the queue promises.
LEMMA LatestKeepsQueue ==
  ASSUME NackInv, NEW i \in Packets, NEW np, Latest(i, np)
  PROVE  QueueOK'
  <1>1. SUFFICES ASSUME FirstCycle'
                 PROVE  /\ nacker'.cycles = 0
                        /\ nacker'.maxSN <= StartSN + newest'
                        /\ Ascending(nacker'.nacks)
                        /\ \A k \in DOMAIN nacker'.nacks :
                              nacker'.nacks[k].sn # 0 => nacker'.nacks[k].sn - StartSN \in Missing'
    BY DEF QueueOK, Ascending
  <1>2. newest' = i /\ StartSN + i < Modulus
    BY <1>1 DEF FirstCycle, Latest
  <1>3. PICK f : FirstPush(f, i, np)
    BY <1>2, LatestPushes
  <1>4. PICK q : q = f[np]
    OBVIOUS
  <1>5. /\ q \in NackQueues /\ q.cycles = 0 /\ Ascending(q.nacks) /\ q.maxSN < StartSN + i
        /\ \A m \in 1 .. Len(q.nacks) : q.nacks[m].sn # 0 => q.nacks[m].sn - StartSN \in Missing'
    BY <1>3, <1>4 DEF FirstPush, PushedOK
  <1>6. PICK r : r = Pairs(q)
    OBVIOUS
  <1>7. /\ nacker' = r.queue /\ r.queue \in NackQueues /\ r.queue.cycles = q.cycles /\ r.queue.maxSN = q.maxSN
        /\ q.counter < 2 => r.queue.nacks = q.nacks
    BY <1>3, <1>4, <1>5, <1>6, PairsType DEF FirstPush
  <1>8. nacker'.cycles = 0 /\ nacker'.maxSN <= StartSN + newest'
    <2>1. PICK x \in Nat, y \in Nat : x = q.maxSN /\ y = StartSN + i
      BY <1>2, <1>5, EntriesAre, LatestPushes
    <2>2. QED
      BY <1>2, <1>5, <1>7, <2>1
  <1>9. DOMAIN nacker'.nacks = 1 .. Len(nacker'.nacks)
    BY <1>7, EntriesAre
  <1>10. CASE q.counter < 2
    <2>1. nacker'.nacks = q.nacks
      BY <1>7, <1>10
    <2>2. QED
      BY <1>5, <1>8, <1>9, <2>1
  <1>11. CASE ~(q.counter < 2)
    <2>1. \A m \in 1 .. Len(q.nacks) : q.nacks[m].sn < Modulus
      BY <1>2, <1>5, PushedEntriesSmall DEF NackInv
    <2>2. PICK s : s = r.queue.nacks
      OBVIOUS
    <2>3. Ascending(s) /\ RoundOK(q, r, s)
      BY <1>5, <1>6, <1>11, <2>1, <2>2, PairsIs
    <2>4. \A m \in 1 .. Len(s) : s[m].sn # 0 => s[m].sn - StartSN \in Missing'
      <3>1. TAKE m \in 1 .. Len(s)
      <3>2. PICK j \in 1 .. Len(q.nacks) : s[m] = [sn |-> q.nacks[j].sn, nacked |-> q.nacks[j].nacked + 1]
        BY <2>3 DEF RoundOK
      <3>3. s[m].sn = q.nacks[j].sn
        BY <3>2
      <3>4. QED
        BY <1>5, <3>3
    <2>5. QED
      BY <1>7, <1>8, <1>9, <2>2, <2>3, <2>4
  <1>12. QED
    BY <1>10, <1>11

\* A late packet is no longer missing; the others stay so.
LEMMA LateMissing ==
  ASSUME BucketTypeOK, HeadOK, NEW i \in Packets, i < newest, received' = received \cup {i}, newest' = newest,
         NEW p \in Missing, p # i
  PROVE  p \in Missing'
  BY DEF Missing, Packets

\* A late packet takes its number off the queue.
LEMMA LateKeepsQueue ==
  ASSUME NackInv, NEW i \in Packets, i < newest, received' = received \cup {i}, newest' = newest,
         nacker' = RemoveNack(nacker, SNOf(i)), nacker' \in NackQueues
  PROVE  QueueOK'
  <1>1. SUFFICES ASSUME FirstCycle'
                 PROVE  /\ nacker'.cycles = 0
                        /\ nacker'.maxSN <= StartSN + newest'
                        /\ Ascending(nacker'.nacks)
                        /\ \A k \in DOMAIN nacker'.nacks :
                              nacker'.nacks[k].sn # 0 => nacker'.nacks[k].sn - StartSN \in Missing'
    BY DEF QueueOK, Ascending
  <1>2. FirstCycle /\ BucketTypeOK /\ HeadOK /\ QueueOK /\ nacker \in NackQueues
    BY <1>1 DEF FirstCycle, NackInv, BucketTypeOK
  <1>3. Modulus \in Nat \ {0} /\ StartSN \in Nat /\ i \in Nat \ {0} /\ newest \in Nat
    BY <1>2, NumberConstants, NewestIs DEF Packets
  <1>4. PICK sn \in Nat \ {0} : sn = StartSN + i /\ sn < Modulus
    BY <1>2, <1>3 DEF FirstCycle
  <1>5. SNOf(i) = sn
    BY <1>3, <1>4, SNIs
  <1>6. /\ nacker.cycles = 0 /\ nacker.maxSN <= StartSN + newest /\ Ascending(nacker.nacks)
        /\ \A k \in 1 .. Len(nacker.nacks) :
              nacker.nacks[k].sn # 0 => nacker.nacks[k].sn - StartSN \in Missing
    BY <1>2, EntriesAre DEF QueueOK
  <1>7. PICK p : p = nacker'
    OBVIOUS
  <1>8. /\ p.cycles = 0 /\ p.maxSN = nacker.maxSN /\ Ascending(p.nacks)
        /\ \A m \in 1 .. Len(p.nacks) : \E k \in 1 .. Len(nacker.nacks) :
              p.nacks[m] = nacker.nacks[k] /\ nacker.nacks[k].sn # sn
    <2>1. PICK q : q = nacker
      OBVIOUS
    <2>2. q \in NackQueues /\ q.cycles = 0 /\ Ascending(q.nacks) /\ p = RemoveNack(q, sn)
      BY <1>2, <1>5, <1>6, <1>7, <2>1
    <2>3. p.cycles = 0 /\ p.maxSN = q.maxSN /\ Ascending(p.nacks) /\ Removed(p, q, sn)
      BY <2>2, RemoveNackIs
    <2>4. QED
      BY <2>1, <2>3, Zenon DEF Removed
  <1>9. DOMAIN p.nacks = 1 .. Len(p.nacks)
    BY <1>7, EntriesAre
  <1>10. \A m \in 1 .. Len(p.nacks) : p.nacks[m].sn # 0 => p.nacks[m].sn - StartSN \in Missing'
    <2>1. TAKE m \in 1 .. Len(p.nacks)
    <2>2. HAVE p.nacks[m].sn # 0
    <2>3. PICK k \in 1 .. Len(nacker.nacks) : p.nacks[m] = nacker.nacks[k] /\ nacker.nacks[k].sn # sn
      BY <1>8
    <2>4. PICK x \in Nat : x = nacker.nacks[k].sn
      BY <1>2, EntriesAre
    <2>5. x - StartSN \in Missing /\ x # sn
      BY <1>6, <2>2, <2>3, <2>4
    <2>6. x - StartSN # i
      BY <1>3, <1>4, <2>4, <2>5
    <2>7. x - StartSN \in Missing'
      BY <1>2, <2>5, <2>6, LateMissing
    <2>8. QED
      BY <2>3, <2>4, <2>7
  <1>11. QED
    BY <1>6, <1>7, <1>8, <1>9, <1>10

LEMMA NackInit ==
  BucketInit => NackInv
  <1>1. SUFFICES ASSUME BucketInit PROVE NackInv
    OBVIOUS
  <1>2. /\ received = {} /\ maxSeqNo = 0 /\ headSN = 0 /\ step = 0
        /\ buf \in PoolMemory /\ nacker = NewNackQueue
        /\ asked = [i \in Packets |-> 0]
    BY <1>1 DEF BucketInit
  <1>3. /\ MaxNackCache \in Nat /\ MaxNackTimes \in Nat /\ Modulus \in Nat \ {0} /\ MaxSteps \in Nat \ {0}
        /\ StartSN \in Nat
    BY NumberConstants
  <1>4. PICK s : s = [i \in 1 .. MaxNackCache + 1 |-> [sn |-> 0, nacked |-> 0]]
    OBVIOUS
  <1>5. s \in Seq(NackEntries) /\ DOMAIN s = 1 .. MaxNackCache + 1
    <2>1. [sn |-> 0, nacked |-> 0] \in NackEntries
      BY <1>3 DEF NackEntries
    <2>2. QED
      BY <1>3, <1>4, <2>1
  <1>6. \A k \in DOMAIN s : s[k].sn = 0
    BY <1>4
  <1>7. nacker = [nacks |-> s, counter |-> 0, maxSN |-> 0, kfSN |-> 0, cycles |-> 0]
    BY <1>2, <1>4 DEF NewNackQueue
  <1>8. nacker \in NackQueues
    BY <1>5, <1>7 DEF NackQueues
  <1>9. BucketTypeOK
    BY <1>2, <1>3, <1>8, PoolMemoryIs DEF BucketTypeOK
  <1>10. HeadOK
    BY <1>2, PoolMemoryIs DEF HeadOK
  <1>11. QueueOK
    <2>1. newest = 0
      BY <1>2 DEF newest
    <2>2. nacker.cycles = 0 /\ nacker.maxSN = 0 /\ nacker.nacks = s
      BY <1>7
    <2>3. nacker.maxSN <= StartSN + newest
      BY <1>3, <2>1, <2>2
    <2>4. Ascending(s)
      BY <1>6 DEF Ascending
    <2>5. QED
      BY <1>6, <2>2, <2>3, <2>4 DEF QueueOK
  <1>12. QED
    BY <1>9, <1>10, <1>11 DEF NackInv

LEMMA NackStep ==
  ASSUME NackInv, [BucketNext]_bufferVars
  PROVE  NackInv'
  <1>1. BucketTypeOK /\ HeadOK
    BY DEF NackInv
  <1>2. ASSUME NEW i \in Packets, First(i) PROVE NackInv'
    <2>1. /\ Latest(i, 0) /\ maxSeqNo' = SNOf(i) /\ headSN' = SNOf(i)
          /\ buf' = [buf EXCEPT ![StepOver(0 + 1)] = i] /\ step' = (StepOver(0 + 1) + 1) % MaxSteps
      BY <1>1, <1>2, FirstIsLatest
    <2>2. BucketTypeOK' /\ HeadOK'
      BY <1>1, <2>1, LatestKeepsTypes
    <2>3. QueueOK'
      BY <2>1, LatestKeepsQueue
    <2>4. QED
      BY <2>2, <2>3 DEF NackInv
  <1>3. ASSUME NEW i \in Packets, Newer(i) PROVE NackInv'
    <2>1. PICK np \in Nat :
            /\ Latest(i, np) /\ maxSeqNo' = SNOf(i) /\ headSN' = SNOf(i)
            /\ buf' = [buf EXCEPT ![StepOver(np + 1)] = i] /\ step' = (StepOver(np + 1) + 1) % MaxSteps
      BY <1>1, <1>3, NewerIsLatest
    <2>2. BucketTypeOK' /\ HeadOK'
      BY <1>1, <2>1, LatestKeepsTypes
    <2>3. QueueOK'
      BY <2>1, LatestKeepsQueue
    <2>4. QED
      BY <2>2, <2>3 DEF NackInv
  <1>4. ASSUME NEW i \in Packets, Late(i) PROVE NackInv'
    <2>1. /\ i < newest /\ received' = received \cup {i} /\ newest' = newest
          /\ nacker' = RemoveNack(nacker, SNOf(i)) /\ BucketTypeOK' /\ HeadOK'
      BY <1>1, <1>4, LateIs
    <2>2. nacker' \in NackQueues
      BY <2>1 DEF BucketTypeOK
    <2>3. QueueOK'
      BY <2>1, <2>2, LateKeepsQueue
    <2>4. QED
      BY <2>1, <2>3 DEF NackInv
  <1>5. ASSUME UNCHANGED bufferVars PROVE NackInv'
    BY <1>5 DEF NackInv, BucketTypeOK, HeadOK, QueueOK, Ascending, FirstCycle, Missing, newest,
                bufferVars, bucketVars, SNOf
  <1>6. QED
    BY <1>2, <1>3, <1>4, <1>5 DEF BucketNext

\* The inductive invariant of the nackQueue (nack.go push, remove and pairs): for
\* any losses and late arrivals it is a sorted list, and before the first
\* wrap-around an entry other than zero is the number of a packet that is missing.
THEOREM NackInvariance == BucketSpec => []NackInv
  BY NackInit, NackStep, PTL DEF BucketSpec

\* Buffer, Bucket and nackQueue keep their types: an entry is never asked for more
\* than maxNackTimes times (nack.go pairs).
THEOREM BucketTypeCorrect == BucketSpec => []BucketTypeOK
  <1>1. NackInv => BucketTypeOK
    BY DEF NackInv
  <1>2. QED
    BY <1>1, NackInvariance, PTL

\* ArrivedIsNotAskedFor (bucket.go addPacket, nack.go remove): a packet that came
\* late is off the queue, whatever was pushed, dropped or given up around it.
THEOREM ArrivedNotAsked == BucketSpec => []ArrivedIsNotAskedFor
  <1>1. NackInv => ArrivedIsNotAskedFor
    <2>1. SUFFICES ASSUME NackInv, FirstCycle, NEW i \in received, Queued(i) PROVE FALSE
      BY DEF ArrivedIsNotAskedFor
    <2>2. BucketTypeOK /\ HeadOK /\ nacker \in NackQueues
      BY <2>1 DEF NackInv, BucketTypeOK
    <2>3. /\ i \in Nat /\ i >= 1 /\ i <= newest /\ newest \in Nat /\ StartSN \in Nat /\ Modulus \in Nat \ {0}
      BY <2>2, NewestIs, NumberConstants
    <2>4. PICK sn \in Nat : sn = StartSN + i /\ sn < Modulus /\ sn # 0
      BY <2>1, <2>3 DEF FirstCycle
    <2>5. SNOf(i) = sn
      BY <2>3, <2>4, SNIs
    <2>6. PICK k \in DOMAIN nacker.nacks : nacker.nacks[k].sn % Modulus = sn
      BY <2>1, <2>5 DEF Queued
    <2>7. PICK x \in Nat : x = nacker.nacks[k].sn
      BY <2>2, <2>6, EntriesAre
    <2>8. x # 0 => x - StartSN \in Missing
      BY <2>1, <2>7 DEF NackInv, QueueOK
    <2>9. x < Modulus
      <3>1. x # 0 => x - StartSN < newest
        BY <2>8 DEF Missing
      <3>2. QED
        BY <2>1, <2>3, <2>7, <3>1 DEF FirstCycle
    <2>10. x = sn
      <3>1. x \in 0 .. Modulus - 1
        BY <2>3, <2>9
      <3>2. QED
        BY <2>3, <2>6, <2>7, <3>1, ModSmall
    <2>11. i \in Missing
      <3>1. x # 0 /\ x - StartSN = i
        BY <2>3, <2>4, <2>10
      <3>2. QED
        BY <2>8, <3>1
    <2>12. QED
      BY <2>11 DEF Missing
  <1>2. QED
    BY <1>1, NackInvariance, PTL

-----------------------------------------------------------------------------
(* What is missing is asked for: AskInv.                                   *)

\* The entries know how often their packets have been asked for.
Tallied(q) ==
    \A m \in 1 .. Len(q.nacks) :
        q.nacks[m].sn # 0 => asked[q.nacks[m].sn - StartSN] = q.nacks[m].nacked

\* The packets of M that are not given up have an entry that is to be asked for.
Covered(q, M) ==
    \A p \in M :
        \/ asked[p] = MaxNackTimes
        \/ \E m \in 1 .. Len(q.nacks) : q.nacks[m].sn = StartSN + p /\ q.nacks[m].nacked < MaxNackTimes

LEMMA AskParts ==
  ASSUME AskInv, FirstCycle
  PROVE  /\ NackInv /\ BucketTypeOK /\ HeadOK /\ nacker \in NackQueues /\ nacker.counter \in 0 .. 2
         /\ Waiting \in {0, 1} /\ Room(nacker, Waiting) /\ Tallied(nacker) /\ Covered(nacker, Missing)
         /\ \A p \in Packets : p > newest => asked[p] = 0
  <1>1. NackInv /\ BucketTypeOK /\ HeadOK /\ nacker \in NackQueues /\ RoomOK /\ CountsOK /\ QueueOK
    BY DEF AskInv, NackInv, BucketTypeOK
  <1>2. DOMAIN nacker.nacks = 1 .. Len(nacker.nacks) /\ nacker.counter \in Nat
    BY <1>1, EntriesAre
  <1>3. nacker.counter \in 0 .. 2 /\ Waiting \in {0, 1}
    BY <1>1, <1>2 DEF RoomOK, Waiting
  <1>4. Room(nacker, Waiting)
    BY <1>1, <1>2 DEF RoomOK, Room
  <1>5. Tallied(nacker) /\ \A p \in Packets : p > newest => asked[p] = 0
    BY <1>1, <1>2 DEF CountsOK, Tallied
  <1>6. Covered(nacker, Missing)
    <2>1. SUFFICES ASSUME NEW p \in Missing, asked[p] # MaxNackTimes
                   PROVE  \E m \in 1 .. Len(nacker.nacks) :
                             nacker.nacks[m].sn = StartSN + p /\ nacker.nacks[m].nacked < MaxNackTimes
      BY DEF Covered
    <2>2. PICK m \in 1 .. Len(nacker.nacks) : nacker.nacks[m].sn = StartSN + p
      BY <1>1, <1>2, <2>1 DEF CountsOK
    <2>3. StartSN \in Nat /\ p \in Nat \ {0} /\ MaxNackTimes \in Nat
      BY NumberConstants DEF Missing, Packets
    <2>4. nacker.nacks[m].sn # 0 /\ nacker.nacks[m].sn - StartSN = p
      BY <2>2, <2>3
    <2>5. asked[p] = nacker.nacks[m].nacked
      BY <1>5, <2>4 DEF Tallied
    <2>6. nacker.nacks[m].nacked \in 0 .. MaxNackTimes
      BY <1>1, EntriesAre DEF NackEntries
    <2>7. QED
      BY <2>1, <2>2, <2>3, <2>5, <2>6
  <1>7. QED
    BY <1>1, <1>3, <1>4, <1>5, <1>6

LEMMA ThreeBehind ==
  ASSUME NEW a \in Int, NEW m \in Int, NEW v \in Int, NEW k \in Int, NEW c \in Int, NEW w \in Int, NEW np \in Int,
         a - m <= v - k + np, v - k < c + w
  PROVE  a - m < c + (w + np)
  OBVIOUS

\* What holds when the missing numbers are pushed, before the round of NACKs.
LEMMA PushedCounts ==
  ASSUME LongEnough, AskInv, NEW i \in Packets, NEW np, Latest(i, np), StartSN + i < Modulus,
         NEW f, FirstPush(f, i, np), NEW q, q = f[np]
  PROVE  /\ q \in NackQueues /\ q.counter = nacker.counter + np
         /\ Room(q, Waiting + np) /\ Tallied(q) /\ Covered(q, Missing')
  <1>1. /\ FirstCycle /\ StartSN + newest + np < StartSN + i /\ 2 * np < Modulus
        /\ StartSN + i \in Nat /\ StartSN + newest \in Nat /\ np \in Nat
    BY LatestPushes DEF AskInv
  <1>2. /\ NackInv /\ BucketTypeOK /\ HeadOK /\ nacker \in NackQueues
        /\ Room(nacker, Waiting) /\ Tallied(nacker) /\ Covered(nacker, Missing)
        /\ \A p \in Packets : p > newest => asked[p] = 0
    BY <1>1, AskParts
  <1>3. PICK w \in {0, 1} : w = Waiting
    BY <1>1, AskParts
  <1>4. PICK sn \in Nat, h \in Nat : sn = StartSN + i /\ h = StartSN + newest /\ h + np < sn /\ sn < Modulus
    BY <1>1
  <1>5. PushedOK(f, nacker, sn, np) /\ PushedFrom(f, nacker, sn, np) /\ BelowHead(nacker, h)
    BY <1>4 DEF FirstPush
  <1>6. PICK l : l = nacker
    OBVIOUS
  <1>7. /\ l \in NackQueues /\ Room(l, w) /\ Tallied(l) /\ Covered(l, Missing)
        /\ PushedOK(f, l, sn, np) /\ PushedFrom(f, l, sn, np) /\ BelowHead(l, h)
    BY <1>2, <1>3, <1>5, <1>6
  <1>8. q \in NackQueues /\ q.counter = l.counter + np
        /\ \A m \in 1 .. Len(q.nacks) :
            \/ \E k \in 1 .. Len(l.nacks) :
                  q.nacks[m] = l.nacks[k] /\ Len(q.nacks) - m <= Len(l.nacks) - k + np
            \/ /\ Len(q.nacks) - m < np
               /\ \E t \in 1 .. np : q.nacks[m] = [sn |-> sn - t, nacked |-> 0]
    BY <1>7 DEF PushedOK
  <1>9. StartSN \in Nat /\ i \in Nat /\ MaxGap \in Nat /\ MaxNackTimes \in Nat \ {0} /\ np < MaxGap /\ newest \in Nat
        /\ MaxIndex \in Nat /\ i \in 1 .. MaxIndex /\ newest + np < i
    BY <1>2, NumberConstants, NewestIs DEF Packets, Latest
  <1>10. \A t \in 1 .. np : asked[i - t] = 0 /\ (sn - t) - StartSN = i - t
    <2>1. TAKE t \in 1 .. np
    <2>2. i - t \in 1 .. MaxIndex /\ i - t > newest /\ (sn - t) - StartSN = i - t
      BY <1>1, <1>4, <1>9
    <2>3. QED
      BY <1>2, <2>2 DEF Packets
  <1>11. Tallied(q)
    <2>1. SUFFICES ASSUME NEW m \in 1 .. Len(q.nacks), q.nacks[m].sn # 0
                   PROVE  asked[q.nacks[m].sn - StartSN] = q.nacks[m].nacked
      BY DEF Tallied
    <2>2. CASE \E k \in 1 .. Len(l.nacks) : q.nacks[m] = l.nacks[k]
      BY <1>7, <2>1, <2>2 DEF Tallied
    <2>3. CASE \E t \in 1 .. np : q.nacks[m] = [sn |-> sn - t, nacked |-> 0]
      <3>1. PICK t \in 1 .. np : q.nacks[m] = [sn |-> sn - t, nacked |-> 0]
        BY <2>3
      <3>2. q.nacks[m].sn = sn - t /\ q.nacks[m].nacked = 0
        BY <3>1
      <3>3. QED
        BY <1>10, <3>2
    <2>4. QED
      BY <1>8, <2>2, <2>3
  <1>12. Room(q, w + np)
    <2>1. SUFFICES ASSUME NEW m \in 1 .. Len(q.nacks), q.nacks[m].sn # 0
                   PROVE  Len(q.nacks) - m < q.nacks[m].nacked * MaxGap + (w + np)
      BY DEF Room
    <2>2. PICK a \in Nat : a = Len(q.nacks)
      BY <1>8, EntriesAre
    <2>3. CASE \E k \in 1 .. Len(l.nacks) :
                  q.nacks[m] = l.nacks[k] /\ Len(q.nacks) - m <= Len(l.nacks) - k + np
      <3>1. PICK k \in 1 .. Len(l.nacks) :
                  q.nacks[m] = l.nacks[k] /\ Len(q.nacks) - m <= Len(l.nacks) - k + np
        BY <2>3
      <3>2. Len(l.nacks) - k < l.nacks[k].nacked * MaxGap + w
        BY <1>7, <2>1, <3>1 DEF Room
      <3>3. PICK v \in Nat, c \in Nat : v = Len(l.nacks) /\ c = l.nacks[k].nacked * MaxGap
        <4>1. l.nacks[k].nacked \in Nat
          <5>1. l.nacks[k] \in NackEntries
            BY <1>7, EntriesAre
          <5>2. QED
            BY <1>9, <5>1 DEF NackEntries
        <4>2. l.nacks[k].nacked * MaxGap \in Nat
          BY <1>9, <4>1
        <4>3. QED
          BY <1>7, <4>2, EntriesAre
      <3>4. a - m <= v - k + np /\ v - k < c + w
        BY <2>2, <3>1, <3>2, <3>3
      <3>5. a - m < c + (w + np)
        <4>1. m \in Int /\ k \in Int /\ w \in Int
          BY <2>2, <3>3
        <4>2. QED
          BY <1>1, <3>4, <4>1, ThreeBehind
      <3>6. q.nacks[m].nacked * MaxGap = c
        BY <3>1, <3>3
      <3>7. QED
        BY <2>2, <3>5, <3>6
    <2>4. CASE Len(q.nacks) - m < np /\ \E t \in 1 .. np : q.nacks[m] = [sn |-> sn - t, nacked |-> 0]
      <3>1. q.nacks[m].nacked = 0
        BY <2>4
      <3>2. 0 * MaxGap = 0
        BY <1>9
      <3>3. a - m < 0 + (w + np)
        BY <1>1, <2>2, <2>4
      <3>4. QED
        BY <2>2, <3>1, <3>2, <3>3
    <2>5. QED
      BY <1>8, <2>3, <2>4
  <1>13. Covered(q, Missing')
    <2>1. SUFFICES ASSUME NEW p \in Missing', asked[p] # MaxNackTimes
                   PROVE  \E m \in 1 .. Len(q.nacks) : q.nacks[m].sn = StartSN + p /\ q.nacks[m].nacked < MaxNackTimes
      BY DEF Covered
    <2>2. PushedKeeps(f, l, sn, np)
      <3>1. np + w <= MaxGap /\ 2 * np < Modulus /\ np \in 0 .. np
        BY <1>1, <1>9
      <3>2. \A j \in 0 .. np : PushedKeeps(f, l, sn, j)
        BY <1>1, <1>4, <1>7, <3>1, PushedKept
      <3>3. QED
        BY <3>1, <3>2
    <2>3. CASE p \in Missing
      <3>1. PICK k \in 1 .. Len(l.nacks) : l.nacks[k].sn = StartSN + p /\ l.nacks[k].nacked < MaxNackTimes
        BY <1>7, <2>1, <2>3 DEF Covered
      <3>2. l.nacks[k].sn # 0
        <4>1. p \in Nat \ {0}
          BY <2>3 DEF Missing, Packets
        <4>2. QED
          BY <1>9, <3>1, <4>1
      <3>3. PICK m \in 1 .. Len(q.nacks) : q.nacks[m] = l.nacks[k]
        BY <2>2, <3>1, <3>2 DEF PushedKeeps
      <3>4. QED
        BY <3>1, <3>3
    <2>4. CASE \E t \in 1 .. np : p = i - t
      <3>1. PICK t \in 1 .. np : p = i - t
        BY <2>4
      <3>2. PICK m \in 1 .. Len(q.nacks) : q.nacks[m] = [sn |-> sn - t, nacked |-> 0]
        BY <2>2 DEF PushedKeeps
      <3>3. q.nacks[m].sn = sn - t /\ q.nacks[m].nacked = 0
        BY <3>2
      <3>4. sn - t = StartSN + p /\ 0 < MaxNackTimes
        BY <1>1, <1>4, <1>9, <3>1
      <3>5. QED
        BY <3>3, <3>4
    <2>5. QED
      BY <1>2, <2>1, <2>3, <2>4, LatestMissing
  <1>14. QED
    BY <1>3, <1>6, <1>8, <1>11, <1>12, <1>13

\* How often a packet has been asked for after a newer packet.
LEMMA AskedIs ==
  ASSUME BucketTypeOK, HeadOK, NEW i \in Packets, newest' = i, received' # {}, NEW r, OnLost(r),
         NEW p \in Packets, StartSN + i < Modulus
  PROVE  /\ p > i => asked'[p] = asked[p]
         /\ p <= i /\ StartSN + p \in r.asked => asked'[p] = asked[p] + 1
         /\ p <= i /\ StartSN + p \notin r.asked => asked'[p] = asked[p]
  <1>1. Max(received') = i
    BY DEF newest
  <1>2. asked'[p] = IF SNOf(p) \in r.asked /\ p \in i + 1 - Modulus .. i THEN asked[p] + 1 ELSE asked[p]
    BY <1>1 DEF OnLost
  <1>3. p \in Nat /\ i \in Nat /\ p >= 1 /\ Modulus \in Nat /\ StartSN \in Nat
    BY NumberConstants DEF Packets
  <1>4. CASE p > i
    BY <1>2, <1>3, <1>4
  <1>5. CASE p <= i
    <2>1. p \in i + 1 - Modulus .. i /\ StartSN + p < Modulus
      BY <1>3, <1>5
    <2>2. SNOf(p) = StartSN + p
      BY <1>3, <2>1, SNIs
    <2>3. ~(p > i)
      BY <1>3, <1>5
    <2>4. QED
      BY <1>2, <2>1, <2>2, <2>3
  <1>6. QED
    BY <1>3, <1>4, <1>5

\* A newer packet, a round of NACKs included, keeps the room and the counts.
LEMMA LatestKeepsCounts ==
  ASSUME LongEnough, AskInv, NackInv', NEW i \in Packets, NEW np, Latest(i, np), StartSN + i < Modulus
  PROVE  /\ \A k \in 1 .. Len(nacker'.nacks) :
               nacker'.nacks[k].sn # 0 =>
                  Len(nacker'.nacks) - k < nacker'.nacks[k].nacked * MaxGap + Waiting'
         /\ \A p \in Packets : p > i => asked'[p] = 0
         /\ \A k \in 1 .. Len(nacker'.nacks) :
               nacker'.nacks[k].sn # 0 =>
                   asked'[nacker'.nacks[k].sn - StartSN] = nacker'.nacks[k].nacked
         /\ \A p \in Missing' :
               \/ asked'[p] = MaxNackTimes
               \/ \E k \in 1 .. Len(nacker'.nacks) : nacker'.nacks[k].sn = StartSN + p
  <1>1. NackInv /\ BucketTypeOK /\ HeadOK
    BY DEF AskInv, NackInv
  <1>2. PICK f : FirstPush(f, i, np)
    BY <1>1, LatestPushes
  <1>3. PICK q, r, s : q = f[np] /\ r = Pairs(q) /\ s = r.queue.nacks
    OBVIOUS
  <1>4. FirstCycle /\ np \in Nat
    BY <1>1, LatestPushes
  <1>5. /\ q \in NackQueues /\ q.counter = nacker.counter + np
        /\ Room(q, Waiting + np) /\ Tallied(q) /\ Covered(q, Missing')
    BY <1>2, <1>3, PushedCounts
  <1>6. nacker.counter \in 0 .. 2 /\ Waiting \in {0, 1} /\ \A p \in Packets : p > newest => asked[p] = 0
    BY <1>4, AskParts
  <1>7. /\ nacker' = r.queue /\ OnLost(r) /\ Ascending(q.nacks)
        /\ \A m \in 1 .. Len(q.nacks) : q.nacks[m].sn # 0 => q.nacks[m].sn - StartSN \in Missing'
    BY <1>2, <1>3 DEF FirstPush, PushedOK
  <1>8. newest' = i /\ received' # {} /\ newest < i /\ np < MaxGap
    BY DEF Latest
  <1>9. /\ MaxGap \in Nat /\ StartSN \in Nat /\ i \in Nat /\ newest \in Nat /\ MaxNackTimes \in Nat
        /\ \A p \in Packets : p \in Nat /\ p >= 1
    BY <1>1, NumberConstants, NewestIs DEF Packets
  <1>10. \A p \in Missing' : p \in Packets /\ p \in Nat /\ p >= 1 /\ p < i /\ StartSN + p # 0
    BY <1>8, <1>9 DEF Missing, Packets
  <1>11. \A p \in Packets : p > i => asked'[p] = 0
    <2>1. TAKE p \in Packets
    <2>2. HAVE p > i
    <2>3. p > newest
      BY <1>8, <1>9, <2>2
    <2>4. asked'[p] = asked[p]
      BY <1>1, <1>7, <1>8, <2>2, AskedIs
    <2>5. QED
      BY <1>6, <2>3, <2>4
  <1>12. /\ r.queue \in NackQueues
         /\ q.counter < 2 => r.asked = {} /\ r.queue.nacks = q.nacks /\ r.queue.counter = q.counter + 1
         /\ ~(q.counter < 2) => r.queue.counter = 0
    BY <1>3, <1>5, PairsType
  <1>13. CASE q.counter < 2
    <2>1. nacker'.nacks = q.nacks /\ r.asked = {} /\ nacker'.counter = q.counter + 1
      BY <1>7, <1>12, <1>13
    <2>2. \A p \in Packets : asked'[p] = asked[p]
      <3>1. TAKE p \in Packets
      <3>2. p > i \/ p <= i
        BY <1>9
      <3>3. QED
        BY <1>1, <1>7, <1>8, <2>1, <3>2, AskedIs
    <2>3. Waiting + np <= Waiting' /\ Waiting' \in {0, 1}
      BY <1>4, <1>5, <1>6, <1>13, <2>1 DEF Waiting
    <2>4. \A k \in 1 .. Len(q.nacks) :
             q.nacks[k].sn # 0 => Len(q.nacks) - k < q.nacks[k].nacked * MaxGap + Waiting'
      <3>1. TAKE k \in 1 .. Len(q.nacks)
      <3>2. HAVE q.nacks[k].sn # 0
      <3>3. Len(q.nacks) - k < q.nacks[k].nacked * MaxGap + (Waiting + np)
        BY <1>5, <3>2 DEF Room
      <3>4. PICK a \in Int, c \in Int, w \in Int, w2 \in Int :
                a = Len(q.nacks) - k /\ c = q.nacks[k].nacked * MaxGap /\ w = Waiting + np /\ w2 = Waiting'
        <4>1. Len(q.nacks) \in Nat /\ q.nacks[k].nacked \in Nat
          BY <1>5, <1>9, EntriesAre DEF NackEntries
        <4>2. q.nacks[k].nacked * MaxGap \in Int
          BY <1>9, <4>1
        <4>3. Len(q.nacks) - k \in Int /\ Waiting + np \in Int /\ Waiting' \in Int
          BY <1>4, <1>6, <2>3, <4>1
        <4>4. QED
          BY <4>2, <4>3, Zenon
      <3>5. a < c + w /\ w <= w2
        BY <2>3, <3>3, <3>4
      <3>6. a < c + w2
        BY <3>5
      <3>7. QED
        BY <3>4, <3>6
    <2>5. \A k \in 1 .. Len(q.nacks) :
             q.nacks[k].sn # 0 => asked'[q.nacks[k].sn - StartSN] = q.nacks[k].nacked
      BY <1>5, <1>7, <1>10, <2>2 DEF Tallied
    <2>6. \A p \in Missing' :
            asked'[p] = MaxNackTimes \/ \E k \in 1 .. Len(q.nacks) : q.nacks[k].sn = StartSN + p
      BY <1>5, <1>10, <2>2 DEF Covered
    <2>7. QED
      BY <1>11, <2>1, <2>4, <2>5, <2>6
  <1>14. CASE ~(q.counter < 2)
    <2>1. \A m \in 1 .. Len(q.nacks) : q.nacks[m].sn < Modulus
      BY <1>1, <1>5, <1>7, <1>8, PushedEntriesSmall
    <2>2. RoundOK(q, r, s) /\ nacker'.nacks = s /\ nacker'.counter = 0 /\ s \in Seq(NackEntries)
      <3>1. RoundOK(q, r, s)
        BY <1>3, <1>5, <1>7, <1>14, <2>1, PairsIs
      <3>2. QED
        BY <1>3, <1>7, <1>12, <1>14, <3>1, EntriesAre
    <2>3. Waiting' = 0
      BY <2>2 DEF Waiting
    <2>4. \A j \in 1 .. Len(q.nacks) :
             q.nacks[j].nacked \in Nat /\ q.nacks[j].sn \in Nat
      <3>1. TAKE j \in 1 .. Len(q.nacks)
      <3>2. q.nacks[j] \in NackEntries
        BY <1>5, EntriesAre
      <3>3. QED
        BY <1>9, <3>2 DEF NackEntries
    <2>5. \A k \in 1 .. Len(s) : s[k].sn # 0 => Len(s) - k < s[k].nacked * MaxGap + Waiting'
      <3>1. TAKE k \in 1 .. Len(s)
      <3>2. HAVE s[k].sn # 0
      <3>3. PICK j \in 1 .. Len(q.nacks) :
               /\ s[k] = [sn |-> q.nacks[j].sn, nacked |-> q.nacks[j].nacked + 1]
               /\ Len(s) - k <= Len(q.nacks) - j
        BY <2>2 DEF RoundOK
      <3>4. s[k].sn = q.nacks[j].sn /\ s[k].nacked = q.nacks[j].nacked + 1
        BY <3>3
      <3>5. Len(q.nacks) - j < q.nacks[j].nacked * MaxGap + (Waiting + np)
        BY <1>5, <3>2, <3>4 DEF Room
      <3>6. PICK d \in Nat : d = q.nacks[j].nacked
        BY <2>4
      <3>7. d * MaxGap \in Nat /\ (d + 1) * MaxGap \in Nat /\ d * MaxGap + MaxGap <= (d + 1) * MaxGap
        BY <1>9, OneMore
      <3>8. PICK a \in Int, v \in Int, c \in Int, c2 \in Int, w \in Int :
                /\ a = Len(s) - k /\ v = Len(q.nacks) - j /\ c = d * MaxGap /\ c2 = (d + 1) * MaxGap
                /\ w = Waiting + np
        <4>1. Len(q.nacks) \in Nat /\ Len(s) \in Nat
          BY <1>5, <2>2, EntriesAre
        <4>2. Len(s) - k \in Int /\ Len(q.nacks) - j \in Int /\ Waiting + np \in Int
          BY <1>4, <1>6, <4>1
        <4>3. d * MaxGap \in Int /\ (d + 1) * MaxGap \in Int
          BY <3>7
        <4>4. QED
          BY <4>2, <4>3, Zenon
      <3>9. a <= v /\ v < c + w /\ w <= MaxGap /\ c + MaxGap <= c2
        BY <1>4, <1>6, <1>8, <1>9, <3>3, <3>5, <3>6, <3>7, <3>8
      <3>10. a < c2 + 0
        BY <1>9, <3>9
      <3>11. QED
        BY <2>3, <3>4, <3>6, <3>8, <3>10
    <2>6. ASSUME NEW j \in 1 .. Len(q.nacks), q.nacks[j].sn # 0, q.nacks[j].nacked < MaxNackTimes
          PROVE  q.nacks[j].sn \in r.asked
      BY <2>2, <2>6 DEF RoundOK
    <2>7. \A k \in 1 .. Len(s) : s[k].sn # 0 => asked'[s[k].sn - StartSN] = s[k].nacked
      <3>1. TAKE k \in 1 .. Len(s)
      <3>2. HAVE s[k].sn # 0
      <3>3. PICK j \in 1 .. Len(q.nacks) :
               /\ q.nacks[j].nacked < MaxNackTimes
               /\ s[k] = [sn |-> q.nacks[j].sn, nacked |-> q.nacks[j].nacked + 1]
        BY <2>2 DEF RoundOK
      <3>4. s[k].sn = q.nacks[j].sn /\ s[k].nacked = q.nacks[j].nacked + 1
        BY <3>3
      <3>5. PICK p : p = q.nacks[j].sn - StartSN
        OBVIOUS
      <3>6. p \in Missing' /\ p \in Packets /\ p \in Nat /\ p <= i /\ StartSN + p = q.nacks[j].sn
        BY <1>7, <1>9, <1>10, <2>4, <3>2, <3>4, <3>5, SMTT(40)
      <3>7. StartSN + p \in r.asked
        BY <2>6, <3>2, <3>3, <3>4, <3>6
      <3>8. asked'[p] = asked[p] + 1
        BY <1>1, <1>7, <1>8, <3>6, <3>7, AskedIs
      <3>9. asked[p] = q.nacks[j].nacked
        BY <1>5, <3>2, <3>4, <3>5 DEF Tallied
      <3>10. QED
        BY <3>4, <3>5, <3>8, <3>9
    <2>8. \A p \in Missing' :
            asked'[p] = MaxNackTimes \/ \E k \in 1 .. Len(s) : s[k].sn = StartSN + p
      <3>1. TAKE p \in Missing'
      <3>2. CASE \E m \in 1 .. Len(q.nacks) : q.nacks[m].sn = StartSN + p /\ q.nacks[m].nacked < MaxNackTimes
        <4>1. PICK m \in 1 .. Len(q.nacks) : q.nacks[m].sn = StartSN + p /\ q.nacks[m].nacked < MaxNackTimes
          BY <3>2
        <4>2. \E k \in 1 .. Len(s) : s[k].sn = q.nacks[m].sn
          BY <2>2, <4>1 DEF RoundOK
        <4>3. QED
          BY <4>1, <4>2
      <3>3. CASE asked[p] = MaxNackTimes
        <4>1. StartSN + p \notin r.asked
          <5>1. SUFFICES ASSUME StartSN + p \in r.asked PROVE FALSE
            OBVIOUS
          <5>2. PICK j \in 1 .. Len(q.nacks) : q.nacks[j].nacked < MaxNackTimes /\ StartSN + p = q.nacks[j].sn
            BY <2>2, <5>1 DEF RoundOK
          <5>3. q.nacks[j].sn # 0 /\ q.nacks[j].sn - StartSN = p
            BY <1>9, <1>10, <3>1, <5>2
          <5>4. asked[p] = q.nacks[j].nacked
            BY <1>5, <5>3 DEF Tallied
          <5>5. QED
            BY <1>9, <2>4, <3>3, <5>2, <5>4
        <4>2. asked'[p] = asked[p]
          <5>1. p \in Packets /\ p <= i
            BY <1>9, <1>10, <3>1
          <5>2. QED
            BY <1>1, <1>7, <1>8, <4>1, <5>1, AskedIs
        <4>3. QED
          BY <3>3, <4>2
      <3>4. QED
        BY <1>5, <3>2, <3>3 DEF Covered
    <2>9. QED
      BY <1>11, <2>2, <2>5, <2>7, <2>8
  <1>15. QED
    BY <1>13, <1>14

LEMMA LatestKeepsAsk ==
  ASSUME LongEnough, AskInv, NackInv', NEW i \in Packets, NEW np, Latest(i, np)
  PROVE  RoomOK' /\ CountsOK'
  <1>1. BucketTypeOK /\ HeadOK /\ nacker \in NackQueues
    BY DEF AskInv, NackInv, BucketTypeOK
  <1>2. newest' = i /\ received' = received \cup {i} /\ np \in Nat /\ nacker' \in NackQueues
    BY DEF Latest, NackInv, BucketTypeOK
  <1>3. nacker'.counter <= 2
    <2>1. i \in Nat
      BY DEF Packets
    <2>2. SNOf(i) \in Nat
      <3>1. Modulus \in Nat
        BY NumberConstants
      <3>2. QED
        BY <2>1, <3>1, SNIs
    <2>3. PICK q \in NackQueues : q = PushBefore(nacker, SNOf(i), np)
      BY <1>1, <1>2, <2>2, PushBeforeType
    <2>4. nacker' = Pairs(q).queue
      BY <2>3 DEF Latest
    <2>5. (q.counter < 2 => nacker'.counter = q.counter + 1) /\ (~(q.counter < 2) => nacker'.counter = 0)
      BY <2>4, PairsType
    <2>6. q.counter \in Nat
      BY EntriesAre
    <2>7. QED
      BY <2>5, <2>6
  <1>4. received' \cap {1, 2} # {}
    <2>1. CASE received = {}
      BY <1>2, <2>1 DEF Latest
    <2>2. CASE received # {}
      BY <1>2, <2>2 DEF AskInv, CountsOK
    <2>3. QED
      BY <2>1, <2>2
  <1>5. DOMAIN nacker'.nacks = 1 .. Len(nacker'.nacks)
    BY <1>2, EntriesAre
  <1>6. CASE StartSN + i < Modulus
    <2>1. /\ \A k \in 1 .. Len(nacker'.nacks) :
               nacker'.nacks[k].sn # 0 =>
                  Len(nacker'.nacks) - k < nacker'.nacks[k].nacked * MaxGap + Waiting'
          /\ \A p \in Packets : p > i => asked'[p] = 0
          /\ \A k \in 1 .. Len(nacker'.nacks) :
               nacker'.nacks[k].sn # 0 =>
                   asked'[nacker'.nacks[k].sn - StartSN] = nacker'.nacks[k].nacked
          /\ \A p \in Missing' :
               \/ asked'[p] = MaxNackTimes
               \/ \E k \in 1 .. Len(nacker'.nacks) : nacker'.nacks[k].sn = StartSN + p
      BY <1>6, LatestKeepsCounts
    <2>2. RoomOK'
      BY <1>3, <1>5, <2>1 DEF RoomOK
    <2>3. CountsOK'
      BY <1>2, <1>4, <1>5, <2>1 DEF CountsOK, Packets
    <2>4. QED
      BY <2>2, <2>3
  <1>7. CASE ~(StartSN + i < Modulus)
    <2>1. ~FirstCycle'
      BY <1>2, <1>7 DEF FirstCycle
    <2>2. QED
      BY <1>3, <1>4, <2>1 DEF RoomOK, CountsOK
  <1>8. QED
    BY <1>6, <1>7

\* What is missing after a late packet was missing before it: there is a packet
\* before each of them already.
LEMMA LateMissingBefore ==
  ASSUME BucketTypeOK, HeadOK, received \cap {1, 2} # {}, NEW i \in Packets,
         received' = received \cup {i}, newest' = newest, NEW p \in Missing'
  PROVE  p \in Missing /\ p # i
  <1>1. p \in Packets /\ p < newest /\ p \notin received /\ p # i /\ \E j \in received \cup {i} : j < p
    BY DEF Missing, Packets
  <1>2. PICK e \in received : e \in {1, 2}
    OBVIOUS
  <1>3. p \in Nat /\ i \in Nat /\ i >= 1 /\ \A j \in received : j \in Nat /\ j >= 1
    BY <1>1 DEF BucketTypeOK, Packets
  <1>4. p > 1
    BY <1>1, <1>3
  <1>5. e < p
    BY <1>1, <1>2, <1>3, <1>4
  <1>6. QED
    BY <1>1, <1>5 DEF Missing

LEMMA LateKeepsCounts ==
  ASSUME AskInv, NackInv', NEW i \in Packets, received # {}, i < newest, received' = received \cup {i},
         newest' = newest, nacker' = RemoveNack(nacker, SNOf(i)), asked' = asked, FirstCycle
  PROVE  RoomOK' /\ CountsOK'
  <1>1. BucketTypeOK /\ HeadOK /\ QueueOK /\ RoomOK /\ CountsOK /\ nacker \in NackQueues /\ nacker' \in NackQueues
    BY DEF AskInv, NackInv, BucketTypeOK
  <1>2. Modulus \in Nat \ {0} /\ StartSN \in Nat /\ i \in Nat \ {0} /\ newest \in Nat /\ MaxGap \in Nat /\ MaxNackTimes \in Nat
    BY <1>1, NumberConstants, NewestIs DEF Packets
  <1>3. PICK sn \in Nat \ {0} : sn = StartSN + i /\ sn < Modulus
    BY <1>2 DEF FirstCycle
  <1>4. SNOf(i) = sn
    BY <1>2, <1>3, SNIs
  <1>5. PICK p, q : p = nacker' /\ q = nacker
    OBVIOUS
  <1>6. q \in NackQueues /\ q.cycles = 0 /\ Ascending(q.nacks) /\ p = RemoveNack(q, sn) /\ p \in NackQueues
    BY <1>1, <1>4, <1>5 DEF QueueOK
  <1>7. p.counter = q.counter /\ Removed(p, q, sn)
    BY <1>6, RemoveNackIs
  <1>8. Waiting' = Waiting /\ Waiting \in {0, 1} /\ Room(q, Waiting) /\ Tallied(q) /\ p.counter <= 2
        /\ \A x \in Packets : x > newest => asked[x] = 0
    <2>1. Waiting' = Waiting
      BY <1>5, <1>7 DEF Waiting
    <2>2. Waiting \in {0, 1} /\ Room(q, Waiting) /\ Tallied(q) /\ \A x \in Packets : x > newest => asked[x] = 0
      BY <1>5, AskParts
    <2>3. QED
      BY <1>1, <1>5, <1>7, <2>1, <2>2 DEF RoomOK
  <1>9. \A m \in 1 .. Len(p.nacks) : \E k \in 1 .. Len(q.nacks) :
           p.nacks[m] = q.nacks[k] /\ q.nacks[k].sn # sn /\ Len(p.nacks) - m <= Len(q.nacks) - k
    BY <1>7, Zenon DEF Removed
  <1>10. DOMAIN p.nacks = 1 .. Len(p.nacks) /\ Len(p.nacks) \in Nat /\ Len(q.nacks) \in Nat /\ DOMAIN q.nacks = 1 .. Len(q.nacks)
    BY <1>6, EntriesAre
  <1>11. \A m \in 1 .. Len(p.nacks) :
            p.nacks[m].sn # 0 => Len(p.nacks) - m < p.nacks[m].nacked * MaxGap + Waiting
    <2>1. TAKE m \in 1 .. Len(p.nacks)
    <2>2. HAVE p.nacks[m].sn # 0
    <2>3. PICK k \in 1 .. Len(q.nacks) : p.nacks[m] = q.nacks[k] /\ Len(p.nacks) - m <= Len(q.nacks) - k
      BY <1>9
    <2>4. Len(q.nacks) - k < q.nacks[k].nacked * MaxGap + Waiting
      BY <1>8, <2>2, <2>3 DEF Room
    <2>5. PICK c \in Int : c = q.nacks[k].nacked * MaxGap
      <3>1. q.nacks[k] \in NackEntries
        BY <1>6, EntriesAre
      <3>2. q.nacks[k].nacked \in Nat
        BY <1>2, <3>1 DEF NackEntries
      <3>3. QED
        BY <1>2, <3>2
    <2>6. PICK a \in Int, v \in Int, w \in Int : a = Len(p.nacks) - m /\ v = Len(q.nacks) - k /\ w = Waiting
      <3>1. Len(p.nacks) - m \in Int /\ Len(q.nacks) - k \in Int /\ Waiting \in Int
        BY <1>8, <1>10
      <3>2. QED
        BY <3>1, Zenon
    <2>7. a <= v /\ v < c + w
      BY <2>3, <2>4, <2>5, <2>6
    <2>8. a < c + w
      BY <2>7
    <2>9. QED
      BY <2>3, <2>5, <2>6, <2>8
  <1>12. RoomOK'
    BY <1>5, <1>8, <1>10, <1>11 DEF RoomOK
  <1>13. \A m \in 1 .. Len(p.nacks) : p.nacks[m].sn # 0 => asked[p.nacks[m].sn - StartSN] = p.nacks[m].nacked
    BY <1>8, <1>9 DEF Tallied
  <1>14. \A x \in Missing' : asked[x] = MaxNackTimes \/ \E m \in 1 .. Len(p.nacks) : p.nacks[m].sn = StartSN + x
    <2>1. SUFFICES ASSUME NEW x \in Missing', asked[x] # MaxNackTimes
                   PROVE  \E m \in 1 .. Len(p.nacks) : p.nacks[m].sn = StartSN + x
      OBVIOUS
    <2>2. x \in Missing /\ x # i
      BY <1>1, <2>1, LateMissingBefore DEF CountsOK
    <2>3. PICK k \in 1 .. Len(q.nacks) : q.nacks[k].sn = StartSN + x
      BY <1>1, <1>5, <1>10, <2>1, <2>2 DEF CountsOK
    <2>4. q.nacks[k].sn # sn
      BY <1>2, <1>3, <2>2, <2>3 DEF Missing, Packets
    <2>5. PICK m \in 1 .. Len(p.nacks) : p.nacks[m] = q.nacks[k]
      BY <1>7, <2>4 DEF Removed
    <2>6. QED
      BY <2>3, <2>5
  <1>15. received' \cap {1, 2} # {}
    BY <1>1 DEF CountsOK
  <1>16. CountsOK'
    BY <1>5, <1>8, <1>10, <1>13, <1>14, <1>15 DEF CountsOK, Packets
  <1>17. QED
    BY <1>12, <1>16

LEMMA LateKeepsAsk ==
  ASSUME AskInv, NackInv', NEW i \in Packets, received # {}, i < newest, received' = received \cup {i},
         newest' = newest, nacker' = RemoveNack(nacker, SNOf(i)), asked' = asked
  PROVE  RoomOK' /\ CountsOK'
  <1>1. CASE FirstCycle
    BY <1>1, LateKeepsCounts
  <1>2. CASE ~FirstCycle
    <2>1. ~FirstCycle'
      BY <1>2 DEF FirstCycle
    <2>2. nacker'.counter = nacker.counter
      BY DEF RemoveNack, AskInv, NackInv, BucketTypeOK, NackQueues
    <2>3. RoomOK /\ CountsOK
      BY DEF AskInv
    <2>4. QED
      BY <2>1, <2>2, <2>3 DEF RoomOK, CountsOK
  <1>3. QED
    BY <1>1, <1>2

LEMMA AskInit ==
  BucketInit => AskInv
  <1>1. SUFFICES ASSUME BucketInit PROVE AskInv
    OBVIOUS
  <1>2. NackInv
    BY <1>1, NackInit
  <1>3. received = {} /\ asked = [i \in Packets |-> 0] /\ nacker = NewNackQueue
    BY <1>1 DEF BucketInit
  <1>4. Missing = {}
    BY <1>3 DEF Missing
  <1>5. nacker.counter = 0 /\ \A k \in DOMAIN nacker.nacks : nacker.nacks[k].sn = 0
    BY <1>3 DEF NewNackQueue
  <1>6. RoomOK
    BY <1>5 DEF RoomOK
  <1>7. CountsOK
    BY <1>3, <1>4, <1>5 DEF CountsOK
  <1>8. QED
    BY <1>2, <1>6, <1>7 DEF AskInv

LEMMA AskStep ==
  ASSUME LongEnough, AskInv, [BucketNext]_bufferVars
  PROVE  AskInv'
  <1>1. NackInv /\ BucketTypeOK /\ HeadOK
    BY DEF AskInv, NackInv
  <1>2. NackInv'
    BY <1>1, NackStep
  <1>3. ASSUME NEW i \in Packets, First(i) PROVE AskInv'
    <2>1. Latest(i, 0)
      BY <1>1, <1>3, FirstIsLatest
    <2>2. QED
      BY <1>2, <2>1, LatestKeepsAsk DEF AskInv
  <1>4. ASSUME NEW i \in Packets, Newer(i) PROVE AskInv'
    <2>1. PICK np : Latest(i, np)
      BY <1>1, <1>4, NewerIsLatest
    <2>2. QED
      BY <1>2, <2>1, LatestKeepsAsk DEF AskInv
  <1>5. ASSUME NEW i \in Packets, Late(i) PROVE AskInv'
    <2>1. /\ received # {} /\ i < newest /\ received' = received \cup {i} /\ newest' = newest
          /\ nacker' = RemoveNack(nacker, SNOf(i)) /\ asked' = asked
      BY <1>1, <1>5, LateIs
    <2>2. QED
      BY <1>2, <2>1, LateKeepsAsk DEF AskInv
  <1>6. ASSUME UNCHANGED bufferVars PROVE AskInv'
    BY <1>2, <1>6 DEF AskInv, RoomOK, CountsOK, Waiting, FirstCycle, Missing, newest, bufferVars, bucketVars
  <1>7. QED
    BY <1>3, <1>4, <1>5, <1>6 DEF BucketNext

\* The inductive invariant behind it: the older an entry the more room behind it,
\* so that push (nack.go) makes room only with zeros and entries given up.
THEOREM AskInvariance == LongEnough => (BucketSpec => []AskInv)
  <1>1. SUFFICES ASSUME LongEnough PROVE BucketSpec => []AskInv
    OBVIOUS
  <1>2. ASSUME AskInv, [BucketNext]_bufferVars PROVE AskInv'
    BY <1>1, <1>2, AskStep
  <1>3. QED
    BY <1>2, AskInit, PTL DEF BucketSpec

\* MissingIsAskedFor (bucket.go addPacket, nack.go push and pairs): if the queue is
\* long enough for what is lost in maxNackTimes rounds, a packet that stays missing
\* is asked for maxNackTimes times, and is on the queue until then.
THEOREM MissingAsked == LongEnough => (BucketSpec => []MissingIsAskedFor)
  <1>1. SUFFICES ASSUME LongEnough PROVE BucketSpec => []MissingIsAskedFor
    OBVIOUS
  <1>2. AskInv => MissingIsAskedFor
    <2>1. SUFFICES ASSUME AskInv, FirstCycle, NEW i \in Missing, asked[i] # MaxNackTimes
                   PROVE  Queued(i) /\ asked[i] < MaxNackTimes
      BY DEF MissingIsAskedFor
    <2>2. BucketTypeOK /\ HeadOK /\ nacker \in NackQueues /\ Tallied(nacker) /\ Covered(nacker, Missing)
      BY <2>1, AskParts
    <2>3. PICK m \in 1 .. Len(nacker.nacks) :
             nacker.nacks[m].sn = StartSN + i /\ nacker.nacks[m].nacked < MaxNackTimes
      BY <2>1, <2>2 DEF Covered
    <2>4. i \in Nat \ {0} /\ i < newest /\ newest \in Nat /\ StartSN \in Nat /\ Modulus \in Nat \ {0}
      BY <2>2, NumberConstants, NewestIs DEF Missing, Packets
    <2>5. PICK x \in 0 .. Modulus - 1 : x = StartSN + i
      BY <2>1, <2>4 DEF FirstCycle
    <2>6. x % Modulus = x /\ SNOf(i) = x
      BY <2>4, <2>5, ModSmall DEF SNOf
    <2>7. Queued(i)
      <3>1. m \in DOMAIN nacker.nacks
        BY <2>2, EntriesAre
      <3>2. QED
        BY <2>3, <2>5, <2>6, <3>1 DEF Queued
    <2>8. asked[i] = nacker.nacks[m].nacked
      <3>1. nacker.nacks[m].sn # 0 /\ nacker.nacks[m].sn - StartSN = i
        BY <2>3, <2>4
      <3>2. QED
        BY <2>2, <3>1 DEF Tallied
    <2>9. QED
      BY <2>3, <2>7, <2>8
  <1>3. QED
    BY <1>1, <1>2, AskInvariance, PTL

-----------------------------------------------------------------------------
(* Transport-wide feedback.                                                *)

LEMMA TwccConstants ==
  /\ Period \in Nat \ {0} /\ StartNo \in Nat \ {0} /\ MaxCount \in Nat \ {0}
  /\ WrapLow \in Nat /\ WrapHigh \in Nat /\ ReportDelta \in Nat /\ MaxBehind \in Nat
  /\ MaxLost \in Nat /\ MaxPos \in Nat /\ Steps \subseteq Nat
  /\ StartNo + MaxLost < Period /\ MaxLost < WrapLow /\ WrapLow + MaxBehind <= WrapHigh
  /\ WrapHigh + MaxBehind + MaxLost + 2 <= Period
  BY TwccAssumption

\* The extended number of a packet is that of its position: the wrap-around is
\* counted for the first packet of a cycle, whichever it is, and only for it.
LEMMA NumberOf ==
  ASSUME TwccInv, NEW p \in ComingNext, NEW n, n = IF p > newestPos THEN p ELSE newestPos
  PROVE  \E sn \in 0 .. Period - 1, c \in Nat :
           /\ sn = (StartNo + p) % Period /\ c = Cycles(sn)
           /\ c + sn = StartNo + p /\ c % Period = 0
           /\ c <= StartNo + n /\ StartNo + n < c + Period
           /\ n \in 0 .. MaxPos /\ p \in 0 .. n /\ p >= n - MaxBehind
  <1>0. Period \in Nat \ {0}
    BY TwccConstants
  <1>1. PICK cyc \in Nat, last \in 0 .. Period - 1, N \in -1 .. MaxPos :
          cyc = twcc.cycles /\ last = twcc.lastSn /\ N = newestPos
    BY DEF TwccInv, TwccTypeOK, ResponderTypeOK
  <1>2. /\ p \in 0 .. MaxPos /\ p >= N - MaxBehind /\ p <= N + MaxLost + 1
        /\ (StartNo + p) \div Period >= (StartNo + N) \div Period
        /\ n = IF p > N THEN p ELSE N
    BY <1>1 DEF ComingNext
  <1>3. PICK x \in Nat : x = StartNo + p
    BY <1>2, TwccConstants
  <1>4. n \in 0 .. MaxPos /\ p \in 0 .. n /\ p >= n - MaxBehind
    BY <1>1, <1>2, TwccConstants
  <1>5. CASE N = -1
    <2>1. cyc = 0 /\ last = 0
      BY <1>1, <1>5 DEF TwccInv, CyclesOK
    <2>2. x \in 0 .. Period - 1
      BY <1>2, <1>3, <1>5, TwccConstants
    <2>3. x % Period = x /\ cyc % Period = 0
      <3>1. 0 \in 0 .. Period - 1
        BY TwccConstants
      <3>2. x % Period = x /\ 0 % Period = 0
        BY <2>2, <3>1, ModSmall, TwccConstants
      <3>3. QED
        BY <2>1, <3>2
    <2>4. Cycles(x) = cyc
      BY <1>1, <2>1, TwccConstants DEF Cycles
    <2>5. n = p
      BY <1>2, <1>5
    <2>6. QED
      BY <1>3, <1>4, <2>1, <2>2, <2>3, <2>4, <2>5, TwccConstants
  <1>6. CASE N # -1
    <2>1. /\ cyc % Period = 0 /\ cyc + last - StartNo \in 0 .. N /\ cyc + last - StartNo >= N - MaxBehind
          /\ cyc <= StartNo + N /\ StartNo + N < cyc + Period
      BY <1>1, <1>6 DEF TwccInv, CyclesOK
    <2>2. PICK k \in Nat : cyc = Period * k /\ cyc = k * Period
      <3>1. cyc = Period * (cyc \div Period) + (cyc % Period) /\ cyc \div Period \in Int
        BY <1>0, DivMod
      <3>2. PICK k \in Int : k = cyc \div Period
        BY <3>1
      <3>3. cyc = Period * k + 0
        BY <2>1, <3>1, <3>2
      <3>4. cyc = Period * k /\ cyc = k * Period
        BY <1>1, <3>2, <3>3, TwccConstants
      <3>5. k >= 0
        <4>1. SUFFICES ASSUME k <= -1 PROVE FALSE
          BY <3>2
        <4>2. Period * k <= -Period
          BY <3>2, <4>1, TwccConstants
        <4>3. QED
          BY <1>1, <3>4, <4>2, TwccConstants
      <3>6. QED
        BY <3>2, <3>4, <3>5
    <2>3. cyc <= x
      <3>1. PICK y \in Nat : y = StartNo + N
        BY <1>1, <1>6, TwccConstants
      <3>2. k <= y \div Period /\ (x < k * Period => x \div Period < k)
        BY <2>1, <2>2, <3>1, DivBounds, TwccConstants
      <3>3. x \div Period >= y \div Period
        BY <1>2, <1>3, <3>1
      <3>4. x \div Period \in Int /\ y \div Period \in Int
        BY DivMod, TwccConstants
      <3>5. ~(x < k * Period)
        BY <3>2, <3>3, <3>4
      <3>6. QED
        BY <1>1, <2>2, <3>5
    <2>4. CASE x < cyc + Period
      <3>1. PICK sn \in 0 .. Period - 1 : sn = x - cyc /\ cyc + sn = x
        BY <1>0, <1>1, <2>3, <2>4
      <3>2. x % Period = sn
        <4>1. x = Period * k + sn
          BY <2>2, <3>1
        <4>2. QED
          BY <1>0, <4>1, ModUnique
      <3>3. ~(sn < WrapLow /\ last > WrapHigh)
        BY <1>1, <1>2, <1>3, <2>1, <3>1, TwccConstants
      <3>4. Cycles(sn) = cyc
        BY <1>1, <3>3 DEF Cycles
      <3>5. cyc <= StartNo + n /\ StartNo + n < cyc + Period
        BY <1>1, <1>2, <1>3, <2>1, <2>3, <2>4, TwccConstants
      <3>6. QED
        BY <1>1, <1>3, <1>4, <2>1, <3>1, <3>2, <3>4, <3>5
    <2>5. CASE ~(x < cyc + Period)
      <3>1. PICK sn \in 0 .. Period - 1, c \in Nat, k1 \in Nat :
              /\ sn = x - cyc - Period /\ c = cyc + Period /\ k1 = k + 1 /\ sn <= MaxLost
        <4>1. x - cyc - Period \in 0 .. Period - 1 /\ x - cyc - Period <= MaxLost
          BY <1>1, <1>2, <1>3, <2>1, <2>5, TwccConstants
        <4>2. cyc + Period \in Nat /\ k + 1 \in Nat
          BY <1>1, TwccConstants
        <4>3. QED
          BY <4>1, <4>2
      <3>2. c = Period * k1 /\ x = Period * k1 + sn /\ c + sn = x
        <4>1. Period * (k + 1) = Period * k + Period
          BY <2>2, TwccConstants
        <4>2. QED
          BY <1>1, <1>3, <2>2, <3>1, <4>1, TwccConstants
      <3>3. x % Period = sn
        BY <1>0, <3>2, ModUnique
      <3>4. c % Period = 0
        <4>1. PICK z \in 0 .. Period - 1 : z = 0
          BY TwccConstants
        <4>2. c = Period * k1 + z
          BY <3>1, <3>2, <4>1
        <4>3. QED
          BY <1>0, <4>1, <4>2, ModUnique
      <3>5. sn < WrapLow /\ last > WrapHigh
        BY <1>1, <1>2, <1>3, <2>1, <3>1, TwccConstants
      <3>6. Cycles(sn) = c
        BY <1>1, <3>1, <3>5 DEF Cycles
      <3>7. n = p /\ c <= StartNo + n /\ StartNo + n < c + Period
        <4>1. p > N
          <5>1. p \in Int /\ N \in Int /\ StartNo \in Int /\ StartNo + N < cyc + Period
            BY <1>1, <1>2, <2>1, TwccConstants
          <5>2. QED
            BY <1>0, <1>3, <2>5, <5>1
        <4>2. n = p
          BY <1>2, <4>1
        <4>3. c <= x /\ x < c + Period
          BY <1>0, <3>1, <1>3, <1>1
        <4>4. QED
          BY <1>3, <4>2, <4>3
      <3>8. QED
        BY <1>3, <1>4, <3>1, <3>2, <3>3, <3>4, <3>6, <3>7
    <2>6. QED
      BY <2>4, <2>5
  <1>7. QED
    BY <1>5, <1>6

\* The n-th number of an interval, as TccPkts counts.
LEMMA IntervalCounts ==
  ASSUME NEW a \in Int, NEW z \in Int, a <= z
  PROVE  LET Nth(i) == CHOOSE n \in a .. z : Cardinality({k \in a .. z : k <= n}) = i
         IN  Cardinality(a .. z) = z - a + 1 /\ Nth(1) = a /\ Nth(z - a + 1) = z
  <1>1. Cardinality(a .. z) = z - a + 1
    BY FS_Interval
  <1>2. ASSUME NEW n \in a .. z
        PROVE  Cardinality({k \in a .. z : k <= n}) = n - a + 1
    <2>1. {k \in a .. z : k <= n} = a .. n
      OBVIOUS
    <2>2. Cardinality(a .. n) = n - a + 1
      BY FS_Interval
    <2>3. QED
      BY <2>1, <2>2
  <1> DEFINE C(n) == Cardinality({k \in a .. z : k <= n})
  <1>3. \A n \in a .. z : C(n) = n - a + 1
    BY <1>2
  <1> HIDE DEF C
  <1>4. a \in a .. z /\ z \in a .. z
    OBVIOUS
  <1>5. (CHOOSE n \in a .. z : C(n) = 1) = a
    <2>1. PICK m : m = CHOOSE n \in a .. z : C(n) = 1
      OBVIOUS
    <2>2. C(a) = 1
      BY <1>3, <1>4
    <2>3. m \in a .. z /\ C(m) = 1
      BY <1>4, <2>1, <2>2
    <2>4. m = a
      BY <1>3, <2>3
    <2>5. QED
      BY <2>1, <2>4
  <1>6. (CHOOSE n \in a .. z : C(n) = z - a + 1) = z
    <2>1. PICK m : m = CHOOSE n \in a .. z : C(n) = z - a + 1
      OBVIOUS
    <2>2. C(z) = z - a + 1
      BY <1>3, <1>4
    <2>3. m \in a .. z /\ C(m) = z - a + 1
      BY <1>4, <2>1, <2>2
    <2>4. m = z
      BY <1>3, <2>3
    <2>5. QED
      BY <2>1, <2>4
  <1>7. QED
    BY <1>1, <1>5, <1>6 DEF C

\* The packets of a feedback: from the number after the last one that was told,
\* or the least one noted, to the greatest one noted, z.
LEMMA PktsAre ==
  ASSUME NEW r, NEW z \in Nat, r.lastExtSN \in Nat,
         \A e \in r.extInfo : e.ext \in Nat /\ 0 < e.ext /\ e.ext <= z /\ e.ext # r.lastExtSN,
         \E e \in r.extInfo : e.ext = z,
         Kept(r) # {}
  PROVE  \E a \in Nat :
           /\ a <= z /\ r.lastExtSN < z
           /\ r.lastExtSN # 0 => a = r.lastExtSN + 1
           /\ Len(TccPkts(r)) = z - a + 1
           /\ TccPkts(r)[1].ext = a
           /\ TccPkts(r)[Len(TccPkts(r))].ext = z
  <1> DEFINE kept == {e.ext : e \in Kept(r)}
             numbers == kept \cup (FirstNumber(r) .. Max(kept))
             Time(n) == IF n \in kept THEN (CHOOSE e \in Kept(r) : e.ext = n).time ELSE Never
             Nth(i) == CHOOSE n \in numbers : Cardinality({k \in numbers : k <= n}) = i
  <1>1. TccPkts(r) = [i \in 1 .. Cardinality(numbers) |-> [ext |-> Nth(i), time |-> Time(Nth(i))]]
    BY DEF TccPkts
  <1>2. PICK l \in Nat : l = r.lastExtSN
    OBVIOUS
  <1>3. \A k \in kept : k \in Nat /\ l < k /\ k <= z
    <2>1. ASSUME NEW e \in Kept(r) PROVE e.ext \in Nat /\ l < e.ext /\ e.ext <= z
      <3>1. e \in r.extInfo /\ e.ext >= l
        BY <1>2 DEF Kept
      <3>2. e.ext \in Nat /\ e.ext <= z /\ e.ext # l
        BY <1>2, <3>1
      <3>3. QED
        BY <1>2, <3>1, <3>2
    <2>2. QED
      BY <2>1
  <1>4. z \in kept /\ l < z
    <2>1. PICK e0 \in Kept(r) : TRUE
      OBVIOUS
    <2>2. e0.ext \in kept
      BY <2>1
    <2>3. l < z
      BY <1>2, <1>3, <2>2
    <2>4. PICK e \in r.extInfo : e.ext = z
      OBVIOUS
    <2>5. e \in Kept(r)
      BY <1>2, <2>3, <2>4 DEF Kept
    <2>6. QED
      BY <2>3, <2>4, <2>5
  <1>5. kept \subseteq Nat /\ kept # {} /\ 0 \notin kept
    BY <1>2, <1>3, <1>4
  <1>6. FirstNumber(r) = IF l # 0 THEN l + 1 ELSE Min(kept)
    <2>1. {e.ext : e \in Kept(r)} \ {0} = kept
      BY <1>5
    <2>2. QED
      BY <1>2, <2>1 DEF FirstNumber
  <1> HIDE DEF kept
  <1>7. Max(kept) = z
    <2>1. PICK m : m = Max(kept)
      OBVIOUS
    <2>2. \A y \in kept : z >= y
      BY <1>3
    <2>3. m \in kept /\ \A y \in kept : m >= y
      BY <1>4, <2>1, <2>2 DEF Max
    <2>4. m \in Nat /\ m >= z /\ m <= z
      BY <1>3, <1>4, <2>3
    <2>5. QED
      BY <2>1, <2>4
  <1>8. PICK a \in Nat : a = FirstNumber(r) /\ a <= z /\ (l # 0 => a = l + 1) /\ \A k \in kept : a <= k
    <2>1. CASE l # 0
      <3>1. l + 1 \in Nat /\ l + 1 <= z /\ \A k \in kept : l + 1 <= k
        BY <1>2, <1>3, <1>4
      <3>2. QED
        BY <1>6, <2>1, <3>1
    <2>2. CASE l = 0
      <3>1. PICK n \in kept : \A y \in kept : n <= y
        BY <1>5, LeastNumber
      <3>2. PICK m : m = Min(kept)
        OBVIOUS
      <3>3. m \in kept /\ \A y \in kept : m <= y
        BY <3>1, <3>2 DEF Min
      <3>4. m \in Nat /\ m <= z
        BY <1>4, <1>5, <3>3
      <3>5. QED
        BY <1>6, <2>2, <3>2, <3>3, <3>4
    <2>3. QED
      BY <2>1, <2>2
  <1>9. numbers = a .. z
    BY <1>3, <1>7, <1>8
  <1> HIDE DEF numbers, Time
  <1>10. Cardinality(numbers) = z - a + 1 /\ Nth(1) = a /\ Nth(z - a + 1) = z
    <2>0. a \in Int /\ z \in Int /\ a <= z
      BY <1>8
    <2>1. Cardinality(a .. z) = z - a + 1
      BY <2>0, IntervalCounts, Zenon
    <2>2. (CHOOSE n \in a .. z : Cardinality({k \in a .. z : k <= n}) = 1) = a
      BY <2>0, IntervalCounts, Zenon
    <2>3. (CHOOSE n \in a .. z : Cardinality({k \in a .. z : k <= n}) = z - a + 1) = z
      BY <2>0, IntervalCounts, Zenon
    <2>4. QED
      BY <1>9, <2>1, <2>2, <2>3
  <1> HIDE DEF Nth
  <1>11. PICK c \in Nat : c = z - a + 1 /\ 1 \in 1 .. c /\ c \in 1 .. c
    BY <1>8
  <1>12. TccPkts(r) = [i \in 1 .. c |-> [ext |-> Nth(i), time |-> Time(Nth(i))]]
    BY <1>1, <1>10, <1>11
  <1>13. Len(TccPkts(r)) = c /\ TccPkts(r)[1].ext = a /\ TccPkts(r)[c].ext = z
    BY <1>10, <1>11, <1>12
  <1>14. QED
    BY <1>2, <1>4, <1>8, <1>11, <1>13

Responders ==
  [extInfo : SUBSET [ext : Nat, time : Nat], lastReport : Nat, cycles : Nat,
   lastExtSN : Nat, lastSn : 0 .. Period - 1, pktCtn : 0 .. 255, mSSRC : SSRCs]

\* The Responder with the packet that arrives noted, and the positions.
Arrived(r, p) ==
  /\ r \in Responders /\ p \in 0 .. MaxPos
  /\ r.extInfo = twcc.extInfo \cup {[ext |-> StartNo + p, time |-> now']}
  /\ r.lastExtSN = twcc.lastExtSN /\ r.pktCtn = twcc.pktCtn
  /\ now' \in Nat /\ now' >= now
  /\ arrival[p] = Never /\ arrival' = [arrival EXCEPT ![p] = now']
  /\ newestPos' = (IF p > newestPos THEN p ELSE newestPos) /\ newestPos' \in 0 .. MaxPos /\ p <= newestPos'
  /\ r.cycles % Period = 0
  /\ r.cycles + r.lastSn = StartNo + p /\ p >= newestPos' - MaxBehind
  /\ r.cycles <= StartNo + newestPos' /\ StartNo + newestPos' < r.cycles + Period

LEMMA PushArrives ==
  ASSUME TwccInv, NEW p \in 0 .. MaxPos, NEW dt \in Steps, NEW marker \in BOOLEAN, Push(p, dt, marker)
  PROVE  \E r : /\ Arrived(r, p)
                /\ \/ Feedback(r)
                   \/ Cardinality(r.extInfo) <= MaxCount /\ twcc' = r /\ feedback' = feedback
  <1>1. /\ p \in ComingNext /\ now' = now + dt /\ arrival' = [arrival EXCEPT ![p] = now']
        /\ newestPos' = IF p > newestPos THEN p ELSE newestPos
    BY DEF Push
  <1>2. now \in Nat /\ dt \in Nat /\ now + dt \in Nat /\ newestPos \in -1 .. MaxPos
    BY TwccConstants DEF TwccInv, TwccTypeOK, ResponderTypeOK
  <1>3. PICK sn \in 0 .. Period - 1, c \in Nat :
          /\ sn = (StartNo + p) % Period /\ c = Cycles(sn)
          /\ c + sn = StartNo + p /\ c % Period = 0
          /\ c <= StartNo + newestPos' /\ StartNo + newestPos' < c + Period
          /\ newestPos' \in 0 .. MaxPos /\ p \in 0 .. newestPos' /\ p >= newestPos' - MaxBehind
    BY <1>1, NumberOf
  <1> DEFINE r == Note((StartNo + p) % Period, now + dt)
  <1>4. r = [twcc EXCEPT !.extInfo = @ \cup {[ext |-> StartNo + p, time |-> now']}, !.cycles = c, !.lastSn = sn]
    BY <1>1, <1>3 DEF Note
  <1>5. \/ Feedback(r)
        \/ /\ ~Due(Cardinality(r.extInfo), now' - twcc.lastReport, marker)
           /\ twcc' = r /\ feedback' = feedback
    BY DEF Push
  <1> HIDE DEF r
  <1>6. twcc \in Responders /\ [ext |-> StartNo + p, time |-> now'] \in [ext : Nat, time : Nat]
    BY <1>1, <1>2, TwccConstants DEF TwccInv, ResponderTypeOK, Responders
  <1>7. /\ r \in Responders
        /\ r.extInfo = twcc.extInfo \cup {[ext |-> StartNo + p, time |-> now']}
        /\ r.lastExtSN = twcc.lastExtSN /\ r.pktCtn = twcc.pktCtn
        /\ r.cycles = c /\ r.lastSn = sn
    BY <1>4, <1>6 DEF Responders
  <1>8. Arrived(r, p)
    <2>1. arrival[p] = Never
      BY <1>1 DEF ComingNext
    <2>2. now' \in Nat /\ now' >= now
      BY <1>1, <1>2
    <2>3. p <= newestPos'
      BY <1>3
    <2>4. QED
      BY <1>1, <1>3, <1>7, <2>1, <2>2, <2>3 DEF Arrived
  <1>9. ASSUME ~Due(Cardinality(r.extInfo), now' - twcc.lastReport, marker)
        PROVE  Cardinality(r.extInfo) <= MaxCount
    <2>1. ~(Cardinality(r.extInfo) > MaxCount)
      BY <1>9 DEF Due
    <2>2. Cardinality(r.extInfo) \in Nat
      <3>1. IsFiniteSet(r.extInfo)
        <4>1. IsFiniteSet(twcc.extInfo)
          BY DEF TwccInv, ResponderTypeOK
        <4>2. PICK e : r.extInfo = twcc.extInfo \cup {e}
          BY <1>7
        <4>3. QED
          BY <4>1, <4>2, FS_AddElement
      <3>2. QED
        BY <3>1, FS_CardinalityType
    <2>3. QED
      BY <2>1, <2>2, TwccConstants
  <1>10. QED
    BY <1>5, <1>8, <1>9

\* What is noted, and what is not, after an arrival.
LEMMA NotedAfter ==
  ASSUME TwccInv, NEW r, NEW p, Arrived(r, p)
  PROVE  /\ \A e \in r.extInfo : /\ e.ext \in Nat /\ e.ext - StartNo \in 0 .. newestPos'
                                 /\ e.ext # r.lastExtSN /\ 0 < e.ext /\ e.time \in 0 .. now'
         /\ \A q \in 0 .. MaxPos :
              arrival'[q] # Never =>
                q <= newestPos' /\ (StartNo + q <= r.lastExtSN \/ \E e \in r.extInfo : e.ext = StartNo + q)
         /\ arrival'[newestPos'] # Never
         /\ r.lastExtSN # 0 =>
              r.lastExtSN - StartNo \in 0 .. newestPos' /\ arrival'[r.lastExtSN - StartNo] # Never
         /\ IsFiniteSet(r.extInfo)
         /\ arrival' \in [0 .. MaxPos -> {Never} \cup 0 .. now']
  <1>1. PICK S \in Nat, N \in -1 .. MaxPos, n \in 0 .. MaxPos, l \in Nat, t \in Nat, t1 \in Nat :
          /\ S = StartNo /\ N = newestPos /\ n = newestPos' /\ l = r.lastExtSN /\ t = now /\ t1 = now'
          /\ S > 0 /\ l = twcc.lastExtSN /\ t <= t1 /\ N <= n /\ p \in 0 .. n /\ (n = p \/ n = N)
    <2>1. /\ StartNo \in Nat /\ StartNo > 0 /\ newestPos \in -1 .. MaxPos /\ twcc.lastExtSN \in Nat /\ now \in Nat
      BY TwccConstants DEF TwccInv, TwccTypeOK, ResponderTypeOK
    <2>2. /\ newestPos' = (IF p > newestPos THEN p ELSE newestPos) /\ newestPos' \in 0 .. MaxPos
          /\ p <= newestPos' /\ p \in 0 .. MaxPos
          /\ r.lastExtSN = twcc.lastExtSN /\ now' \in Nat /\ now' >= now
      BY DEF Arrived
    <2>3. newestPos <= newestPos' /\ p \in 0 .. newestPos' /\ (newestPos' = p \/ newestPos' = newestPos) /\ now <= now'
      BY <2>1, <2>2, TwccConstants
    <2>4. QED
      BY <2>1, <2>2, <2>3
  <1>2. /\ r.extInfo = twcc.extInfo \cup {[ext |-> S + p, time |-> t1]}
        /\ p \in 0 .. MaxPos /\ arrival[p] = Never /\ arrival' = [arrival EXCEPT ![p] = t1]
    BY <1>1 DEF Arrived
  <1>3. /\ arrival \in [0 .. MaxPos -> {Never} \cup 0 .. t]
        /\ \A e \in twcc.extInfo : e.ext \in Nat /\ e.time \in 0 .. t
        /\ \A e \in twcc.extInfo : e.ext - S \in 0 .. N /\ e.ext # l
        /\ \A q \in 0 .. MaxPos :
             arrival[q] # Never => q <= N /\ (S + q <= l \/ \E e \in twcc.extInfo : e.ext = S + q)
        /\ N >= 0 => arrival[N] # Never
        /\ l # 0 => l - S \in 0 .. N /\ arrival[l - S] # Never
    BY <1>1 DEF TwccInv, TwccTypeOK, NotedOK, ToldOK
  <1>4. t1 # Never
    BY <1>1 DEF Never
  <1>5. arrival' \in [0 .. MaxPos -> {Never} \cup 0 .. t1]
    <2>1. {Never} \cup 0 .. t \subseteq {Never} \cup 0 .. t1
      BY <1>1
    <2>2. arrival \in [0 .. MaxPos -> {Never} \cup 0 .. t1] /\ t1 \in {Never} \cup 0 .. t1
      BY <1>1, <1>3, <2>1
    <2>3. QED
      BY <1>2, <2>2
  <1>6. arrival'[p] # Never /\ \A q \in 0 .. MaxPos : q # p => arrival'[q] = arrival[q]
    BY <1>2, <1>3, <1>4
  <1>7. S + p # l
    <2>1. SUFFICES ASSUME S + p = l PROVE FALSE
      OBVIOUS
    <2>2. l # 0 /\ l - S = p
      BY <1>1, <1>2, <2>1
    <2>3. QED
      BY <1>2, <1>3, <2>2
  <1>8. ASSUME NEW e \in r.extInfo
        PROVE  e.ext \in Nat /\ e.ext - S \in 0 .. n /\ e.ext # l /\ 0 < e.ext /\ e.time \in 0 .. t1
    <2>1. CASE e \in twcc.extInfo
      <3>1. e.ext \in Nat /\ e.ext - S \in 0 .. N /\ e.ext # l /\ e.time \in 0 .. t
        BY <1>3, <2>1
      <3>2. QED
        BY <1>1, <3>1
    <2>2. CASE e = [ext |-> S + p, time |-> t1]
      <3>1. e.ext = S + p /\ e.time = t1
        BY <2>2
      <3>2. QED
        BY <1>1, <1>7, <3>1
    <2>3. QED
      BY <1>2, <2>1, <2>2
  <1>9. ASSUME NEW q \in 0 .. MaxPos, arrival'[q] # Never
        PROVE  q <= n /\ (S + q <= l \/ \E e \in r.extInfo : e.ext = S + q)
    <2>1. CASE q = p
      <3>1. [ext |-> S + p, time |-> t1] \in r.extInfo /\ [ext |-> S + p, time |-> t1].ext = S + p
        BY <1>2
      <3>2. \E e \in r.extInfo : e.ext = S + q
        BY <2>1, <3>1
      <3>3. QED
        BY <1>1, <2>1, <3>2
    <2>2. CASE q # p
      <3>1. q <= N /\ (S + q <= l \/ \E e \in twcc.extInfo : e.ext = S + q)
        BY <1>3, <1>6, <1>9, <2>2
      <3>2. S + q <= l \/ \E e \in r.extInfo : e.ext = S + q
        BY <1>2, <3>1
      <3>3. QED
        BY <1>1, <3>1, <3>2
    <2>3. QED
      BY <2>1, <2>2
  <1>10. arrival'[n] # Never
    <2>1. CASE n = p
      BY <1>6, <2>1
    <2>2. CASE n = N /\ n # p
      BY <1>1, <1>3, <1>6, <2>2
    <2>3. QED
      BY <1>1, <2>1, <2>2
  <1>11. ASSUME l # 0 PROVE l - S \in 0 .. n /\ arrival'[l - S] # Never
    <2>1. l - S \in 0 .. N /\ arrival[l - S] # Never
      BY <1>3, <1>11
    <2>2. l - S \in 0 .. n /\ l - S \in 0 .. MaxPos
      BY <1>1, <2>1, TwccConstants
    <2>3. arrival'[l - S] # Never
      BY <1>6, <2>1, <2>2
    <2>4. QED
      BY <2>2, <2>3
  <1>12. IsFiniteSet(r.extInfo)
    <2>1. IsFiniteSet(twcc.extInfo)
      BY DEF TwccInv, ResponderTypeOK
    <2>2. QED
      BY <1>2, <2>1, FS_AddElement
  <1>13. QED
    BY <1>1, <1>5, <1>8, <1>9, <1>10, <1>11, <1>12

\* What buildTransportCCPacket leaves: if nothing is newer than what was told,
\* nothing is told; otherwise everything up to the newest position is.
LEMMA FeedbackTells ==
  ASSUME TwccInv, NEW r, NEW p, Arrived(r, p), Feedback(r)
  PROVE  \/ /\ twcc' = [r EXCEPT !.extInfo = {}, !.lastReport = now'] /\ feedback' = feedback
            /\ \A e \in r.extInfo : e.ext < r.lastExtSN
         \/ \E a \in Nat, z \in Nat :
              /\ z = StartNo + newestPos' /\ a <= z /\ (r.lastExtSN # 0 => a = r.lastExtSN + 1)
              /\ twcc' = [r EXCEPT !.extInfo = {}, !.lastReport = now', !.lastExtSN = z,
                                   !.pktCtn = (@ + 1) % 256]
              /\ feedback'.base = a % Period /\ feedback'.count = (z - a + 1) % Period
  <1>1. PICK S \in Nat, n \in Nat, l \in Nat, z \in Nat :
          S = StartNo /\ n = newestPos' /\ l = r.lastExtSN /\ z = S + n /\ n \in 0 .. MaxPos
    <2>1. StartNo \in Nat /\ newestPos' \in 0 .. MaxPos /\ r.lastExtSN \in Nat
      BY TwccConstants DEF Arrived, Responders
    <2>2. PICK n \in 0 .. MaxPos, S \in Nat : n = newestPos' /\ S = StartNo
      BY <2>1
    <2>3. n \in Nat /\ S + n \in Nat
      OBVIOUS
    <2>4. QED
      BY <2>1, <2>2, <2>3
  <1>2. /\ \A e \in r.extInfo : e.ext \in Nat /\ e.ext - S \in 0 .. n /\ e.ext # l /\ 0 < e.ext
        /\ S + n <= l \/ \E e \in r.extInfo : e.ext = S + n
    BY <1>1, NotedAfter
  <1>3. \A e \in r.extInfo : e.ext \in Nat /\ 0 < e.ext /\ e.ext <= z /\ e.ext # l
    BY <1>1, <1>2
  <1>4. CASE Kept(r) = {}
    <2>1. twcc' = [r EXCEPT !.extInfo = {}, !.lastReport = now'] /\ feedback' = feedback
      BY <1>4 DEF Feedback
    <2>2. ASSUME NEW e \in r.extInfo PROVE e.ext < l
      <3>1. ~(e.ext >= l)
        BY <1>1, <1>4 DEF Kept
      <3>2. QED
        BY <1>1, <1>2, <3>1
    <2>3. QED
      BY <1>1, <2>1, <2>2
  <1>5. CASE Kept(r) # {}
    <2>1. \E e \in r.extInfo : e.ext = z
      <3>1. PICK e \in r.extInfo : e.ext >= l
        BY <1>1, <1>5 DEF Kept
      <3>2. ~(z <= l)
        BY <1>1, <1>3, <3>1
      <3>3. QED
        BY <1>1, <1>2, <3>2
    <2>2. PICK a \in Nat :
            /\ a <= z /\ (l # 0 => a = l + 1)
            /\ Len(TccPkts(r)) = z - a + 1 /\ TccPkts(r)[1].ext = a /\ TccPkts(r)[Len(TccPkts(r))].ext = z
      BY <1>1, <1>3, <1>5, <2>1, PktsAre
    <2> DEFINE pkts == TccPkts(r)
    <2>3. /\ twcc' = [r EXCEPT !.extInfo = {}, !.lastReport = now',
                               !.lastExtSN = pkts[Len(pkts)].ext, !.pktCtn = (@ + 1) % 256]
          /\ feedback' = [base |-> pkts[1].ext % Period, count |-> Len(pkts) % Period,
                          ref |-> RefTime(pkts), chunks |-> WriteRest(Encode(Statuses(pkts))),
                          deltas |-> Deltas(pkts)]
      BY <1>5 DEF Feedback
    <2>4. feedback'.base = pkts[1].ext % Period /\ feedback'.count = Len(pkts) % Period
      BY <2>3
    <2>5. QED
      BY <1>1, <2>2, <2>3, <2>4
  <1>6. QED
    BY <1>4, <1>5

LEMMA CyclesKept ==
  ASSUME NEW r, NEW p, Arrived(r, p), twcc'.cycles = r.cycles, twcc'.lastSn = r.lastSn
  PROVE  CyclesOK'
  <1>1. /\ newestPos' \in 0 .. MaxPos /\ p \in 0 .. MaxPos /\ p <= newestPos'
        /\ r.cycles % Period = 0
        /\ r.cycles + r.lastSn = StartNo + p /\ p >= newestPos' - MaxBehind
        /\ r.cycles <= StartNo + newestPos' /\ StartNo + newestPos' < r.cycles + Period
    BY DEF Arrived
  <1>2. StartNo \in Nat /\ MaxPos \in Nat
    BY TwccConstants
  <1>3. newestPos' # -1 /\ StartNo + p - StartNo = p /\ p \in 0 .. newestPos'
    BY <1>1, <1>2
  <1>4. twcc'.cycles + twcc'.lastSn - StartNo = p
    <2>1. PICK c \in Nat, s \in 0 .. Period - 1 : c = r.cycles /\ s = r.lastSn
      BY DEF Arrived, Responders
    <2>2. c + s - StartNo = p
      <3>1. c + s = StartNo + p /\ p \in Int
        BY <1>1, <2>1
      <3>2. QED
        BY <1>2, <3>1
    <2>3. QED
      BY <2>1, <2>2
  <1>5. QED
    BY <1>1, <1>3, <1>4 DEF CyclesOK

\* The types, but for what a feedback changes.
LEMMA TypesKept ==
  ASSUME TwccInv, NEW r, NEW p, Arrived(r, p), twcc' \in Responders, twcc'.cycles = r.cycles,
         twcc'.extInfo \in {{}, r.extInfo}, Cardinality(twcc'.extInfo) <= MaxCount,
         feedback'.base \in 0 .. Period - 1, feedback'.count \in 0 .. Period - 1
  PROVE  TwccTypeOK' /\ ResponderTypeOK'
  <1>1. /\ \A e \in r.extInfo : e.ext \in Nat /\ e.time \in 0 .. now'
        /\ IsFiniteSet(r.extInfo)
        /\ arrival' \in [0 .. MaxPos -> {Never} \cup 0 .. now']
    BY NotedAfter
  <1>2. now' \in Nat /\ newestPos' \in 0 .. MaxPos /\ r.cycles % Period = 0
    BY DEF Arrived
  <1>3. newestPos' \in -1 .. MaxPos
    BY <1>2, TwccConstants
  <1>4. IsFiniteSet(twcc'.extInfo)
    BY <1>1, FS_EmptySet
  <1>5. \A e \in twcc'.extInfo : e.ext \in Nat /\ e.time \in 0 .. now'
    BY <1>1
  <1>6. twcc'.lastExtSN \in Nat /\ twcc'.lastSn \in 0 .. Period - 1 /\ twcc'.pktCtn \in 0 .. 255
    BY DEF Responders
  <1>7. TwccTypeOK'
    BY <1>1, <1>2, <1>3, <1>5, <1>6 DEF TwccTypeOK
  <1>8. ResponderTypeOK'
    BY <1>2, <1>4 DEF ResponderTypeOK, Responders
  <1>9. QED
    BY <1>7, <1>8

\* One packet.
LEMMA PushKeeps ==
  ASSUME TwccInv, NEW p \in 0 .. MaxPos, NEW dt \in Steps, NEW marker \in BOOLEAN, Push(p, dt, marker)
  PROVE  /\ TwccInv'
         /\ Told /\ feedback.count > 0 => feedback'.base = (feedback.base + feedback.count) % Period
  <1>1. PICK r : /\ Arrived(r, p)
                 /\ \/ Feedback(r)
                    \/ Cardinality(r.extInfo) <= MaxCount /\ twcc' = r /\ feedback' = feedback
    BY PushArrives
  <1>2. /\ r \in Responders /\ r.lastExtSN = twcc.lastExtSN /\ r.pktCtn = twcc.pktCtn
        /\ newestPos' \in 0 .. MaxPos
    BY <1>1 DEF Arrived
  <1>3. /\ \A e \in r.extInfo : e.ext \in Nat /\ e.ext - StartNo \in 0 .. newestPos' /\ e.ext # r.lastExtSN
        /\ \A q \in 0 .. MaxPos :
             arrival'[q] # Never =>
               q <= newestPos' /\ (StartNo + q <= r.lastExtSN \/ \E e \in r.extInfo : e.ext = StartNo + q)
        /\ arrival'[newestPos'] # Never
        /\ r.lastExtSN # 0 =>
             r.lastExtSN - StartNo \in 0 .. newestPos' /\ arrival'[r.lastExtSN - StartNo] # Never
    BY <1>1, NotedAfter
  <1>4. /\ feedback.base \in 0 .. Period - 1 /\ feedback.count \in 0 .. Period - 1
        /\ IF twcc.lastExtSN = 0 THEN feedback.count = 0
           ELSE (feedback.base + feedback.count) % Period = (twcc.lastExtSN + 1) % Period
    BY DEF TwccInv, TwccTypeOK, ToldOK
  <1>5. CASE Cardinality(r.extInfo) <= MaxCount /\ twcc' = r /\ feedback' = feedback
    <2>1. TwccTypeOK' /\ ResponderTypeOK'
      BY <1>1, <1>2, <1>4, <1>5, TypesKept
    <2>2. CyclesOK'
      BY <1>1, <1>5, CyclesKept
    <2>3. NotedOK'
      BY <1>3, <1>5 DEF NotedOK
    <2>4. ToldOK'
      BY <1>2, <1>3, <1>4, <1>5 DEF ToldOK
    <2>5. ~Told
      BY <1>2, <1>5 DEF Told
    <2>6. QED
      BY <2>1, <2>2, <2>3, <2>4, <2>5 DEF TwccInv
  <1>6. CASE /\ twcc' = [r EXCEPT !.extInfo = {}, !.lastReport = now'] /\ feedback' = feedback
             /\ \A e \in r.extInfo : e.ext < r.lastExtSN
    <2>1. /\ twcc' \in Responders /\ twcc'.extInfo = {} /\ twcc'.cycles = r.cycles /\ twcc'.lastSn = r.lastSn
          /\ twcc'.lastExtSN = r.lastExtSN /\ twcc'.pktCtn = r.pktCtn
      <3>1. now' \in Nat
        BY <1>1 DEF Arrived
      <3>2. QED
        BY <1>2, <1>6, <3>1 DEF Responders
    <2>2. TwccTypeOK' /\ ResponderTypeOK'
      <3>1. Cardinality({}) <= MaxCount
        BY FS_EmptySet, TwccConstants
      <3>2. QED
        BY <1>1, <1>4, <1>6, <2>1, <3>1, TypesKept
    <2>3. CyclesOK'
      BY <1>1, <2>1, CyclesKept
    <2>4. NotedOK'
      <3>1. ASSUME NEW q \in 0 .. MaxPos, arrival'[q] # Never
            PROVE  q <= newestPos' /\ StartNo + q <= r.lastExtSN
        <4>1. q <= newestPos' /\ (StartNo + q <= r.lastExtSN \/ \E e \in r.extInfo : e.ext = StartNo + q)
          BY <1>3, <3>1
        <4>2. ASSUME NEW e \in r.extInfo, e.ext = StartNo + q PROVE StartNo + q <= r.lastExtSN
          <5>1. e.ext \in Nat /\ e.ext < r.lastExtSN /\ r.lastExtSN \in Nat
            BY <1>2, <1>3, <1>6, <4>2 DEF Responders
          <5>2. QED
            BY <4>2, <5>1
        <4>3. QED
          BY <4>1, <4>2
      <3>2. QED
        BY <1>3, <2>1, <3>1 DEF NotedOK
    <2>5. ToldOK'
      BY <1>2, <1>3, <1>4, <1>6, <2>1 DEF ToldOK
    <2>6. ~Told
      BY <1>2, <2>1 DEF Told
    <2>7. QED
      BY <2>2, <2>3, <2>4, <2>5, <2>6 DEF TwccInv
  <1>7. ASSUME NEW a \in Nat, NEW z \in Nat,
               z = StartNo + newestPos', a <= z, r.lastExtSN # 0 => a = r.lastExtSN + 1,
               twcc' = [r EXCEPT !.extInfo = {}, !.lastReport = now', !.lastExtSN = z,
                                 !.pktCtn = (@ + 1) % 256],
               feedback'.base = a % Period, feedback'.count = (z - a + 1) % Period
        PROVE  /\ TwccInv'
               /\ Told /\ feedback.count > 0 =>
                    feedback'.base = (feedback.base + feedback.count) % Period
    <2>1. /\ twcc' \in Responders /\ twcc'.extInfo = {} /\ twcc'.cycles = r.cycles /\ twcc'.lastSn = r.lastSn
          /\ twcc'.lastExtSN = z
      <3>1. now' \in Nat
        BY <1>1 DEF Arrived
      <3>2. (r.pktCtn + 1) % 256 \in 0 .. 255
        BY <1>2 DEF Responders
      <3>3. PICK y \in 0 .. 255, t \in Nat : y = (r.pktCtn + 1) % 256 /\ t = now'
        BY <3>1, <3>2
      <3>4. PICK r1 : r1 = [r EXCEPT !.extInfo = {}, !.lastReport = t]
        OBVIOUS
      <3>5. PICK r2 : r2 = [r1 EXCEPT !.lastExtSN = z, !.pktCtn = y]
        OBVIOUS
      <3>6. /\ r1 \in Responders /\ r1.extInfo = {} /\ r1.cycles = r.cycles /\ r1.lastSn = r.lastSn
        BY <1>2, <3>4 DEF Responders
      <3>7. /\ r2 \in Responders /\ r2.extInfo = {} /\ r2.cycles = r.cycles /\ r2.lastSn = r.lastSn
            /\ r2.lastExtSN = z
        BY <3>5, <3>6 DEF Responders
      <3>8. twcc' = r2
        BY <1>2, <1>7, <3>3, <3>4, <3>5 DEF Responders
      <3>9. QED
        BY <3>7, <3>8
    <2>2. PICK m \in Nat \ {0}, c \in Nat, u \in 0 .. Period - 1, v \in 0 .. Period - 1 :
            m = Period /\ c = z - a + 1 /\ u = a % m /\ v = c % m
      <3>1. PICK m \in Nat \ {0}, c \in Nat : m = Period /\ c = z - a + 1
        BY <1>7, TwccConstants
      <3>2. a % m \in 0 .. m - 1 /\ c % m \in 0 .. m - 1
        BY <3>1, DivMod
      <3>3. QED
        BY <3>1, <3>2
    <2>3. feedback'.base = u /\ feedback'.count = v
      BY <1>7, <2>2
    <2>4. TwccTypeOK' /\ ResponderTypeOK'
      <3>1. Cardinality({}) <= MaxCount
        BY FS_EmptySet, TwccConstants
      <3>2. feedback'.base \in 0 .. Period - 1 /\ feedback'.count \in 0 .. Period - 1
        BY <2>2, <2>3
      <3>3. QED
        BY <1>1, <2>1, <3>1, <3>2, TypesKept
    <2>5. CyclesOK'
      BY <1>1, <2>1, CyclesKept
    <2>6. NotedOK'
      <3>1. ASSUME NEW q \in 0 .. MaxPos, arrival'[q] # Never
            PROVE  q <= newestPos' /\ StartNo + q <= z
        <4>1. q <= newestPos'
          BY <1>3, <3>1
        <4>2. QED
          BY <1>2, <1>7, <4>1, TwccConstants
      <3>2. QED
        BY <1>3, <2>1, <3>1 DEF NotedOK
    <2>7. (u + v) % m = (z + 1) % m
      <3>0. a \in Int /\ v \in Int /\ c \in Int
        BY <2>2
      <3>1. ((a % m) + v) % m = (a + v) % m
        BY <3>0, ModAdd
      <3>2. ((c % m) + a) % m = (c + a) % m
        BY <3>0, ModAdd
      <3>3. a + v = v + a /\ c + a = z + 1
        BY <2>2
      <3>4. QED
        BY <2>2, <3>1, <3>2, <3>3
    <2>8. ToldOK'
      <3>1. z # 0 /\ z - StartNo = newestPos' /\ newestPos' \in 0 .. newestPos'
        BY <1>2, <1>7, TwccConstants
      <3>2. (feedback'.base + feedback'.count) % Period = (z + 1) % Period
        BY <2>2, <2>3, <2>7
      <3>3. QED
        BY <1>3, <2>1, <3>1, <3>2 DEF ToldOK
    <2>9. ASSUME feedback.count > 0
          PROVE  feedback'.base = (feedback.base + feedback.count) % Period
      <3>1. r.lastExtSN # 0 /\ (feedback.base + feedback.count) % Period = (r.lastExtSN + 1) % Period
        BY <1>2, <1>4, <2>9
      <3>2. QED
        BY <1>7, <3>1
    <2>10. QED
      BY <2>4, <2>5, <2>6, <2>8, <2>9 DEF TwccInv
  <1>8. QED
    <2>1. CASE Feedback(r)
      BY <1>1, <1>6, <1>7, <2>1, FeedbackTells
    <2>2. QED
      BY <1>1, <1>5, <2>1

LEMMA TwccInitially == TwccInit => TwccInv
  <1>0. HAVE TwccInit
  <1>1. /\ twcc \in [extInfo : {{}}, lastReport : {ReportDelta}, cycles : {0}, lastExtSN : {0},
                     lastSn : {0}, pktCtn : {0}, mSSRC : SSRCs]
        /\ twcc.extInfo = {} /\ twcc.cycles = 0 /\ twcc.lastExtSN = 0 /\ twcc.lastSn = 0
        /\ twcc.pktCtn = 0
        /\ feedback.base = StartNo /\ feedback.count = 0
        /\ now = 0 /\ arrival = [p \in 0 .. MaxPos |-> Never] /\ newestPos = -1
    BY <1>0 DEF TwccInit
  <1>2. 0 \in 0 .. Period - 1 /\ StartNo \in 0 .. Period - 1 /\ 0 % Period = 0 /\ -1 \in -1 .. MaxPos
    <2>1. 0 \in 0 .. Period - 1 /\ StartNo \in 0 .. Period - 1 /\ -1 \in -1 .. MaxPos
      BY TwccConstants
    <2>2. QED
      BY <2>1, ModSmall, TwccConstants
  <1>3. IsFiniteSet({}) /\ Cardinality({}) <= MaxCount
    BY FS_EmptySet, TwccConstants
  <1>4. TwccTypeOK
    BY <1>1, <1>2, <1>3 DEF TwccTypeOK
  <1>5. ResponderTypeOK
    BY <1>1, <1>2, <1>3, TwccConstants DEF ResponderTypeOK
  <1>6. CyclesOK /\ NotedOK /\ ToldOK
    BY <1>1 DEF CyclesOK, NotedOK, ToldOK
  <1>7. QED
    BY <1>4, <1>5, <1>6 DEF TwccInv

LEMMA TwccKept == TwccInv /\ [TwccNext]_twccVars => TwccInv'
  <1>0. HAVE TwccInv /\ [TwccNext]_twccVars
  <1>1. CASE TwccNext
    BY <1>0, <1>1, PushKeeps DEF TwccNext
  <1>2. CASE UNCHANGED twccVars
    BY <1>0, <1>2 DEF twccVars, TwccInv, TwccTypeOK, ResponderTypeOK, CyclesOK, NotedOK, ToldOK
  <1>3. QED
    BY <1>0, <1>1, <1>2

\* The inductive invariant of the Responder (twcc.go Push,
\* buildTransportCCPacket): its numbers are those of the positions.
THEOREM TwccInvariance == TwccSpec => []TwccInv
  BY TwccInitially, TwccKept, PTL DEF TwccSpec

\* The Responder never notes more than MaxCount packets, and all its numbers stay
\* within their types (twcc.go Push).
THEOREM TwccTypeCorrect == TwccSpec => []TwccTypeOK
  <1>1. TwccInv => TwccTypeOK
    BY DEF TwccInv
  <1>2. QED
    BY <1>1, TwccInvariance, PTL

\* NothingBeyond (twcc.go:61-64 and 104-117): the newest number that was told is
\* that of a packet that arrived, over any number of wrap-arounds, and nothing
\* that arrived lies beyond it unless it is noted.
THEOREM NothingBeyondTold == TwccSpec => []NothingBeyond
  <1>1. TwccInv => NothingBeyond
    <2>1. SUFFICES ASSUME TwccInv, newestPos >= 0
                   PROVE  /\ twcc.lastExtSN <= StartNo + newestPos
                          /\ twcc.extInfo = {} => twcc.lastExtSN = StartNo + newestPos
      BY DEF NothingBeyond
    <2>2. PICK n \in 0 .. MaxPos, S \in Nat, l \in Nat : n = newestPos /\ S = StartNo /\ l = twcc.lastExtSN
      <3>1. newestPos \in -1 .. MaxPos /\ twcc.lastExtSN \in Nat
        BY <2>1 DEF TwccInv, TwccTypeOK
      <3>2. newestPos \in 0 .. MaxPos
        BY <2>1, <3>1, TwccConstants
      <3>3. QED
        BY <3>1, <3>2, TwccConstants
    <2>3. l <= S + n
      BY <2>1, <2>2, TwccConstants DEF TwccInv, ToldOK
    <2>4. ASSUME twcc.extInfo = {} PROVE S + n <= l
      BY <2>1, <2>2, <2>4 DEF TwccInv, NotedOK
    <2>5. QED
      BY <2>2, <2>3, <2>4
  <1>2. QED
    BY <1>1, TwccInvariance, PTL

\* NumbersFollow (twcc.go:104-118): each feedback begins with the number after the
\* last one of the feedback before.
THEOREM FeedbacksFollow == TwccSpec => NumbersFollow
  <1>1. TwccInv /\ [TwccNext]_twccVars =>
          [Told /\ feedback.count > 0 => feedback'.base = (feedback.base + feedback.count) % Period]_twccVars
    BY PushKeeps DEF TwccNext
  <1>2. QED
    BY <1>1, TwccInvariance, PTL DEF TwccSpec, NumbersFollow

=============================================================================
