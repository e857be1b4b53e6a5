-------------------------- MODULE HostPlayback_proofs --------------------------
(***************************************************************************)
(* Proofs about HostPlayback and its BeatScheduler, for any tempos, meters,*)
(* block sizes, deviations within the tolerances, capacities and limits.   *)
(***************************************************************************)
EXTENDS HostPlayback, FiniteSetTheorems, SequenceTheorems, TLAPS

----------------------------------------------------------------------------
(* Rounded quotients *)

LEMMA Division ==
    ASSUME NEW a \in Int, NEW b \in Nat \ {0}
    PROVE  /\ a \div b \in Int /\ a % b \in 0 .. b - 1
           /\ a = (a \div b) * b + (a % b)
  OBVIOUS

\* A product grows with its first factor.
LEMMA ProductMonotone ==
    ASSUME NEW f \in Nat, NEW m \in Int, NEW n \in Int, m <= n
    PROVE  m * f \in Int /\ n * f \in Int /\ m * f <= n * f
  <1>1. PICK k \in Nat : n = m + k
    BY n - m \in Nat, n = m + (n - m)
  <1>2. n * f = m * f + k * f /\ k * f \in Nat /\ m * f \in Int
    BY <1>1
  <1> QED  BY <1>2

\* The quotient and the remainder are the only ones.
LEMMA DivisionUnique ==
    ASSUME NEW b \in Nat \ {0}, NEW m \in Int, NEW r \in 0 .. b - 1
    PROVE  (m * b + r) \div b = m /\ (m * b + r) % b = r
  <1> DEFINE a == m * b + r
  <1>1. a \in Int  OBVIOUS
  <1> HIDE DEF a
  <1>2. /\ a \div b \in Int /\ a % b \in 0 .. b - 1
        /\ a = (a \div b) * b + (a % b)
    BY <1>1, Division
  <1> DEFINE d == a \div b
             s == a % b
  <1>3. m * b + r = d * b + s  BY <1>2 DEF a
  <1>4. d \in Int /\ s \in 0 .. b - 1  BY <1>2
  <1> HIDE DEF d, s
  <1>5. m * b \in Int /\ d * b \in Int  BY <1>4
  <1>6. (m + 1) * b = m * b + b /\ (d + 1) * b = d * b + b  BY <1>4
  <1>7. CASE m < d
    <2>1. (m + 1) * b <= d * b  BY <1>4, <1>7, ProductMonotone
    <2> QED  BY <2>1, <1>3, <1>4, <1>5, <1>6
  <1>8. CASE d < m
    <2>1. (d + 1) * b <= m * b  BY <1>4, <1>8, ProductMonotone
    <2> QED  BY <2>1, <1>3, <1>4, <1>5, <1>6
  <1>9. CASE m = d  BY <1>9, <1>3, <1>4, <1>5 DEF d, s, a
  <1> QED  BY <1>4, <1>7, <1>8, <1>9

LEMMA CeilBounds ==
    ASSUME NEW v \in Int, NEW u \in Nat \ {0}, NEW tol \in Nat
    PROVE  /\ CeilWithin(v, u, tol) \in Int
           /\ CeilWithin(v, u, tol) * u - (v - tol) \in 0 .. u - 1
  <1> DEFINE a == tol - v
             d == a \div u
  <1>1. a \in Int  OBVIOUS
  <1>2. d \in Int /\ a % u \in 0 .. u - 1 /\ a = d * u + (a % u)
    BY <1>1, Division
  <1> DEFINE c == CeilWithin(v, u, tol)
  <1>3. c = -d  BY DEF CeilWithin
  <1>4. v - tol = -a  OBVIOUS
  <1> HIDE DEF a, c, d
  <1>5. c * u = -(d * u) /\ d * u \in Int  BY <1>2, <1>3
  <1>6. c \in Int /\ c * u - (v - tol) \in 0 .. u - 1
    BY <1>1, <1>2, <1>3, <1>4, <1>5
  <1> QED  BY <1>6 DEF c

\* A rounded quotient is at most n, or at least 0, when the value is.
LEMMA CeilAtMost ==
    ASSUME NEW v \in Int, NEW u \in Nat \ {0}, NEW tol \in Nat, NEW n \in Int
    PROVE  CeilWithin(v, u, tol) <= n <=> v - tol <= n * u
  <1> DEFINE c == CeilWithin(v, u, tol)
  <1>1. c \in Int /\ c * u - (v - tol) \in 0 .. u - 1  BY CeilBounds
  <1> HIDE DEF c
  <1>2. c * u \in Int /\ n * u \in Int  BY <1>1
  <1>3. ASSUME c <= n PROVE v - tol <= n * u
    BY <1>1, <1>2, <1>3, ProductMonotone
  <1>4. ASSUME n < c PROVE n * u < v - tol
    <2>1. (n + 1) * u <= c * u  BY <1>1, <1>4, ProductMonotone
    <2>2. (n + 1) * u = n * u + u  OBVIOUS
    <2> QED  BY <1>1, <1>2, <2>1, <2>2
  <1>5. n < c \/ c <= n  BY <1>1
  <1>6. ~(n * u < v - tol /\ v - tol <= n * u)  BY <1>2
  <1> QED  BY <1>3, <1>4, <1>5, <1>6, <1>1 DEF c

LEMMA FloorAtLeast ==
    ASSUME NEW x \in Int, NEW u \in Nat \ {0}, NEW n \in Int
    PROVE  x \div u \in Int /\ (n <= x \div u <=> n * u <= x)
  <1> DEFINE d == x \div u
             r == x % u
  <1>1. d \in Int /\ r \in 0 .. u - 1 /\ x = d * u + r  BY Division
  <1> HIDE DEF d, r
  <1>2. d * u \in Int /\ n * u \in Int  BY <1>1
  <1>3. ASSUME n <= d PROVE n * u <= x
    <2>1. n * u <= d * u  BY <1>1, <1>3, ProductMonotone
    <2> QED  BY <1>1, <1>2, <2>1
  <1>4. ASSUME d < n PROVE x < n * u
    <2>1. (d + 1) * u <= n * u  BY <1>1, <1>4, ProductMonotone
    <2>2. (d + 1) * u = d * u + u  BY <1>1
    <2> QED  BY <1>1, <1>2, <2>1, <2>2
  <1>5. (n <= d <=> n * u <= x)  BY <1>1, <1>2, <1>3, <1>4
  <1> QED  BY <1>1, <1>5 DEF d

LEMMA IntervalSize ==
    ASSUME NEW a \in Int, NEW n \in Nat
    PROVE  Cardinality(a .. a + n - 1) = n
  <1>1. PICK b \in Int : b = a + n - 1  OBVIOUS
  <1>2. Cardinality(a .. b) = IF a > b THEN 0 ELSE b - a + 1  BY FS_Interval
  <1>3. (IF a > b THEN 0 ELSE b - a + 1) = n  BY <1>1
  <1> QED  BY <1>1, <1>2, <1>3

----------------------------------------------------------------------------
(* The pulses of a block *)

\* A timing that the scheduler can be given, with tolerances that fit in it.
Playable(t) ==
    /\ t.quantaPerSample \in Nat \ {0}
    /\ OrdinalTolerance + SampleTolerance < t.quantaPerSample
    /\ t.numerator \in Nat \ {0}
    /\ t.beatLength \in BeatLengths
    /\ t.ppqPosition \in Nat /\ t.lastBarStart \in Nat
    /\ t.lastBarStart <= t.ppqPosition
    /\ t.samplePosition \in Nat /\ t.blockSize \in Nat \ {0}

\* A beat is three subdivisions, or one.
LEMMA BeatOfSubdivisions ==
    ASSUME NEW b \in BeatLengths, NEW s \in SubdivisionCounts
    PROVE  /\ b \in Nat \ {0} /\ b \div s \in Nat \ {0} /\ b = s * (b \div s)
           /\ OrdinalTolerance < b \div s
  <1>1. b \in Nat \ {0} /\ b % 3 = 0  BY SchedulerAssumption
  <1>2. b \div 3 \in Int /\ b = (b \div 3) * 3 + (b % 3)  BY <1>1, Division
  <1>3. OrdinalTolerance \in Nat /\ OrdinalTolerance < b \div 3
    BY SchedulerAssumption, DeviationAssumption
  <1>4. b \div 3 <= b  BY <1>1, <1>2, <1>3
  <1>5. CASE s = 1  BY <1>1, <1>2, <1>3, <1>4, <1>5
  <1>6. CASE s = 3  BY <1>1, <1>2, <1>3, <1>6
  <1> QED  BY <1>5, <1>6 DEF SubdivisionCounts

\* The ordinals count the pulses from the start of the bar.
LEMMA PulseOfOrdinal ==
    ASSUME NEW t, Playable(t), NEW s \in SubdivisionCounts, NEW k \in Int
    PROVE  /\ PulsePpq(t, s, k) = t.lastBarStart + k * SubdivisionLength(t, s)
           /\ k * SubdivisionLength(t, s) \in Int
  <1> DEFINE w == t.beatLength \div s
  <1>1. w \in Nat \ {0} /\ t.beatLength = s * w
    BY BeatOfSubdivisions DEF Playable
  <1>2. s \in Nat \ {0}  BY DEF SubdivisionCounts
  <1>3. k \div s \in Int /\ k % s \in 0 .. s - 1 /\ k = (k \div s) * s + (k % s)
    BY <1>2, Division
  <1>4. PulsePpq(t, s, k) = t.lastBarStart + (k \div s) * (s * w) + (k % s) * w
    BY <1>1 DEF PulsePpq, SubdivisionLength
  <1>5. SubdivisionLength(t, s) = w  BY DEF SubdivisionLength
  <1> DEFINE m == k \div s
             r == k % s
  <1>6. m \in Int /\ r \in Int /\ k = m * s + r  BY <1>3
  <1>7. PulsePpq(t, s, k) = t.lastBarStart + m * (s * w) + r * w  BY <1>4
  <1> HIDE DEF w, m, r
  <1>8. m * (s * w) + r * w = k * w /\ k * w \in Int
    BY <1>1, <1>2, <1>6
  <1>9. m * (s * w) \in Int /\ r * w \in Int  BY <1>1, <1>2, <1>6
  <1>10. t.lastBarStart \in Nat  BY DEF Playable
  <1> QED  BY <1>5, <1>7, <1>8, <1>9, <1>10

\* The first ordinal: the first pulse that is not before the block, within the
\* tolerance.
LEMMA FirstPulse ==
    ASSUME NEW t, Playable(t), NEW s \in SubdivisionCounts
    PROVE  /\ FirstOrdinal(t, s) \in Nat
           /\ \A k \in Int : FirstOrdinal(t, s) <= k <=>
                 t.ppqPosition - OrdinalTolerance <= PulsePpq(t, s, k)
  <1> DEFINE w == SubdivisionLength(t, s)
             v == t.ppqPosition - t.lastBarStart
  <1>1. w \in Nat \ {0} /\ OrdinalTolerance < w
    BY BeatOfSubdivisions DEF Playable, SubdivisionLength
  <1>2. OrdinalTolerance \in Nat  BY SchedulerAssumption
  <1>3. v \in Nat /\ t.ppqPosition \in Nat /\ t.lastBarStart \in Nat  BY DEF Playable
  <1>4. FirstOrdinal(t, s) = CeilWithin(v, w, OrdinalTolerance)  BY DEF FirstOrdinal
  <1>5. \A k \in Int : PulsePpq(t, s, k) = t.lastBarStart + k * w /\ k * w \in Int
    BY PulseOfOrdinal
  <1> HIDE DEF w
  <1>6. FirstOrdinal(t, s) \in Int /\ ~(FirstOrdinal(t, s) <= -1)
    <2>1. CeilWithin(v, w, OrdinalTolerance) <= -1 <=> v - OrdinalTolerance <= (-1) * w
      BY <1>1, <1>2, <1>3, CeilAtMost
    <2>2. CeilWithin(v, w, OrdinalTolerance) \in Int
      BY <1>1, <1>2, <1>3, CeilBounds
    <2>3. ~(v - OrdinalTolerance <= (-1) * w)  BY <1>1, <1>2, <1>3
    <2> QED  BY <1>4, <2>1, <2>2, <2>3
  <1>7. ASSUME NEW k \in Int
        PROVE  FirstOrdinal(t, s) <= k <=>
                   t.ppqPosition - OrdinalTolerance <= PulsePpq(t, s, k)
    <2>1. FirstOrdinal(t, s) <= k <=> v - OrdinalTolerance <= k * w
      BY <1>1, <1>2, <1>3, <1>4, CeilAtMost
    <2> QED  BY <1>2, <1>3, <1>5, <2>1
  <1> QED  BY <1>6, <1>7

\* The sample of a pulse: it falls into the block up to the last sample, and not
\* before the block from the first ordinal on.
LEMMA SampleOfPulse ==
    ASSUME NEW t, Playable(t), NEW s \in SubdivisionCounts, NEW k \in Int
    PROVE  /\ SampleOffset(t, s, k) \in Int
           /\ SampleOffset(t, s, k) * t.quantaPerSample
                  - (PulsePpq(t, s, k) - t.ppqPosition - SampleTolerance)
                        \in 0 .. t.quantaPerSample - 1
           /\ SampleOffset(t, s, k) < t.blockSize <=>
                  PulsePpq(t, s, k) <= LastSample(t) + SampleTolerance
           /\ FirstOrdinal(t, s) <= k => SampleOffset(t, s, k) >= 0
  <1> DEFINE q == t.quantaPerSample
             c == SampleOffset(t, s, k)
             v == PulsePpq(t, s, k) - t.ppqPosition
             n == t.blockSize - 1
  <1>1. /\ q \in Nat \ {0} /\ SampleTolerance \in Nat /\ OrdinalTolerance \in Nat
        /\ OrdinalTolerance + SampleTolerance < q
    BY SchedulerAssumption DEF Playable
  <1>2. PulsePpq(t, s, k) \in Int /\ t.ppqPosition \in Nat /\ v \in Int /\ n \in Nat
    BY PulseOfOrdinal DEF Playable
  <1>3. c = CeilWithin(v, q, SampleTolerance)  BY DEF SampleOffset
  <1> HIDE DEF q, c
  <1>4. c \in Int /\ c * q - (v - SampleTolerance) \in 0 .. q - 1
    BY <1>1, <1>2, <1>3, CeilBounds
  <1>5. c <= n <=> v - SampleTolerance <= n * q
    BY <1>1, <1>2, <1>3, CeilAtMost
  <1>6. c <= -1 <=> v - SampleTolerance <= (-1) * q
    BY <1>1, <1>2, <1>3, CeilAtMost
  <1>7. c < t.blockSize <=> PulsePpq(t, s, k) <= LastSample(t) + SampleTolerance
    <2>1. t.blockSize \in Nat  BY DEF Playable
    <2>2. LastSample(t) = t.ppqPosition + n * q /\ n * q \in Int
      BY <1>1, <1>2 DEF LastSample, q
    <2> QED  BY <1>1, <1>2, <1>4, <1>5, <2>1, <2>2
  <1>8. FirstOrdinal(t, s) <= k => c >= 0
    <2>1. FirstOrdinal(t, s) <= k => t.ppqPosition - OrdinalTolerance <= PulsePpq(t, s, k)
      BY FirstPulse
    <2> QED  BY <1>1, <1>2, <1>4, <1>6, <2>1
  <1> QED  BY <1>2, <1>4, <1>7, <1>8 DEF c, q

\* The loop over the ordinals ends within its bound, at the first pulse after
\* the last sample.
LEMMA OrdinalsOfBlock ==
    ASSUME NEW t, Playable(t), NEW s \in SubdivisionCounts
    PROVE  \E n \in Nat :
             /\ OrdinalsBeforeEnd(t, s) = FirstOrdinal(t, s) .. FirstOrdinal(t, s) + n - 1
             /\ Cardinality(OrdinalsBeforeEnd(t, s)) = n
             /\ \A k \in Int : k < FirstOrdinal(t, s) + n <=>
                   k < FirstOrdinal(t, s) \/ PulsePpq(t, s, k) <= LastSample(t) + SampleTolerance
  <1> DEFINE w == SubdivisionLength(t, s)
             q == t.quantaPerSample
             m == t.blockSize - 1
             first == FirstOrdinal(t, s)
             x == LastSample(t) + SampleTolerance - t.lastBarStart
             last == x \div w
             bound == first + (t.blockSize * q) \div w + 2
             n == IF last < first THEN 0 ELSE last - first + 1
  <1>1. w \in Nat \ {0}
    BY BeatOfSubdivisions DEF Playable, SubdivisionLength
  <1>2. /\ q \in Nat \ {0} /\ SampleTolerance \in Nat /\ OrdinalTolerance \in Nat
        /\ OrdinalTolerance + SampleTolerance < q
        /\ t.ppqPosition \in Nat /\ t.lastBarStart \in Nat
        /\ t.blockSize \in Nat \ {0} /\ m \in Nat
    BY SchedulerAssumption DEF Playable
  <1>3. LastSample(t) = t.ppqPosition + m * q /\ m * q \in Nat /\ t.blockSize * q = m * q + q
    <2> HIDE DEF q
    <2>1. m * q \in Nat /\ t.blockSize * q = m * q + q  BY <1>2
    <2> QED  BY <2>1 DEF LastSample, q
  <1>4. x \in Int  BY <1>2, <1>3
  <1>5. first \in Nat  BY FirstPulse
  <1>6. \A k \in Int : /\ PulsePpq(t, s, k) = t.lastBarStart + k * w
                       /\ k * w \in Int
    BY PulseOfOrdinal
  <1>7. last \in Int /\ \A k \in Int : k <= last <=> k * w <= x
    BY <1>1, <1>4, FloorAtLeast
  <1>8. \A k \in Int : k <= last <=> PulsePpq(t, s, k) <= LastSample(t) + SampleTolerance
    <2> SUFFICES ASSUME NEW k \in Int
                 PROVE  k * w <= x <=> PulsePpq(t, s, k) <= LastSample(t) + SampleTolerance
      BY <1>7
    <2> DEFINE z == LastSample(t) + SampleTolerance
    <2>1. z \in Int /\ x = z - t.lastBarStart  BY <1>2, <1>3
    <2> HIDE DEF w, z, x
    <2> QED  BY <1>2, <1>6, <2>1 DEF z
  <1>9. n \in Nat  BY <1>5, <1>7
  <1>10. bound \in Int /\ last <= bound
    <2>1. t.blockSize * q \in Int  BY <1>2
    <2>2. /\ (t.blockSize * q) \div w \in Int
          /\ \A k \in Int : k <= (t.blockSize * q) \div w <=> k * w <= t.blockSize * q
      BY <1>1, <2>1, FloorAtLeast
    <2>3. first * w \in Int /\ t.ppqPosition - OrdinalTolerance <= t.lastBarStart + first * w
      BY <1>5, <1>6, FirstPulse
    <2>4. last * w \in Int /\ last * w <= x  BY <1>6, <1>7
    <2>5. (last - first) * w = last * w - first * w
      <3> HIDE DEF last, first, w
      <3> QED  BY <1>1, <1>5, <1>7
    <2>6. (last - first) * w <= t.blockSize * q
      <3> DEFINE bq == t.blockSize * q
                 mq == m * q
                 fw == first * w
                 lw == last * w
                 ls == LastSample(t)
      <3>1. ls = t.ppqPosition + mq /\ mq \in Nat /\ bq = mq + q  BY <1>3
      <3>2. lw \in Int /\ lw <= ls + SampleTolerance - t.lastBarStart  BY <2>4
      <3>3. fw \in Int /\ t.ppqPosition - OrdinalTolerance <= t.lastBarStart + fw  BY <2>3
      <3>4. (last - first) * w = lw - fw  BY <2>5
      <3> HIDE DEF bq, mq, fw, lw, ls, last, first, w, q
      <3>5. lw - fw <= bq  BY <1>2, <3>1, <3>2, <3>3
      <3> QED  BY <3>4, <3>5 DEF bq
    <2>7. last - first <= (t.blockSize * q) \div w  BY <1>5, <1>7, <2>2, <2>6
    <2> QED  BY <1>5, <1>7, <2>2, <2>7
  <1>11. OrdinalsBeforeEnd(t, s) = first .. first + n - 1
    <2>1. OrdinalsBeforeEnd(t, s) = {k \in first .. bound : SampleOffset(t, s, k) < t.blockSize}
      BY DEF OrdinalsBeforeEnd
    <2>2. \A k \in Int : SampleOffset(t, s, k) < t.blockSize <=> k <= last
      BY <1>8, SampleOfPulse
    <2> HIDE DEF first, last, bound
    <2> QED  BY <1>5, <1>7, <1>10, <2>1, <2>2
  <1>12. Cardinality(first .. first + n - 1) = n
    <2>1. first \in Int  BY <1>5
    <2> HIDE DEF first, n
    <2> QED  BY <1>9, <2>1, IntervalSize
  <1>13. \A k \in Int : k < first + n <=> k < first \/ k <= last
    <2> HIDE DEF first, last
    <2> QED  BY <1>5, <1>7
  <1> HIDE DEF n, first, last
  <1> QED  BY <1>8, <1>9, <1>11, <1>12, <1>13 DEF first

\* What schedule() returns when nothing overflows: a beat for every pulse from
\* the first ordinal to the last sample of the block.
LEMMA ScheduledPulses ==
    ASSUME NEW t, Playable(t), NEW s \in SubdivisionCounts,
           ~ BeatSchedule(t, s).overflowed
    PROVE  \E n \in Nat :
             /\ BeatSchedule(t, s).beats =
                   [i \in 1 .. n |-> ScheduledBeat(t, s, FirstOrdinal(t, s) + i - 1)]
             /\ \A k \in Int : k < FirstOrdinal(t, s) + n <=>
                   k < FirstOrdinal(t, s) \/ PulsePpq(t, s, k) <= LastSample(t) + SampleTolerance
  <1> DEFINE inBlock == {k \in OrdinalsBeforeEnd(t, s) : SampleOffset(t, s, k) >= 0}
             count == Cardinality(inBlock)
             firstIn == EndOrdinal(t, s) - count
  <1>1. PICK n \in Nat :
             /\ OrdinalsBeforeEnd(t, s) = FirstOrdinal(t, s) .. FirstOrdinal(t, s) + n - 1
             /\ Cardinality(OrdinalsBeforeEnd(t, s)) = n
             /\ \A k \in Int : k < FirstOrdinal(t, s) + n <=>
                   k < FirstOrdinal(t, s) \/ PulsePpq(t, s, k) <= LastSample(t) + SampleTolerance
    BY OrdinalsOfBlock
  <1>2. FirstOrdinal(t, s) \in Nat  BY FirstPulse
  <1>3. inBlock = OrdinalsBeforeEnd(t, s)
    <2>1. \A k \in OrdinalsBeforeEnd(t, s) : k \in Int /\ FirstOrdinal(t, s) <= k
      BY <1>1, <1>2
    <2> QED  BY <2>1, SampleOfPulse
  <1>4. count = n  BY <1>1, <1>3
  <1>5. firstIn = FirstOrdinal(t, s)  BY <1>1, <1>2, <1>4 DEF EndOrdinal
  <1>6. /\ BeatSchedule(t, s).beats =
             [i \in 1 .. (IF count <= Capacity THEN count ELSE Capacity) |->
                ScheduledBeat(t, s, firstIn + i - 1)]
        /\ ~(count > Capacity)
    BY DEF BeatSchedule
  <1> HIDE DEF count, firstIn
  <1>7. Capacity \in Nat  BY SchedulerAssumption
  <1>8. BeatSchedule(t, s).beats = [i \in 1 .. n |-> ScheduledBeat(t, s, FirstOrdinal(t, s) + i - 1)]
    BY <1>4, <1>5, <1>6, <1>7
  <1> QED  BY <1>1, <1>8

----------------------------------------------------------------------------
(* What is heard of a block *)

\* Later ordinals are later pulses, and never fall on an earlier sample.
LEMMA PulsesInOrder ==
    ASSUME NEW t, Playable(t), NEW s \in SubdivisionCounts, NEW k \in Int
    PROVE  /\ PulsePpq(t, s, k) < PulsePpq(t, s, k + 1)
           /\ SampleOffset(t, s, k) <= SampleOffset(t, s, k + 1)
  <1> DEFINE w == SubdivisionLength(t, s)
             q == t.quantaPerSample
             p == PulsePpq(t, s, k)
             o == SampleOffset(t, s, k + 1)
  <1>1. w \in Nat \ {0}
    BY BeatOfSubdivisions DEF Playable, SubdivisionLength
  <1>2. /\ p = t.lastBarStart + k * w /\ k * w \in Int
        /\ PulsePpq(t, s, k + 1) = t.lastBarStart + (k + 1) * w /\ (k + 1) * w \in Int
    BY PulseOfOrdinal
  <1>3. (k + 1) * w = k * w + w
    <2> HIDE DEF w
    <2> QED  BY <1>1
  <1>4. /\ t.lastBarStart \in Nat /\ t.ppqPosition \in Nat
        /\ q \in Nat \ {0} /\ SampleTolerance \in Nat
    BY SchedulerAssumption DEF Playable
  <1>5. p \in Int /\ PulsePpq(t, s, k + 1) = p + w
    BY <1>1, <1>2, <1>3, <1>4
  <1>6. o \in Int /\ o * q - (PulsePpq(t, s, k + 1) - t.ppqPosition - SampleTolerance) \in 0 .. q - 1
    BY SampleOfPulse
  <1>7. SampleOffset(t, s, k) <= o <=> p - t.ppqPosition - SampleTolerance <= o * q
    <2>1. SampleOffset(t, s, k) = CeilWithin(p - t.ppqPosition, q, SampleTolerance)
      BY DEF SampleOffset
    <2>2. p - t.ppqPosition \in Int  BY <1>4, <1>5
    <2> HIDE DEF p, q, o
    <2> QED  BY <1>4, <1>6, <2>1, <2>2, CeilAtMost
  <1> HIDE DEF w, q, p, o
  <1>8. o * q \in Int  BY <1>4, <1>6
  <1>9. p - t.ppqPosition - SampleTolerance <= o * q
    BY <1>1, <1>4, <1>5, <1>6, <1>8
  <1> QED  BY <1>1, <1>5, <1>7, <1>9 DEF p, o

\* A number of bars, of beats and a part of a beat, divided by bar and beat.
Position(bar, num, bl, o, r) == bar * (num * bl) + o * bl + r

LEMMA BeatInBar ==
    ASSUME NEW bl \in Nat \ {0}, NEW num \in Nat \ {0}, NEW bar \in Int,
           NEW o \in Int, NEW r \in 0 .. bl - 1
    PROVE  Position(bar, num, bl, o, r) % (num * bl) = (o % num) * bl + r
  <1> DEFINE j == o \div num
             i == o % num
             p == Position(bar, num, bl, o, r)
             x == i * bl + r
  <1>1. j \in Int /\ i \in 0 .. num - 1 /\ o = j * num + i  BY Division
  <1> HIDE DEF i, j
  <1>2. p = (bar + j) * (num * bl) + x
    <2>1. o * bl = j * (num * bl) + i * bl  BY <1>1
    <2>2. (bar + j) * (num * bl) = bar * (num * bl) + j * (num * bl)  BY <1>1
    <2>3. bar * (num * bl) \in Int /\ j * (num * bl) \in Int /\ i * bl \in Int  BY <1>1
    <2> QED  BY <2>1, <2>2, <2>3 DEF Position
  <1>3. i * bl \in Nat /\ x \in 0 .. num * bl - 1 /\ num * bl \in Nat \ {0}
    <2>1. i * bl <= (num - 1) * bl /\ 0 * bl <= i * bl  BY <1>1, ProductMonotone
    <2>2. (num - 1) * bl = num * bl - bl /\ num * bl \in Int /\ i * bl \in Int /\ 0 * bl = 0
      BY <1>1
    <2> QED  BY <2>1, <2>2
  <1>4. p % (num * bl) = x
    <2>1. bar + j \in Int  BY <1>1
    <2> HIDE DEF p, x
    <2> QED  BY <1>2, <1>3, <2>1, DivisionUnique
  <1> QED  BY <1>4 DEF i

\* The number of a pulse in the bars of the host.
LEMMA NumberOfPulse ==
    ASSUME NEW t, Playable(t), NEW s \in SubdivisionCounts, NEW k \in Int,
           NEW bar \in Int, t.lastBarStart = bar * (t.numerator * t.beatLength)
    PROVE  LET beat == ScheduledBeat(t, s, k)
               barLength == t.numerator * t.beatLength
           IN  /\ beat.beatNumber = (beat.ppq % barLength) \div t.beatLength + 1
               /\ beat.beatNumber \in Nat \ {0}
               /\ beat.isBarStart <=> beat.ppq % barLength = 0
               /\ beat.isBarStart \in BOOLEAN
  <1> DEFINE w == t.beatLength \div s
             o == k \div s
             r == k % s
             bl == t.beatLength
             num == t.numerator
             p == PulsePpq(t, s, k)
  <1>1. w \in Nat \ {0} /\ bl = s * w /\ bl \in Nat \ {0} /\ num \in Nat \ {0}
    BY BeatOfSubdivisions DEF Playable
  <1>2. s \in Nat \ {0}  BY DEF SubdivisionCounts
  <1>3. o \in Int /\ r \in 0 .. s - 1  BY <1>2, Division
  <1>4. p = bar * (num * bl) + o * bl + r * w
    BY DEF PulsePpq, SubdivisionLength
  <1>5. /\ ScheduledBeat(t, s, k).ppq = p
        /\ ScheduledBeat(t, s, k).beatNumber = (o % num) + 1
        /\ ScheduledBeat(t, s, k).isBarStart = (r = 0 /\ o % num = 0)
    BY DEF ScheduledBeat
  <1> HIDE DEF w, o, r, bl, num, p
  <1>6. r * w \in 0 .. bl - 1 /\ (r * w = 0 <=> r = 0)
    <2>1. r * w <= (s - 1) * w /\ 0 * w <= r * w  BY <1>1, <1>2, <1>3, ProductMonotone
    <2>2. (s - 1) * w = bl - w /\ 0 * w = 0 /\ r * w \in Int  BY <1>1, <1>2, <1>3
    <2>3. r # 0 => 1 * w <= r * w  BY <1>1, <1>2, <1>3, ProductMonotone
    <2> QED  BY <1>1, <1>3, <2>1, <2>2, <2>3
  <1> DEFINE y == r * w
             z == Position(bar, num, bl, o, y)
             i == o % num
  <1>7. i \in 0 .. num - 1 /\ y \in 0 .. bl - 1  BY <1>1, <1>3, <1>6, Division
  <1>8. z % (num * bl) = i * bl + y
    <2>1. /\ bl \in Nat \ {0} /\ num \in Nat \ {0} /\ bar \in Int
          /\ o \in Int /\ y \in 0 .. bl - 1
      BY <1>1, <1>3, <1>7
    <2> HIDE DEF y
    <2> QED  BY <2>1, BeatInBar, Zenon
  <1>9. p = z  BY <1>4 DEF Position
  <1> HIDE DEF y, z, i
  <1>10. (i * bl + y) \div bl = i  BY <1>1, <1>7, DivisionUnique
  <1>11. i * bl + y = 0 <=> i = 0 /\ r = 0
    <2>1. y = 0 <=> r = 0  BY <1>6 DEF y
    <2>2. i = 0 => i * bl = 0  BY <1>1
    <2>3. i # 0 => 1 * bl <= i * bl  BY <1>1, <1>7, ProductMonotone
    <2>4. i * bl \in Int  BY <1>1, <1>7
    <2> QED  BY <1>1, <1>7, <2>1, <2>2, <2>3, <2>4
  <1>12. /\ (p % (num * bl)) \div bl = i
         /\ p % (num * bl) = 0 <=> r = 0 /\ i = 0
    BY <1>8, <1>9, <1>10, <1>11
  <1>13. ScheduledBeat(t, s, k).beatNumber \in Nat \ {0}  BY <1>1, <1>5, <1>7 DEF i
  <1> QED  BY <1>5, <1>12, <1>13, Zenon DEF num, bl, i

\* A beat as it should be heard of a block: on time, numbered as the bars, within
\* the samples and the positions of the block.
Proper(t, h) ==
    /\ h.late + SampleTolerance \in 0 .. h.quantaPerSample - 1
    /\ h.beatNumber = (h.ppq % (t.numerator * t.beatLength)) \div t.beatLength + 1
    /\ h.isBarStart <=> h.ppq % (t.numerator * t.beatLength) = 0
    /\ t.samplePosition <= h.sample /\ h.sample < t.samplePosition + t.blockSize
    /\ t.ppqPosition - OrdinalTolerance <= h.ppq
    /\ h.ppq <= LastSample(t) + SampleTolerance

\* The start of a bar is a whole number of bars from the start of the song.
OnBar(t) == \E bar \in Int : t.lastBarStart = bar * (t.numerator * t.beatLength)

LEMMA PulseHeard ==
    ASSUME NEW t, Playable(t), OnBar(t), t.quantaPerSample \in Tempos,
           NEW s \in SubdivisionCounts, NEW k \in Int,
           FirstOrdinal(t, s) <= k,
           PulsePpq(t, s, k) <= LastSample(t) + SampleTolerance
    PROVE  /\ Heard(t, ScheduledBeat(t, s, k)) \in HeardBeat
           /\ Proper(t, Heard(t, ScheduledBeat(t, s, k)))
           /\ Heard(t, ScheduledBeat(t, s, k)).ppq = PulsePpq(t, s, k)
           /\ Heard(t, ScheduledBeat(t, s, k)).sample
                 = t.samplePosition + SampleOffset(t, s, k)
  <1> DEFINE beat == ScheduledBeat(t, s, k)
             h == Heard(t, beat)
             ppq == PulsePpq(t, s, k)
             offset == SampleOffset(t, s, k)
             q == t.quantaPerSample
             w == SubdivisionLength(t, s)
             barLength == t.numerator * t.beatLength
  <1>1. beat.ppq = ppq /\ beat.sampleOffset = offset  BY DEF ScheduledBeat
  <1>2. /\ h.ppq = ppq /\ h.sample = t.samplePosition + offset
        /\ h.late = t.ppqPosition + offset * q - ppq
        /\ h.quantaPerSample = q
        /\ h.beatNumber = beat.beatNumber /\ h.isBarStart = beat.isBarStart
    BY <1>1 DEF Heard
  <1>3. /\ beat.beatNumber = (ppq % barLength) \div t.beatLength + 1
        /\ beat.beatNumber \in Nat \ {0}
        /\ beat.isBarStart <=> ppq % barLength = 0
        /\ beat.isBarStart \in BOOLEAN
    BY <1>1, NumberOfPulse DEF OnBar
  <1>4. ppq \in Nat
    <2>1. w \in Nat  BY BeatOfSubdivisions DEF Playable, SubdivisionLength
    <2>2. FirstOrdinal(t, s) \in Nat  BY FirstPulse
    <2>3. 0 * w <= k * w /\ 0 * w = 0  BY <2>1, <2>2, ProductMonotone
    <2>4. ppq = t.lastBarStart + k * w /\ k * w \in Int  BY PulseOfOrdinal
    <2>5. t.lastBarStart \in Nat  BY DEF Playable
    <2> HIDE DEF ppq, w
    <2> QED  BY <2>3, <2>4, <2>5
  <1>5. /\ offset \in Nat /\ offset < t.blockSize
        /\ offset * q - (ppq - t.ppqPosition - SampleTolerance) \in 0 .. q - 1
    BY SampleOfPulse
  <1>6. t.ppqPosition - OrdinalTolerance <= ppq  BY FirstPulse
  <1>7. /\ t.samplePosition \in Nat /\ t.blockSize \in Nat /\ t.ppqPosition \in Nat
        /\ q \in Nat /\ SampleTolerance \in Nat
    BY SchedulerAssumption DEF Playable
  <1>8. offset * q \in Int
    <2> HIDE DEF offset, q
    <2> QED  BY <1>5, <1>7
  <1>9. h = [ppq |-> ppq, sample |-> t.samplePosition + offset,
             late |-> t.ppqPosition + offset * q - ppq, quantaPerSample |-> q,
             beatNumber |-> beat.beatNumber, isBarStart |-> beat.isBarStart]
    BY <1>1 DEF Heard
  <1> HIDE DEF beat, h, ppq, offset, q, barLength
  <1>10. h \in HeardBeat
    <2>1. t.samplePosition + offset \in Nat  BY <1>5, <1>7
    <2>2. t.ppqPosition + offset * q - ppq \in Int  BY <1>4, <1>7, <1>8
    <2>3. q \in Tempos  BY DEF q
    <2> QED  BY <1>3, <1>4, <1>9, <2>1, <2>2, <2>3 DEF HeardBeat
  <1>11. h.late + SampleTolerance \in 0 .. h.quantaPerSample - 1
    <2> DEFINE x == offset * q
    <2>1. x \in Int /\ x - (ppq - t.ppqPosition - SampleTolerance) \in 0 .. q - 1
      BY <1>5, <1>8
    <2>2. h.late = t.ppqPosition + x - ppq  BY <1>2
    <2> HIDE DEF x
    <2> QED  BY <1>2, <1>4, <1>7, <2>1, <2>2
  <1>12. t.samplePosition <= h.sample /\ h.sample < t.samplePosition + t.blockSize
    BY <1>2, <1>5, <1>7
  <1>13. Proper(t, h)
    <2>1. /\ h.beatNumber = (h.ppq % barLength) \div t.beatLength + 1
          /\ h.isBarStart <=> h.ppq % barLength = 0
      BY <1>2, <1>3, Zenon
    <2>2. t.ppqPosition - OrdinalTolerance <= h.ppq /\ h.ppq <= LastSample(t) + SampleTolerance
      BY <1>2, <1>6 DEF ppq
    <2> QED  BY <1>11, <1>12, <2>1, <2>2, Zenon DEF Proper, barLength
  <1> QED  BY <1>2, <1>10, <1>13 DEF h, beat, ppq, offset

HeardOf(t, s) ==
    [i \in DOMAIN BeatSchedule(t, s).beats |-> Heard(t, BeatSchedule(t, s).beats[i])]

LEMMA BlockHeard ==
    ASSUME NEW t, Playable(t), OnBar(t), t.quantaPerSample \in Tempos,
           NEW s \in SubdivisionCounts, ~ BeatSchedule(t, s).overflowed
    PROVE  /\ HeardOf(t, s) \in Seq(HeardBeat)
           /\ \A i \in 1 .. Len(HeardOf(t, s)) : Proper(t, HeardOf(t, s)[i])
           /\ \A i \in 1 .. Len(HeardOf(t, s)) - 1 :
                 /\ HeardOf(t, s)[i].ppq < HeardOf(t, s)[i + 1].ppq
                 /\ HeardOf(t, s)[i].sample <= HeardOf(t, s)[i + 1].sample
           /\ \A k \in Int :
                 FirstOrdinal(t, s) <= k /\ PulsePpq(t, s, k) <= LastSample(t) + SampleTolerance
                    => \E i \in 1 .. Len(HeardOf(t, s)) : HeardOf(t, s)[i].ppq = PulsePpq(t, s, k)
  <1> DEFINE first == FirstOrdinal(t, s)
             last == LastSample(t) + SampleTolerance
             new == HeardOf(t, s)
             H(k) == Heard(t, ScheduledBeat(t, s, k))
  <1>1. PICK n \in Nat :
             /\ BeatSchedule(t, s).beats = [i \in 1 .. n |-> ScheduledBeat(t, s, first + i - 1)]
             /\ \A k \in Int : k < first + n <=> k < first \/ PulsePpq(t, s, k) <= last
    BY ScheduledPulses
  <1>2. first \in Nat  BY FirstPulse
  <1>3. new = [i \in 1 .. n |-> H(first + i - 1)]  BY <1>1 DEF HeardOf
  <1>4. \A i \in 1 .. n : /\ first + i - 1 \in Int /\ first <= first + i - 1
                          /\ PulsePpq(t, s, first + i - 1) <= last
    <2> SUFFICES ASSUME NEW i \in 1 .. n
                 PROVE  /\ first + i - 1 \in Int /\ first <= first + i - 1
                        /\ PulsePpq(t, s, first + i - 1) <= last
      OBVIOUS
    <2>1. PICK k \in Int : k = first + i - 1  BY <1>2
    <2> HIDE DEF first, last
    <2>2. ~(k < first) /\ k < first + n  BY <1>2, <2>1
    <2>3. PulsePpq(t, s, k) <= last  BY <1>1, <2>2
    <2> QED  BY <1>2, <2>1, <2>2, <2>3
  <1>5. \A i \in 1 .. n : /\ H(first + i - 1) \in HeardBeat
                          /\ Proper(t, H(first + i - 1))
                          /\ H(first + i - 1).ppq = PulsePpq(t, s, first + i - 1)
                          /\ H(first + i - 1).sample
                                = t.samplePosition + SampleOffset(t, s, first + i - 1)
    BY <1>4, PulseHeard
  <1> HIDE DEF first, last, H, new
  <1>6. new \in Seq(HeardBeat) /\ Len(new) = n /\ \A i \in 1 .. n : new[i] = H(first + i - 1)
    BY <1>3, <1>5
  <1>7. ASSUME NEW i \in 1 .. n - 1
        PROVE  new[i].ppq < new[i + 1].ppq /\ new[i].sample <= new[i + 1].sample
    <2>1. i \in 1 .. n /\ i + 1 \in 1 .. n /\ first + (i + 1) - 1 = (first + i - 1) + 1
      BY <1>2
    <2>2. PICK k \in Int : k = first + i - 1  BY <1>2
    <2>3. /\ new[i].ppq = PulsePpq(t, s, k) /\ new[i + 1].ppq = PulsePpq(t, s, k + 1)
          /\ new[i].sample = t.samplePosition + SampleOffset(t, s, k)
          /\ new[i + 1].sample = t.samplePosition + SampleOffset(t, s, k + 1)
      BY <1>5, <1>6, <2>1, <2>2
    <2>4. /\ PulsePpq(t, s, k) < PulsePpq(t, s, k + 1)
          /\ SampleOffset(t, s, k) <= SampleOffset(t, s, k + 1)
      BY PulsesInOrder
    <2>5. SampleOffset(t, s, k) \in Int /\ SampleOffset(t, s, k + 1) \in Int
      BY SampleOfPulse
    <2>6. t.samplePosition \in Nat  BY DEF Playable
    <2> QED  BY <2>3, <2>4, <2>5, <2>6
  <1>8. ASSUME NEW k \in Int, first <= k, PulsePpq(t, s, k) <= last
        PROVE  \E i \in 1 .. n : new[i].ppq = PulsePpq(t, s, k)
    <2>1. k < first + n  BY <1>1, <1>8
    <2>2. k - first + 1 \in 1 .. n /\ first + (k - first + 1) - 1 = k
      BY <1>2, <1>8, <2>1
    <2>3. new[k - first + 1].ppq = PulsePpq(t, s, k)  BY <1>5, <1>6, <2>2
    <2> QED  BY <2>2, <2>3
  <1>9. \A i \in 1 .. n : Proper(t, new[i])  BY <1>5, <1>6
  <1> QED  BY <1>6, <1>7, <1>8, <1>9 DEF new, first, last

\* Every pulse of the block, wherever the bar began, is one of those heard.
LEMMA PulseFound ==
    ASSUME NEW t, Playable(t), OnBar(t), t.quantaPerSample \in Tempos,
           NEW s \in SubdivisionCounts, ~ BeatSchedule(t, s).overflowed,
           NEW p \in Int, p % SubdivisionLength(t, s) = 0,
           t.ppqPosition - OrdinalTolerance <= p,
           p <= LastSample(t) + SampleTolerance
    PROVE  \E i \in 1 .. Len(HeardOf(t, s)) : HeardOf(t, s)[i].ppq = p
  <1> DEFINE w == SubdivisionLength(t, s)
  <1>1. w \in Nat \ {0} /\ t.beatLength = s * w
    BY BeatOfSubdivisions DEF Playable, SubdivisionLength
  <1>2. PICK bar \in Int : t.lastBarStart = bar * (t.numerator * t.beatLength)
    BY DEF OnBar
  <1>3. t.numerator \in Nat /\ s \in Nat  BY DEF Playable, SubdivisionCounts
  <1>4. PICK j \in Int : p = j * w
    <2>1. p \div w \in Int /\ p = (p \div w) * w + (p % w)  BY <1>1, Division
    <2> HIDE DEF w
    <2>2. p = (p \div w) * w  BY <1>1, <2>1 DEF w
    <2> QED  BY <2>1, <2>2
  <1> DEFINE num == t.numerator
             k == j - bar * (num * s)
  <1>5. t.lastBarStart + k * w = p
    <2>1. t.lastBarStart = bar * (num * (s * w))  BY <1>1, <1>2
    <2>2. num \in Int  BY <1>3
    <2> HIDE DEF w, num
    <2>3. bar * (num * (s * w)) = (bar * (num * s)) * w /\ bar * (num * s) \in Int
      BY <1>1, <1>3, <2>2
    <2>4. (j - bar * (num * s)) * w = j * w - (bar * (num * s)) * w
      BY <1>1, <1>3, <2>2, <2>3
    <2>5. j * w \in Int /\ (bar * (num * s)) * w \in Int  BY <1>1, <2>3
    <2> QED  BY <1>4, <2>1, <2>3, <2>4, <2>5
  <1>6. k \in Int  BY <1>3
  <1> HIDE DEF w, num, k
  <1>7. PulsePpq(t, s, k) = p  BY <1>5, <1>6, PulseOfOrdinal DEF w
  <1>8. FirstOrdinal(t, s) <= k  BY <1>6, <1>7, FirstPulse
  <1> QED  BY <1>6, <1>7, <1>8, BlockHeard

----------------------------------------------------------------------------
(* The steps of the host *)

\* At most one beat, followed by those of a block.
LEMMA Joined ==
    ASSUME NEW S, NEW pre \in Seq(S), Len(pre) <= 1, NEW new \in Seq(S)
    PROVE  /\ pre \o new \in Seq(S) /\ Len(pre \o new) = Len(pre) + Len(new)
           /\ \A i \in 1 .. Len(new) : (pre \o new)[i + Len(pre)] = new[i]
           /\ \A i \in 1 .. Len(pre \o new) :
                 \/ i = 1 /\ Len(pre) = 1 /\ (pre \o new)[i] = pre[1]
                 \/ i - Len(pre) \in 1 .. Len(new) /\ (pre \o new)[i] = new[i - Len(pre)]
  <1>1. pre \o new \in Seq(S) /\ Len(pre \o new) = Len(pre) + Len(new)  OBVIOUS
  <1>2. Len(pre) \in {0, 1} /\ Len(new) \in Nat
    <2>1. Len(pre) \in Nat /\ Len(new) \in Nat  BY LenProperties
    <2>2. \A n \in Nat : n <= 1 => n \in {0, 1}  OBVIOUS
    <2> QED  BY <2>1, <2>2, Zenon
  <1>3. \A i \in 1 .. Len(pre) + Len(new) :
           (pre \o new)[i] = IF i <= Len(pre) THEN pre[i] ELSE new[i - Len(pre)]
    OBVIOUS
  <1>4. ASSUME NEW i \in 1 .. Len(new) PROVE (pre \o new)[i + Len(pre)] = new[i]
    BY <1>2, <1>3
  <1>5. ASSUME NEW i \in 1 .. Len(pre \o new)
        PROVE  \/ i = 1 /\ Len(pre) = 1 /\ (pre \o new)[i] = pre[1]
               \/ i - Len(pre) \in 1 .. Len(new) /\ (pre \o new)[i] = new[i - Len(pre)]
    BY <1>1, <1>2, <1>3
  <1> QED  BY <1>1, <1>4, <1>5

\* What the host may report for a block.
IsReported(t, q, size, d) ==
    /\ q \in Tempos /\ size \in BlockSizes /\ d \in Deviations
    /\ t = Reported(q, size, d) /\ t.ppqPosition >= 0

\* It is a timing that the scheduler can be given.
LEMMA ReportedTiming ==
    ASSUME TypeOK, NEW t, NEW q, NEW size, NEW d, IsReported(t, q, size, d)
    PROVE  /\ Playable(t) /\ OnBar(t) /\ t \in HostTiming
           /\ t.isPlaying = TRUE
           /\ t.ppqPosition = hostPpq + d /\ t.samplePosition = hostSample
           /\ t.quantaPerSample = q /\ t.blockSize = size
           /\ t.numerator * t.beatLength = BarLength
           /\ SubdivisionLength(t, subdivisions) = PulseLength
  <1> DEFINE ppq == hostPpq + d
             bar == ppq \div BarLength
  <1>0. /\ q \in Tempos /\ size \in BlockSizes /\ d \in Deviations
        /\ t = Reported(q, size, d) /\ t.ppqPosition >= 0
    BY DEF IsReported
  <1>1. /\ meter.numerator \in Nat \ {0} /\ meter.beatLength \in BeatLengths
        /\ meter.beatLength \in Nat \ {0}
    BY HostAssumption, SchedulerAssumption DEF TypeOK
  <1>2. BarLength \in Nat \ {0}
    <2> DEFINE m == meter.numerator
               n == meter.beatLength
    <2>1. m \in Nat \ {0} /\ n \in Nat \ {0}  BY <1>1
    <2> HIDE DEF m, n
    <2>2. 1 * n <= m * n /\ m * n \in Int  BY <2>1, ProductMonotone
    <2>3. m * n \in Nat \ {0}  BY <2>1, <2>2
    <2> QED  BY <2>3 DEF BarLength, m, n
  <1>3. ppq \in Nat /\ hostSample \in Nat
    <2>1. t.ppqPosition = ppq  BY <1>0 DEF Reported
    <2> QED  BY <1>0, <2>1, HostAssumption DEF TypeOK
  <1>4. q \in Nat \ {0} /\ size \in Nat \ {0}  BY <1>0, HostAssumption
  <1>5. OrdinalTolerance + SampleTolerance < q
    <2>1. Abs(d - d) = 0  BY <1>0, HostAssumption DEF Abs
    <2>2. Abs(d - d) + OrdinalTolerance + SampleTolerance < q
      BY <1>0, DeviationAssumption
    <2>3. OrdinalTolerance \in Nat /\ SampleTolerance \in Nat  BY SchedulerAssumption
    <2> QED  BY <1>4, <2>1, <2>2, <2>3
  <1>6. bar \in Nat /\ bar * BarLength \in Nat /\ bar * BarLength <= ppq
    <2> DEFINE r == ppq % BarLength
    <2> HIDE DEF ppq
    <2>1. bar \in Int /\ r \in 0 .. BarLength - 1 /\ ppq = bar * BarLength + r
      BY <1>2, <1>3, Division
    <2>2. 0 <= bar <=> 0 * BarLength <= ppq  BY <1>2, <1>3, FloorAtLeast
    <2>3. 0 * BarLength = 0  BY <1>2
    <2> HIDE DEF bar, r
    <2>4. bar \in Nat  BY <1>3, <2>1, <2>2, <2>3
    <2>5. bar * BarLength \in Int /\ 0 * BarLength <= bar * BarLength
      BY <1>2, <2>4, ProductMonotone
    <2> QED  BY <1>2, <1>3, <2>1, <2>3, <2>4, <2>5
  <1>7. t = [isPlaying |-> TRUE, quantaPerSample |-> q, numerator |-> meter.numerator,
             beatLength |-> meter.beatLength, ppqPosition |-> ppq,
             lastBarStart |-> bar * BarLength, samplePosition |-> hostSample,
             blockSize |-> size]
    BY <1>0 DEF Reported
  <1> HIDE DEF bar, ppq
  <1>8. Playable(t)  BY <1>1, <1>3, <1>4, <1>5, <1>6, <1>7 DEF Playable
  <1>9. OnBar(t)  BY <1>6, <1>7 DEF OnBar, BarLength
  <1>10. t \in HostTiming
    <2> DEFINE start == bar * BarLength
    <2>1. start \in Nat  BY <1>6
    <2>2. t = [isPlaying |-> TRUE, quantaPerSample |-> q, numerator |-> meter.numerator,
               beatLength |-> meter.beatLength, ppqPosition |-> ppq,
               lastBarStart |-> start, samplePosition |-> hostSample, blockSize |-> size]
      BY <1>7
    <2> HIDE DEF start
    <2>3. [isPlaying |-> TRUE, quantaPerSample |-> q, numerator |-> meter.numerator,
           beatLength |-> meter.beatLength, ppqPosition |-> ppq,
           lastBarStart |-> start, samplePosition |-> hostSample, blockSize |-> size]
             \in [isPlaying : {TRUE}, quantaPerSample : Tempos, numerator : Nat \ {0},
                  beatLength : BeatLengths, ppqPosition : Nat, lastBarStart : Nat,
                  samplePosition : Nat, blockSize : BlockSizes]
      BY <1>0, <1>1, <1>3, <2>1
    <2> QED  BY <2>2, <2>3, Zenon DEF HostTiming
  <1> QED  BY <1>7, <1>8, <1>9, <1>10 DEF ppq, BarLength, SubdivisionLength, PulseLength

\* A block of the playing host that is scheduled.
PlaysBlock(t, q, size, d) ==
    /\ IsReported(t, q, size, d)
    /\ hostPpq + size * q <= MaxPpq
    /\ HostAdvances(t) /\ ProcessPlayingBlock(t)

LEMMA PlaysBlockFacts ==
    ASSUME PlaybackInv, NEW t, NEW q, NEW size, NEW d, PlaysBlock(t, q, size, d)
    PROVE  /\ q \in Nat \ {0} /\ size \in Nat \ {0} /\ d \in Int
           /\ hostPpq \in Nat /\ hostSample \in Nat /\ size * q \in Nat
           /\ subdivisions \in SubdivisionCounts
           /\ Playable(t) /\ OnBar(t) /\ t \in HostTiming /\ t.isPlaying = TRUE
           /\ t.ppqPosition = hostPpq + d /\ t.samplePosition = hostSample
           /\ t.quantaPerSample = q /\ t.blockSize = size
           /\ t.numerator * t.beatLength = BarLength
           /\ t.beatLength = meter.beatLength
           /\ SubdivisionLength(t, subdivisions) = PulseLength
           /\ ~ BeatSchedule(t, subdivisions).overflowed
           /\ LastSample(t) = hostPpq + d + size * q - q
           /\ t.ppqPosition \in Int /\ LastSample(t) \in Int
           /\ t.ppqPosition <= LastSample(t)
  <1>1. /\ q \in Tempos /\ size \in BlockSizes /\ d \in Deviations
        /\ IsReported(t, q, size, d) /\ t = Reported(q, size, d)
        /\ ~ BeatSchedule(t, subdivisions).overflowed
    BY DEF PlaysBlock, ProcessPlayingBlock, IsReported
  <1>2. q \in Nat \ {0} /\ size \in Nat \ {0} /\ d \in Int  BY <1>1, HostAssumption
  <1>3. /\ TypeOK /\ hostPpq \in Nat /\ hostSample \in Nat
        /\ subdivisions \in SubdivisionCounts
    BY HostAssumption DEF PlaybackInv, TypeOK
  <1>4. t.beatLength = meter.beatLength  BY <1>1 DEF Reported
  <1>5. size * q \in Nat /\ (size - 1) * q = size * q - q  BY <1>2
  <1>6. /\ Playable(t) /\ OnBar(t) /\ t \in HostTiming /\ t.isPlaying = TRUE
        /\ t.ppqPosition = hostPpq + d /\ t.samplePosition = hostSample
        /\ t.quantaPerSample = q /\ t.blockSize = size
        /\ t.numerator * t.beatLength = BarLength
        /\ SubdivisionLength(t, subdivisions) = PulseLength
    <2>1. TypeOK /\ IsReported(t, q, size, d)  BY <1>1, <1>3
    <2> QED  BY <2>1, ReportedTiming
  <1>7. LastSample(t) = hostPpq + d + (size - 1) * q
    BY <1>6 DEF LastSample
  <1>8. LastSample(t) = hostPpq + d + size * q - q
    BY <1>2, <1>3, <1>5, <1>7
  <1>9. /\ t.ppqPosition \in Int /\ LastSample(t) \in Int
        /\ t.ppqPosition <= LastSample(t)
    <2>1. 1 * q <= size * q /\ size * q \in Int /\ 1 * q = q  BY <1>2, ProductMonotone
    <2>2. t.ppqPosition = hostPpq + d  BY <1>6
    <2> QED  BY <1>2, <1>3, <1>8, <2>1, <2>2
  <1> QED  BY <1>1, <1>2, <1>3, <1>4, <1>5, <1>6, <1>8, <1>9, Zenon

\* A block that follows the one before it keeps the last beat heard, and the host
\* has not located since.
LEMMA HeardAfterBlock ==
    ASSUME PlaybackInv, NEW t, NEW q, NEW size, NEW d, PlaysBlock(t, q, size, d)
    PROVE  \E pre \in Seq(HeardBeat) :
              /\ Len(pre) <= 1
              /\ heard' = pre \o HeardOf(t, subdivisions)
              /\ Len(pre) = 1 => /\ heard # <<>> /\ ~located
                                 /\ pre[1] = heard[Len(heard)]
                                 /\ Len(heard) \in 1 .. Len(heard)
  <1> DEFINE result == BeatSchedule(t, subdivisions)
             pre == IF result.transportDiscontinuity THEN <<>> ELSE LastHeard
  <1>1. heard' = pre \o HeardOf(t, subdivisions)
    BY DEF PlaysBlock, ProcessPlayingBlock, HeardOf
  <1>2. heard \in Seq(HeardBeat) /\ located \in BOOLEAN  BY DEF PlaybackInv, TypeOK
  <1>3. CASE pre = <<>>
    <2>1. pre \in Seq(HeardBeat) /\ Len(pre) = 0  BY <1>3, EmptySeq
    <2>2. heard' = <<>> \o HeardOf(t, subdivisions)  BY <1>1, <1>3
    <2>3. <<>> \in Seq(HeardBeat) /\ Len(<<>>) = 0  BY EmptySeq
    <2>4. ~(0 = 1) /\ 0 <= 1  OBVIOUS
    <2> QED  BY <2>2, <2>3, <2>4
  <1>4. CASE pre # <<>>
    <2>1. ~result.transportDiscontinuity /\ heard # <<>> /\ pre = <<heard[Len(heard)]>>
      BY <1>4 DEF LastHeard, Last
    <2>2. IsContinuous(t)  BY <2>1 DEF BeatSchedule
    <2>3. wasPlaying /\ hostSample = expectedNextSamplePosition
      BY <2>2, PlaysBlockFacts DEF IsContinuous
    <2>4. ~located
      <3> SUFFICES ASSUME located PROVE FALSE
        OBVIOUS
      <3>1. /\ timing.isPlaying /\ expectedNextSamplePosition > 0
            /\ expectedNextPpqPosition = EndOfBlock(timing)
            /\ hostSample = 0 \/ IsElsewhere(hostPpq)
        BY <2>3 DEF PlaybackInv, ExpectsTheHost
      <3>2. IsElsewhere(hostPpq)  BY <2>3, <3>1
      <3>3. /\ t.ppqPosition = hostPpq + d /\ t.quantaPerSample = q
            /\ q \in Tempos /\ d \in Deviations
            /\ q \in Nat /\ d \in Int /\ hostPpq \in Nat
        BY PlaysBlockFacts DEF PlaysBlock, IsReported
      <3> DEFINE drift == Abs(hostPpq + d - expectedNextPpqPosition)
      <3>4. expectedNextPpqPosition \in Nat  BY DEF PlaybackInv, TypeOK
      <3>5. drift > PositionTolerance /\ 2 * drift > q
        BY <3>1, <3>2, <3>3 DEF IsElsewhere
      <3>6. drift <= PositionTolerance \/ 2 * drift <= q
        <4>1. t.ppqPosition - expectedNextPpqPosition
                  = hostPpq + d - expectedNextPpqPosition
          BY <3>3, <3>4
        <4> QED  BY <2>2, <3>3, <4>1 DEF IsContinuous
      <3>7. drift \in Int /\ PositionTolerance \in Nat
        BY <3>3, <3>4, SchedulerAssumption DEF Abs
      <3> HIDE DEF drift
      <3> QED  BY <3>3, <3>5, <3>6, <3>7
    <2>5. Len(heard) \in 1 .. Len(heard) /\ heard[Len(heard)] \in HeardBeat
      BY <1>2, <2>1
    <2> DEFINE last == <<heard[Len(heard)]>>
    <2>6. last \in Seq(HeardBeat) /\ Len(last) <= 1 /\ last[1] = heard[Len(heard)]
      BY <2>5
    <2>7. heard' = last \o HeardOf(t, subdivisions)  BY <1>1, <2>1
    <2> HIDE DEF last
    <2> QED  BY <2>1, <2>4, <2>5, <2>6, <2>7
  <1> QED  BY <1>3, <1>4

LEMMA BlockPreservesType ==
    ASSUME PlaybackInv, NEW t, NEW q, NEW size, NEW d, PlaysBlock(t, q, size, d)
    PROVE  TypeOK' /\ ExpectsTheHost'
  <1>1. /\ q \in Nat \ {0} /\ size \in Nat \ {0} /\ d \in Int
        /\ hostPpq \in Nat /\ hostSample \in Nat /\ size * q \in Nat
        /\ subdivisions \in SubdivisionCounts
        /\ Playable(t) /\ OnBar(t) /\ t \in HostTiming /\ t.isPlaying = TRUE
        /\ t.ppqPosition = hostPpq + d /\ t.samplePosition = hostSample
        /\ t.quantaPerSample = q /\ t.blockSize = size
        /\ ~ BeatSchedule(t, subdivisions).overflowed
    BY PlaysBlockFacts
  <1>2. /\ timing' = t /\ hostPpq' = hostPpq + size * q
        /\ hostSample' = hostSample + size /\ located' = FALSE
        /\ meter' = meter /\ subdivisions' = subdivisions
        /\ hostPpq + size * q <= MaxPpq /\ t.ppqPosition >= 0
        /\ q \in Tempos /\ size \in BlockSizes /\ d \in Deviations
    BY <1>1 DEF PlaysBlock, HostAdvances, IsReported
  <1>3. /\ wasPlaying' = TRUE
        /\ expectedNextSamplePosition' = hostSample + size
        /\ expectedNextPpqPosition' = hostPpq + d + size * q
        /\ hostSample <= MaxSamplePosition - size
        /\ schedule' = BeatSchedule(t, subdivisions)
    BY <1>1 DEF PlaysBlock, ProcessPlayingBlock, Advance, IsSchedulable
  <1>4. heard' \in Seq(HeardBeat)
    <2>1. PICK pre \in Seq(HeardBeat) : Len(pre) <= 1 /\ heard' = pre \o HeardOf(t, subdivisions)
      BY HeardAfterBlock
    <2>2. HeardOf(t, subdivisions) \in Seq(HeardBeat)  BY <1>1, <1>2, BlockHeard
    <2> QED  BY <2>1, <2>2, ConcatProperties
  <1>5. /\ schedule'.overflowed \in BOOLEAN /\ schedule'.hostTimingValid = TRUE
        /\ schedule'.transportDiscontinuity \in BOOLEAN
    BY <1>3 DEF BeatSchedule
  <1>6. MaxSamplePosition \in Nat /\ MaxPpq \in Nat
    BY SchedulerAssumption, HostAssumption
  <1>7. /\ expectedNextSamplePosition' \in 0 .. MaxSamplePosition
        /\ expectedNextPpqPosition' \in Nat
        /\ hostPpq' \in 0 .. MaxPpq /\ hostSample' \in Nat
    BY <1>1, <1>2, <1>3, <1>6
  <1>8. meter' \in Meters /\ subdivisions' \in SubdivisionCounts
    BY <1>1, <1>2 DEF PlaybackInv, TypeOK
  <1>9. TypeOK'
    BY <1>1, <1>2, <1>3, <1>4, <1>5, <1>7, <1>8 DEF TypeOK
  <1>10. expectedNextPpqPosition' = hostPpq' + d
    BY <1>1, <1>2, <1>3
  <1>11. expectedNextSamplePosition' > 0 /\ expectedNextSamplePosition' = hostSample'
    BY <1>1, <1>2, <1>3
  <1>12. timing'.isPlaying  BY <1>1, <1>2
  <1>13. expectedNextPpqPosition' = EndOfBlock(timing')
    BY <1>1, <1>2, <1>3 DEF EndOfBlock
  <1>14. ExpectsTheHost'
    <2>1. \E e \in Deviations : expectedNextPpqPosition' = hostPpq' + e
      BY <1>2, <1>10
    <2>2. EndOfBlock(timing)' = EndOfBlock(timing')  BY DEF EndOfBlock
    <2> QED  BY <1>2, <1>3, <1>5, <1>11, <1>12, <1>13, <2>1, <2>2 DEF ExpectsTheHost
  <1> QED  BY <1>9, <1>14

\* Where the beat kept from before the block lies.
LEMMA KeptBeat ==
    ASSUME PlaybackInv, NEW t, NEW q, NEW size, NEW d, PlaysBlock(t, q, size, d),
           heard # <<>>, ~located
    PROVE  LET last == heard[Len(heard)]
           IN  /\ last \in HeardBeat
               /\ last.late + SampleTolerance \in 0 .. last.quantaPerSample - 1
               /\ last.beatNumber = (last.ppq % BarLength) \div meter.beatLength + 1
               /\ last.isBarStart <=> last.ppq % BarLength = 0
               /\ last.sample < hostSample
               /\ \A e \in Deviations : last.ppq + OrdinalTolerance < hostPpq + e
  <1>1. heard \in Seq(HeardBeat)  BY DEF PlaybackInv, TypeOK
  <1>2. Len(heard) \in DOMAIN heard /\ heard[Len(heard)] \in HeardBeat
    BY <1>1
  <1>3. /\ heard[Len(heard)].sample < hostSample
        /\ \A e \in Deviations : heard[Len(heard)].ppq + OrdinalTolerance < hostPpq + e
    BY DEF PlaybackInv, HeardIsOver, Last
  <1>4. heard[Len(heard)].late + SampleTolerance
            \in 0 .. heard[Len(heard)].quantaPerSample - 1
    BY <1>2 DEF PlaybackInv, OnTime
  <1>5. /\ heard[Len(heard)].beatNumber
              = (heard[Len(heard)].ppq % BarLength) \div meter.beatLength + 1
        /\ heard[Len(heard)].isBarStart <=> heard[Len(heard)].ppq % BarLength = 0
    BY <1>2 DEF PlaybackInv, NumberedAsHostBars
  <1> QED  BY <1>2, <1>3, <1>4, <1>5

\* Each beat of the run after a block is the one kept or one of the block.
LEMMA BlockPreservesBeats ==
    ASSUME PlaybackInv, NEW t, NEW q, NEW size, NEW d, PlaysBlock(t, q, size, d)
    PROVE  OnTime' /\ NumberedAsHostBars'
  <1> DEFINE new == HeardOf(t, subdivisions)
  <1>1. /\ Playable(t) /\ OnBar(t) /\ t.quantaPerSample \in Tempos
        /\ subdivisions \in SubdivisionCounts
        /\ ~ BeatSchedule(t, subdivisions).overflowed
        /\ t.numerator * t.beatLength = BarLength /\ t.beatLength = meter.beatLength
    BY PlaysBlockFacts DEF PlaysBlock, IsReported
  <1>2. new \in Seq(HeardBeat) /\ \A i \in 1 .. Len(new) : Proper(t, new[i])
    BY <1>1, BlockHeard
  <1>3. PICK pre \in Seq(HeardBeat) :
              /\ Len(pre) <= 1
              /\ heard' = pre \o new
              /\ Len(pre) = 1 => /\ heard # <<>> /\ ~located
                                 /\ pre[1] = heard[Len(heard)]
    BY HeardAfterBlock
  <1> HIDE DEF new
  <1>4. \A i \in 1 .. Len(heard') :
           \/ i = 1 /\ Len(pre) = 1 /\ heard'[i] = pre[1]
           \/ i - Len(pre) \in 1 .. Len(new) /\ heard'[i] = new[i - Len(pre)]
    BY <1>2, <1>3, Joined
  <1>5. heard' \in Seq(HeardBeat)  BY <1>2, <1>3, Joined
  <1>6. DOMAIN heard' = 1 .. Len(heard')  BY <1>5
  <1>7. BarLength' = BarLength /\ meter' = meter
    BY DEF PlaysBlock, HostAdvances, BarLength
  <1> DEFINE Sound(h) ==
               /\ h.late + SampleTolerance \in 0 .. h.quantaPerSample - 1
               /\ h.beatNumber = (h.ppq % BarLength) \div meter.beatLength + 1
               /\ h.isBarStart <=> h.ppq % BarLength = 0
  <1>8. ASSUME Len(pre) = 1 PROVE Sound(pre[1])
    <2>1. heard # <<>> /\ ~located /\ pre[1] = heard[Len(heard)]  BY <1>3, <1>8
    <2>2. Sound(heard[Len(heard)])  BY <2>1, KeptBeat
    <2> QED  BY <2>1, <2>2, Zenon
  <1>9. ASSUME NEW i \in 1 .. Len(new) PROVE Sound(new[i])
    <2>1. Proper(t, new[i])  BY <1>2
    <2> QED  BY <1>1, <2>1, Zenon DEF Proper
  <1> HIDE DEF Sound
  <1>10. \A i \in 1 .. Len(heard') : Sound(heard'[i])
    BY <1>4, <1>8, <1>9, Zenon
  <1>11. OnTime'  BY <1>6, <1>10, Zenon DEF OnTime, Sound
  <1>12. NumberedAsHostBars'
    BY <1>6, <1>7, <1>10, Zenon DEF NumberedAsHostBars, Sound
  <1> QED  BY <1>11, <1>12

LEMMA BlockPreservesOrder ==
    ASSUME PlaybackInv, NEW t, NEW q, NEW size, NEW d, PlaysBlock(t, q, size, d)
    PROVE  NeverTwice'
  <1> DEFINE new == HeardOf(t, subdivisions)
  <1>1. /\ Playable(t) /\ OnBar(t) /\ t.quantaPerSample \in Tempos
        /\ subdivisions \in SubdivisionCounts
        /\ ~ BeatSchedule(t, subdivisions).overflowed
        /\ t.samplePosition = hostSample /\ t.ppqPosition = hostPpq + d
        /\ hostPpq \in Nat /\ hostSample \in Nat /\ d \in Int /\ d \in Deviations
    BY PlaysBlockFacts DEF PlaysBlock, IsReported
  <1>2. /\ new \in Seq(HeardBeat) /\ \A i \in 1 .. Len(new) : Proper(t, new[i])
        /\ \A i \in 1 .. Len(new) - 1 : /\ new[i].ppq < new[i + 1].ppq
                                        /\ new[i].sample <= new[i + 1].sample
    BY <1>1, BlockHeard
  <1>3. PICK pre \in Seq(HeardBeat) :
              /\ Len(pre) <= 1
              /\ heard' = pre \o new
              /\ Len(pre) = 1 => /\ heard # <<>> /\ ~located
                                 /\ pre[1] = heard[Len(heard)]
    BY HeardAfterBlock
  <1> HIDE DEF new
  <1>4. /\ Len(heard') = Len(pre) + Len(new)
        /\ \A i \in 1 .. Len(new) : heard'[i + Len(pre)] = new[i]
        /\ \A i \in 1 .. Len(heard') :
             \/ i = 1 /\ Len(pre) = 1 /\ heard'[i] = pre[1]
             \/ i - Len(pre) \in 1 .. Len(new) /\ heard'[i] = new[i - Len(pre)]
    BY <1>2, <1>3, Joined
  <1>5. Len(pre) \in Nat /\ Len(new) \in Nat  BY <1>2, LenProperties
  <1>6. PICK n \in Nat, m \in Nat : n = Len(pre) /\ m = Len(new)  BY <1>5
  <1> SUFFICES ASSUME NEW i \in 1 .. Len(heard') - 1
               PROVE  /\ heard'[i].ppq < heard'[i + 1].ppq
                      /\ heard'[i].sample <= heard'[i + 1].sample
    BY DEF NeverTwice
  <1>7. i \in 1 .. n + m /\ i + 1 \in 1 .. n + m /\ i \in Nat  BY <1>4, <1>6
  <1>8. CASE i = 1 /\ n = 1 /\ heard'[i] = pre[1]
    <2>1. heard # <<>> /\ ~located /\ heard'[i] = heard[Len(heard)]
      BY <1>3, <1>6, <1>8
    <2>2. 1 \in 1 .. m /\ heard'[i + 1] = new[1]
      BY <1>4, <1>6, <1>7, <1>8
    <2> DEFINE a == heard[Len(heard)]
               b == new[1]
    <2>3. /\ a \in HeardBeat /\ a.sample < hostSample
          /\ a.ppq + OrdinalTolerance < hostPpq + d
      BY <1>1, <2>1, KeptBeat
    <2>4. /\ b \in HeardBeat /\ hostSample <= b.sample
          /\ hostPpq + d - OrdinalTolerance <= b.ppq
      <3>1. 1 \in 1 .. Len(new)  BY <1>6, <2>2
      <3>2. new[1] \in HeardBeat /\ Proper(t, new[1])  BY <1>2, <3>1
      <3>3. t.samplePosition <= new[1].sample /\ t.ppqPosition - OrdinalTolerance <= new[1].ppq
        BY <3>2, Zenon DEF Proper
      <3>4. hostSample <= new[1].sample /\ hostPpq + d - OrdinalTolerance <= new[1].ppq
        <4>1. t.samplePosition = hostSample /\ t.ppqPosition = hostPpq + d  BY <1>1
        <4>2. hostSample <= new[1].sample  BY <3>3, <4>1
        <4>3. /\ hostPpq \in Nat /\ d \in Int /\ OrdinalTolerance \in Nat
              /\ new[1].ppq \in Nat
          BY <1>1, <3>2, SchedulerAssumption DEF HeardBeat
        <4>4. hostPpq + d - OrdinalTolerance <= new[1].ppq  BY <3>3, <4>1, <4>3
        <4> QED  BY <4>2, <4>4
      <3> QED  BY <3>2, <3>4
    <2>5. OrdinalTolerance \in Nat  BY SchedulerAssumption
    <2> HIDE DEF a, b
    <2>6. a.ppq \in Nat /\ a.sample \in Nat /\ b.ppq \in Nat /\ b.sample \in Nat
      BY <2>3, <2>4 DEF HeardBeat
    <2>7. a.ppq < b.ppq /\ a.sample <= b.sample
      BY <1>1, <2>3, <2>4, <2>5, <2>6
    <2> QED  BY <2>1, <2>2, <2>7, Zenon DEF a, b
  <1>9. CASE i - n \in 1 .. m /\ heard'[i] = new[i - n]
    <2>1. PICK j \in 1 .. m : j = i - n  BY <1>9
    <2>2. j \in 1 .. m - 1 /\ j + 1 \in 1 .. m /\ (j + 1) + n = i + 1
      BY <1>6, <1>7, <2>1
    <2>3. heard'[i + 1] = new[j + 1]  BY <1>4, <1>6, <2>2
    <2>4. new[j].ppq < new[j + 1].ppq /\ new[j].sample <= new[j + 1].sample
      BY <1>2, <1>6, <2>2
    <2> QED  BY <1>9, <2>1, <2>3, <2>4
  <1> QED  BY <1>4, <1>6, <1>7, <1>8, <1>9

LEMMA BlockPreservesOver ==
    ASSUME PlaybackInv, NEW t, NEW q, NEW size, NEW d, PlaysBlock(t, q, size, d)
    PROVE  HeardIsOver'
  <1> DEFINE new == HeardOf(t, subdivisions)
  <1>1. /\ Playable(t) /\ OnBar(t) /\ t.quantaPerSample \in Tempos
        /\ subdivisions \in SubdivisionCounts
        /\ ~ BeatSchedule(t, subdivisions).overflowed
        /\ t.samplePosition = hostSample /\ t.blockSize = size
        /\ t.quantaPerSample = q
        /\ LastSample(t) = hostPpq + d + size * q - q
        /\ hostPpq \in Nat /\ hostSample \in Nat /\ d \in Int
        /\ size * q \in Nat /\ size \in Nat \ {0} /\ q \in Nat
        /\ d \in Deviations /\ q \in Tempos
    BY PlaysBlockFacts DEF PlaysBlock, IsReported
  <1>2. /\ hostPpq' = hostPpq + size * q /\ hostSample' = hostSample + size
        /\ wasPlaying' = TRUE
    BY <1>1 DEF PlaysBlock, HostAdvances, ProcessPlayingBlock, Advance
  <1>3. new \in Seq(HeardBeat) /\ \A i \in 1 .. Len(new) : Proper(t, new[i])
    BY <1>1, BlockHeard
  <1>4. PICK pre \in Seq(HeardBeat) :
              /\ Len(pre) <= 1
              /\ heard' = pre \o new
              /\ Len(pre) = 1 => /\ heard # <<>> /\ ~located
                                 /\ pre[1] = heard[Len(heard)]
    BY HeardAfterBlock
  <1> HIDE DEF new
  <1>5. /\ heard' \in Seq(HeardBeat)
        /\ \A i \in 1 .. Len(heard') :
             \/ i = 1 /\ Len(pre) = 1 /\ heard'[i] = pre[1]
             \/ i - Len(pre) \in 1 .. Len(new) /\ heard'[i] = new[i - Len(pre)]
    BY <1>3, <1>4, Joined
  <1> DEFINE Over(h) == /\ h.sample < hostSample + size
                        /\ \A e \in Deviations :
                              h.ppq + OrdinalTolerance < hostPpq + size * q + e
  <1>6. Deviations \subseteq Int /\ OrdinalTolerance \in Nat /\ SampleTolerance \in Nat
    BY HostAssumption, SchedulerAssumption
  <1>7. ASSUME Len(pre) = 1 PROVE Over(pre[1])
    <2> DEFINE a == heard[Len(heard)]
    <2>1. heard # <<>> /\ ~located /\ pre[1] = a  BY <1>4, <1>7
    <2>2. /\ a \in HeardBeat /\ a.sample < hostSample
          /\ \A e \in Deviations : a.ppq + OrdinalTolerance < hostPpq + e
      BY <2>1, KeptBeat
    <2> HIDE DEF a
    <2>3. a.ppq \in Nat /\ a.sample \in Nat  BY <2>2 DEF HeardBeat
    <2>4. a.sample < hostSample + size  BY <1>1, <2>2, <2>3
    <2>5. ASSUME NEW e \in Deviations
          PROVE  a.ppq + OrdinalTolerance < hostPpq + size * q + e
      <3> DEFINE x == size * q
      <3>1. x \in Nat /\ e \in Int  BY <1>1, <1>6
      <3>2. a.ppq + OrdinalTolerance < hostPpq + e  BY <2>2
      <3> HIDE DEF x
      <3>3. a.ppq + OrdinalTolerance < hostPpq + x + e  BY <1>1, <1>6, <2>3, <3>1, <3>2
      <3> QED  BY <3>3 DEF x
    <2> QED  BY <2>1, <2>4, <2>5
  <1>8. ASSUME NEW i \in 1 .. Len(new) PROVE Over(new[i])
    <2> DEFINE b == new[i]
               x == size * q
    <2>1. /\ b \in HeardBeat /\ b.sample < hostSample + size
          /\ b.ppq <= hostPpq + d + x - q + SampleTolerance
      BY <1>1, <1>3 DEF Proper
    <2>2. x \in Nat  BY <1>1
    <2> HIDE DEF b, x
    <2>3. b.ppq \in Nat  BY <2>1 DEF HeardBeat
    <2>4. ASSUME NEW e \in Deviations
          PROVE  b.ppq + OrdinalTolerance < hostPpq + x + e
      <3>1. Abs(d - e) + OrdinalTolerance + SampleTolerance < q
        BY <1>1, DeviationAssumption
      <3>2. e \in Int  BY <1>6
      <3>3. Abs(d - e) \in Int /\ d - e <= Abs(d - e)  BY <1>1, <3>2 DEF Abs
      <3>4. d - e + OrdinalTolerance + SampleTolerance < q
        BY <1>1, <1>6, <3>1, <3>2, <3>3
      <3> QED  BY <1>1, <1>6, <2>1, <2>2, <2>3, <3>2, <3>4
    <2> QED  BY <2>1, <2>4 DEF b, x
  <1> HIDE DEF Over
  <1>9. \A i \in 1 .. Len(heard') : Over(heard'[i])
    BY <1>5, <1>7, <1>8, Zenon
  <1>10. ASSUME heard' # <<>> PROVE Over(Last(heard'))
    <2>1. Len(heard') \in 1 .. Len(heard')  BY <1>5, <1>10
    <2> QED  BY <1>9, <2>1 DEF Last
  <1>11. ASSUME heard' # <<>>
         PROVE  /\ Last(heard').sample < hostSample'
                /\ \A e \in Deviations :
                      Last(heard').ppq + OrdinalTolerance < hostPpq' + e
    <2>1. Over(Last(heard'))  BY <1>10, <1>11
    <2> QED  BY <1>2, <2>1, Zenon DEF Over
  <1> QED  BY <1>2, <1>11 DEF HeardIsOver

\* The pulses of the block are heard, as the beats of the run after it.
LEMMA BlockPreservesHeard ==
    ASSUME PlaybackInv, NEW t, NEW q, NEW size, NEW d, PlaysBlock(t, q, size, d)
    PROVE  /\ BlockIsHeard'
           /\ \A p \in Int :
                 /\ p % PulseLength = 0
                 /\ t.ppqPosition - OrdinalTolerance <= p
                 /\ p <= LastSample(t) + SampleTolerance
                 => \E b \in Range(heard') : b.ppq = p
  <1> DEFINE new == HeardOf(t, subdivisions)
  <1>1. /\ Playable(t) /\ OnBar(t) /\ t.quantaPerSample \in Tempos
        /\ subdivisions \in SubdivisionCounts
        /\ ~ BeatSchedule(t, subdivisions).overflowed
        /\ SubdivisionLength(t, subdivisions) = PulseLength
    BY PlaysBlockFacts DEF PlaysBlock, IsReported
  <1>0. t.ppqPosition \in Int /\ LastSample(t) \in Int
    BY PlaysBlockFacts
  <1>2. new \in Seq(HeardBeat)  BY <1>1, BlockHeard
  <1>3. PICK pre \in Seq(HeardBeat) : Len(pre) <= 1 /\ heard' = pre \o new
    BY HeardAfterBlock
  <1>4. /\ heard' \in Seq(HeardBeat) /\ Len(heard') = Len(pre) + Len(new)
        /\ \A i \in 1 .. Len(new) : heard'[i + Len(pre)] = new[i]
    <2> HIDE DEF new
    <2> QED  BY <1>2, <1>3, Joined
  <1>5. ASSUME NEW p \in Int, p % PulseLength = 0,
               t.ppqPosition - OrdinalTolerance <= p,
               p <= LastSample(t) + SampleTolerance
        PROVE  \E b \in Range(heard') : b.ppq = p
    <2>1. PICK i \in 1 .. Len(new) : new[i].ppq = p
      BY <1>1, <1>5, PulseFound
    <2> HIDE DEF new
    <2>2. Len(pre) \in Nat /\ Len(new) \in Nat  BY <1>2, LenProperties
    <2>3. i + Len(pre) \in 1 .. Len(heard')  BY <1>4, <2>2
    <2>4. i + Len(pre) \in DOMAIN heard' /\ heard'[i + Len(pre)].ppq = p
      BY <1>4, <2>1, <2>3
    <2> QED  BY <2>4, Zenon DEF Range
  <1>6. timing' = t /\ PulseLength' = PulseLength
    BY DEF PlaysBlock, HostAdvances, PulseLength
  <1>7. BlockIsHeard'
    <2> SUFFICES ASSUME NEW p \in t.ppqPosition .. LastSample(t) + SampleTolerance,
                        p % PulseLength = 0
                 PROVE  \E b \in Range(heard') : b.ppq = p
      BY <1>6 DEF BlockIsHeard, LastSample
    <2>1. /\ p \in Int /\ t.ppqPosition - OrdinalTolerance <= p
          /\ p <= LastSample(t) + SampleTolerance
      BY <1>0, SchedulerAssumption
    <2> QED  BY <1>5, <2>1
  <1> QED  BY <1>5, <1>7

LEMMA BlockPreservesInv ==
    ASSUME PlaybackInv, NEW t, NEW q, NEW size, NEW d, PlaysBlock(t, q, size, d)
    PROVE  PlaybackInv'
BY BlockPreservesType, BlockPreservesBeats, BlockPreservesOrder, BlockPreservesOver,
   BlockPreservesHeard DEF PlaybackInv

\* After a silent block nothing is expected and nothing was heard.
LEMMA SilencePreservesInv ==
    ASSUME PlaybackInv, NEW t \in HostTiming, timing' = t, ProcessSilentBlock(t),
           hostPpq' \in 0 .. MaxPpq, hostSample' \in Nat, located' \in BOOLEAN,
           located' => hostSample' = 0 \/ IsElsewhere(hostPpq)',
           UNCHANGED <<meter, subdivisions>>
    PROVE  PlaybackInv'
  <1>1. /\ wasPlaying' = FALSE /\ expectedNextSamplePosition' = 0
        /\ expectedNextPpqPosition' = 0 /\ schedule' = NoSchedule /\ heard' = <<>>
    BY DEF ProcessSilentBlock, reset
  <1>2. meter' \in Meters /\ subdivisions' \in SubdivisionCounts
    BY DEF PlaybackInv, TypeOK
  <1>3. /\ schedule'.overflowed = FALSE /\ schedule'.hostTimingValid = FALSE
        /\ schedule'.transportDiscontinuity = FALSE
    BY <1>1 DEF NoSchedule
  <1>4. heard' \in Seq(HeardBeat) /\ Len(heard') = 0 /\ DOMAIN heard' = {}
    BY <1>1, EmptySeq
  <1>5. TypeOK'
    <2>1. 0 \in 0 .. MaxSamplePosition  BY SchedulerAssumption
    <2> QED  BY <1>1, <1>2, <1>3, <1>4, <2>1 DEF TypeOK
  <1>6. ExpectsTheHost' /\ HeardIsOver' /\ BlockIsHeard'
    BY <1>1, <1>3 DEF ExpectsTheHost, HeardIsOver, BlockIsHeard
  <1>7. NeverTwice' /\ OnTime' /\ NumberedAsHostBars'
    <2>1. 1 .. Len(heard') - 1 = {}  BY <1>4
    <2> QED  BY <1>4, <2>1 DEF NeverTwice, OnTime, NumberedAsHostBars
  <1> QED  BY <1>5, <1>6, <1>7 DEF PlaybackInv

LEMMA LocatePreservesInv == PlaybackInv /\ Locate => PlaybackInv'
  <1> SUFFICES ASSUME PlaybackInv, Locate PROVE PlaybackInv'
    OBVIOUS
  <1>1. /\ hostPpq' \in Locations /\ located' = TRUE
        /\ hostSample' = 0 \/ (hostSample' = hostSample /\ IsElsewhere(hostPpq'))
        /\ UNCHANGED <<wasPlaying, expectedNextSamplePosition, expectedNextPpqPosition,
                       meter, subdivisions, timing, schedule, heard>>
    BY DEF Locate, schedulerVars
  <1>2. hostPpq' \in 0 .. MaxPpq  BY <1>1, HostAssumption
  <1>3. TypeOK'
    <2>1. hostSample' \in Nat  BY <1>1 DEF PlaybackInv, TypeOK
    <2> QED  BY <1>1, <1>2, <2>1 DEF PlaybackInv, TypeOK
  <1>4. ExpectsTheHost'
    <2>1. IsElsewhere(hostPpq)' <=> IsElsewhere(hostPpq')
      BY <1>1 DEF IsElsewhere, EndOfBlock
    <2>2. EndOfBlock(timing)' = EndOfBlock(timing)  BY <1>1 DEF EndOfBlock
    <2> QED  BY <1>1, <2>1, <2>2 DEF PlaybackInv, ExpectsTheHost
  <1>5. HeardIsOver'  BY <1>1 DEF PlaybackInv, HeardIsOver
  <1>6. BlockIsHeard'
    BY <1>1 DEF PlaybackInv, BlockIsHeard, LastSample, PulseLength
  <1>7. NeverTwice' /\ OnTime'  BY <1>1 DEF PlaybackInv, NeverTwice, OnTime
  <1>8. NumberedAsHostBars'
    BY <1>1 DEF PlaybackInv, NumberedAsHostBars, BarLength
  <1> QED  BY <1>3, <1>4, <1>5, <1>6, <1>7, <1>8 DEF PlaybackInv

\* A block of the playing host is scheduled or silent.
LEMMA PlayBlockCases ==
    ASSUME PlaybackInv, PlayBlock
    PROVE  \/ \E t, q, size, d : PlaysBlock(t, q, size, d)
           \/ /\ \E t \in HostTiming : timing' = t /\ ProcessSilentBlock(t)
              /\ hostPpq' \in 0 .. MaxPpq /\ hostSample' \in Nat /\ located' = FALSE
              /\ UNCHANGED <<meter, subdivisions>>
  <1>1. PICK q \in Tempos, size \in BlockSizes, d \in Deviations :
          LET t == Reported(q, size, d)
          IN  /\ t.ppqPosition >= 0 /\ t.samplePosition <= MaxSamplePosition
              /\ hostPpq + size * q <= MaxPpq
              /\ HostAdvances(t)
              /\ ProcessPlayingBlock(t) \/ ProcessSilentBlock(t)
    BY DEF PlayBlock
  <1>2. PICK t : t = Reported(q, size, d)  OBVIOUS
  <1>3. /\ IsReported(t, q, size, d) /\ hostPpq + size * q <= MaxPpq
        /\ HostAdvances(t) /\ (ProcessPlayingBlock(t) \/ ProcessSilentBlock(t))
    BY <1>1, <1>2 DEF IsReported
  <1>4. CASE ProcessPlayingBlock(t)
    <2>1. PlaysBlock(t, q, size, d)  BY <1>3, <1>4 DEF PlaysBlock
    <2> QED  BY <2>1
  <1>5. CASE ProcessSilentBlock(t)
    <2>1. TypeOK /\ hostPpq \in Nat /\ hostSample \in Nat /\ MaxPpq \in Nat
      BY HostAssumption DEF PlaybackInv, TypeOK
    <2>2. t \in HostTiming /\ t.quantaPerSample = q /\ t.blockSize = size
      BY <1>3, <2>1, ReportedTiming
    <2>3. q \in Nat /\ size \in Nat  BY HostAssumption
    <2>4. /\ timing' = t /\ hostPpq' = hostPpq + size * q
          /\ hostSample' = hostSample + size /\ located' = FALSE
          /\ UNCHANGED <<meter, subdivisions>>
      BY <1>3, <2>2 DEF HostAdvances
    <2>5. size * q \in Nat  BY <2>3
    <2>6. hostPpq' \in 0 .. MaxPpq /\ hostSample' \in Nat
      BY <1>3, <2>1, <2>3, <2>4, <2>5
    <2> QED  BY <1>5, <2>2, <2>4, <2>6
  <1> QED  BY <1>3, <1>4, <1>5

LEMMA StepPreservesInv == PlaybackInv /\ [Next]_vars => PlaybackInv'
  <1> SUFFICES ASSUME PlaybackInv, [Next]_vars PROVE PlaybackInv'
    OBVIOUS
  <1>1. CASE PlayBlock
    <2>1. CASE \E t, q, size, d : PlaysBlock(t, q, size, d)
      BY <2>1, BlockPreservesInv
    <2>2. CASE /\ \E t \in HostTiming : timing' = t /\ ProcessSilentBlock(t)
               /\ hostPpq' \in 0 .. MaxPpq /\ hostSample' \in Nat /\ located' = FALSE
               /\ UNCHANGED <<meter, subdivisions>>
      BY <2>2, SilencePreservesInv
    <2> QED  BY <1>1, <2>1, <2>2, PlayBlockCases
  <1>2. CASE StoppedBlock
    <2> DEFINE t == [isPlaying |-> FALSE]
    <2>1. timing' = t /\ t \in HostTiming  BY <1>2 DEF StoppedBlock, HostTiming
    <2>2. ProcessSilentBlock(timing')  BY <1>2 DEF StoppedBlock
    <2>3. ProcessSilentBlock(t)  BY <2>1, <2>2
    <2>4. /\ hostPpq' \in 0 .. MaxPpq /\ hostSample' \in Nat /\ located' \in BOOLEAN
          /\ UNCHANGED <<meter, subdivisions>>
      BY <1>2 DEF StoppedBlock, PlaybackInv, TypeOK
    <2>5. IsElsewhere(hostPpq)'  BY <2>1 DEF IsElsewhere
    <2> HIDE DEF t
    <2> QED  BY <2>1, <2>3, <2>4, <2>5, SilencePreservesInv
  <1>3. CASE Locate  BY <1>3, LocatePreservesInv
  <1>4. CASE UNCHANGED vars
    <2>1. UNCHANGED <<wasPlaying, expectedNextSamplePosition, expectedNextPpqPosition,
                      meter, subdivisions, hostPpq, hostSample, located, timing,
                      schedule, heard>>
      BY <1>4 DEF vars, schedulerVars
    <2>2. TypeOK'  BY <2>1 DEF PlaybackInv, TypeOK
    <2>3. ExpectsTheHost'
      BY <2>1 DEF PlaybackInv, ExpectsTheHost, IsElsewhere, EndOfBlock
    <2>4. HeardIsOver'  BY <2>1 DEF PlaybackInv, HeardIsOver
    <2>5. BlockIsHeard'
      BY <2>1 DEF PlaybackInv, BlockIsHeard, LastSample, PulseLength
    <2>6. NeverTwice' /\ OnTime' /\ NumberedAsHostBars'
      BY <2>1 DEF PlaybackInv, NeverTwice, OnTime, NumberedAsHostBars, BarLength
    <2> QED  BY <2>2, <2>3, <2>4, <2>5, <2>6 DEF PlaybackInv
  <1> QED  BY <1>1, <1>2, <1>3, <1>4 DEF Next

LEMMA InitEstablishesInv == Init => PlaybackInv
  <1> SUFFICES ASSUME Init PROVE PlaybackInv
    OBVIOUS
  <1>1. /\ wasPlaying = FALSE /\ expectedNextSamplePosition = 0
        /\ expectedNextPpqPosition = 0 /\ schedule = NoSchedule /\ heard = <<>>
        /\ meter \in Meters /\ subdivisions \in SubdivisionCounts
        /\ hostPpq \in Locations /\ hostSample = 0 /\ located = FALSE
        /\ timing = [isPlaying |-> FALSE]
    BY DEF Init, SchedulerInit
  <1>2. /\ schedule.overflowed = FALSE /\ schedule.hostTimingValid = FALSE
        /\ schedule.transportDiscontinuity = FALSE
    BY <1>1 DEF NoSchedule
  <1>3. heard \in Seq(HeardBeat) /\ Len(heard) = 0 /\ DOMAIN heard = {}
    BY <1>1, EmptySeq
  <1>4. timing \in HostTiming  BY <1>1 DEF HostTiming
  <1>5. 0 \in 0 .. MaxSamplePosition /\ hostPpq \in 0 .. MaxPpq
    BY <1>1, SchedulerAssumption, HostAssumption
  <1>6. TypeOK  BY <1>1, <1>2, <1>3, <1>4, <1>5 DEF TypeOK
  <1>7. ExpectsTheHost /\ HeardIsOver /\ BlockIsHeard
    BY <1>1, <1>2 DEF ExpectsTheHost, HeardIsOver, BlockIsHeard
  <1>8. NeverTwice /\ OnTime /\ NumberedAsHostBars
    <2>1. 1 .. Len(heard) - 1 = {}  BY <1>3
    <2> QED  BY <1>3, <2>1 DEF NeverTwice, OnTime, NumberedAsHostBars
  <1> QED  BY <1>6, <1>7, <1>8 DEF PlaybackInv

\* The invariant holds in every reachable state: what was heard, what the
\* scheduler expects and where the host stands always agree.
THEOREM PlaybackInvariant == Spec => []PlaybackInv
  <1> QED  BY InitEstablishesInv, StepPreservesInv, PTL DEF Spec

\* Every variable keeps its type; in particular the expected sample position
\* never overflows.
THEOREM PlaybackTypeCorrect == Spec => []TypeOK
  <1>1. PlaybackInv => TypeOK  BY DEF PlaybackInv
  <1> QED  BY <1>1, PlaybackInvariant, PTL

\* No pulse sounds twice or out of order, over any blocks and tempo changes.
THEOREM HeardOnce == Spec => []NeverTwice
  <1>1. PlaybackInv => NeverTwice  BY DEF PlaybackInv
  <1> QED  BY <1>1, PlaybackInvariant, PTL

\* Every pulse sounds at the first sample that is not before it.
THEOREM HeardOnTime == Spec => []OnTime
  <1>1. PlaybackInv => OnTime  BY DEF PlaybackInv
  <1> QED  BY <1>1, PlaybackInvariant, PTL

\* Beat numbers and bar starts are those of the host's bars.
THEOREM HeardAsNumbered == Spec => []NumberedAsHostBars
  <1>1. PlaybackInv => NumberedAsHostBars  BY DEF PlaybackInv
  <1> QED  BY <1>1, PlaybackInvariant, PTL

\* A tempo change or a deviation within the tolerances is no discontinuity.
THEOREM ContinuousPlayback == Spec => NoFalseDiscontinuity
  <1> DEFINE A == PlayBlock /\ schedule.hostTimingValid /\ ~located
                    => ~ schedule'.transportDiscontinuity
  <1>1. PlaybackInv /\ [Next]_vars => [A]_vars
    <2> SUFFICES ASSUME PlaybackInv, PlayBlock, schedule.hostTimingValid, ~located
                 PROVE  ~ schedule'.transportDiscontinuity
      OBVIOUS
    <2>1. CASE \E t \in HostTiming : timing' = t /\ ProcessSilentBlock(t)
      BY <2>1 DEF ProcessSilentBlock, NoSchedule
    <2>2. CASE \E t, q, size, d : PlaysBlock(t, q, size, d)
      <3>1. PICK t, q, size, d : PlaysBlock(t, q, size, d)  BY <2>2
      <3>2. wasPlaying
        BY DEF PlaybackInv, ExpectsTheHost, TypeOK
      <3>3. PICK e \in Deviations : /\ expectedNextPpqPosition = hostPpq + e
                                    /\ expectedNextSamplePosition = hostSample
        BY <3>2 DEF PlaybackInv, ExpectsTheHost
      <3>4. /\ t.ppqPosition = hostPpq + d /\ t.samplePosition = hostSample
            /\ t.quantaPerSample = q /\ hostPpq \in Nat /\ d \in Int
            /\ d \in Deviations /\ q \in Tempos
        BY <3>1, PlaysBlockFacts DEF PlaysBlock, IsReported
      <3>5. e \in Int  BY HostAssumption
      <3>6. t.ppqPosition - expectedNextPpqPosition = d - e
        BY <3>3, <3>4, <3>5
      <3>7. Abs(d - e) <= PositionTolerance \/ 2 * Abs(d - e) <= q
        BY <3>4, DeviationAssumption
      <3>8. IsContinuous(t)
        BY <3>2, <3>3, <3>4, <3>6, <3>7 DEF IsContinuous
      <3>9. schedule' = BeatSchedule(t, subdivisions)
        BY <3>1 DEF PlaysBlock, ProcessPlayingBlock
      <3> QED  BY <3>8, <3>9 DEF BeatSchedule
    <2> QED  BY <2>1, <2>2, PlayBlockCases
  <1> HIDE DEF A
  <1>2. Spec => [][A]_vars  BY <1>1, PlaybackInvariant, PTL DEF Spec
  <1> QED  BY <1>2 DEF NoFalseDiscontinuity, A

\* No pulse is lost but between the last sample of a block and the first of the
\* next.
THEOREM NothingElseLost == Spec => LostOnlyBetweenSamples
  <1> DEFINE Found(p) == \/ /\ p > LastSample(timing) + SampleTolerance
                            /\ p < timing'.ppqPosition - OrdinalTolerance
                         \/ \E b \in Range(heard) \union Range(heard') : b.ppq = p
             A == PlayBlock /\ schedule'.hostTimingValid /\ ~schedule'.transportDiscontinuity
                    => \A p \in timing.ppqPosition .. timing'.ppqPosition :
                          p % PulseLength = 0 => Found(p)
  <1>1. PlaybackInv /\ [Next]_vars => [A]_vars
    <2> SUFFICES ASSUME PlaybackInv, PlayBlock, schedule'.hostTimingValid,
                        ~schedule'.transportDiscontinuity,
                        NEW p \in timing.ppqPosition .. timing'.ppqPosition,
                        p % PulseLength = 0
                 PROVE  Found(p)
      OBVIOUS
    <2>1. CASE \E t \in HostTiming : timing' = t /\ ProcessSilentBlock(t)
      BY <2>1 DEF ProcessSilentBlock, NoSchedule
    <2>2. CASE \E t, q, size, d : PlaysBlock(t, q, size, d)
      <3>1. PICK t, q, size, d : PlaysBlock(t, q, size, d)  BY <2>2
      <3>2. timing' = t /\ schedule' = BeatSchedule(t, subdivisions)
        BY <3>1 DEF PlaysBlock, ProcessPlayingBlock, HostAdvances
      <3>3. wasPlaying
        BY <3>2 DEF BeatSchedule, IsContinuous
      <3>4. timing.isPlaying /\ timing \in HostTiming
        BY <3>3 DEF PlaybackInv, ExpectsTheHost, TypeOK
      <3>5. /\ timing.ppqPosition \in Nat /\ LastSample(timing) \in Int
        <4>1. /\ timing.ppqPosition \in Nat /\ timing.blockSize \in BlockSizes
              /\ timing.quantaPerSample \in Tempos
          BY <3>4 DEF HostTiming
        <4>2. timing.blockSize \in Int /\ timing.quantaPerSample \in Int
          <5>1. BlockSizes \subseteq Int /\ Tempos \subseteq Int  BY HostAssumption
          <5> QED  BY <4>1, <5>1, Zenon
        <4>3. (timing.blockSize - 1) * timing.quantaPerSample \in Int  BY <4>2
        <4> QED  BY <4>1, <4>3 DEF LastSample
      <3>6. /\ t.ppqPosition \in Int /\ LastSample(t) \in Int
            /\ t.ppqPosition <= LastSample(t)
        BY <3>1, PlaysBlockFacts
      <3>7. SampleTolerance \in Nat /\ OrdinalTolerance \in Nat  BY SchedulerAssumption
      <3>8. p \in Int /\ timing.ppqPosition <= p /\ p <= t.ppqPosition
        BY <3>2, <3>5, <3>6
      <3>9. CASE p <= LastSample(timing) + SampleTolerance
        <4>1. p \in timing.ppqPosition .. LastSample(timing) + SampleTolerance
          BY <3>5, <3>7, <3>8, <3>9
        <4>2. \E b \in Range(heard) : b.ppq = p
          BY <3>3, <4>1 DEF PlaybackInv, BlockIsHeard
        <4> QED  BY <4>2
      <3>10. CASE t.ppqPosition - OrdinalTolerance <= p
        <4>1. p <= LastSample(t) + SampleTolerance  BY <3>6, <3>7, <3>8
        <4>2. \E b \in Range(heard') : b.ppq = p
          BY <3>1, <3>8, <3>10, <4>1, BlockPreservesHeard
        <4> QED  BY <4>2
      <3>11. CASE /\ ~(p <= LastSample(timing) + SampleTolerance)
                  /\ ~(t.ppqPosition - OrdinalTolerance <= p)
        BY <3>2, <3>5, <3>6, <3>7, <3>8, <3>11
      <3> QED  BY <3>9, <3>10, <3>11
    <2> QED  BY <2>1, <2>2, PlayBlockCases
  <1> HIDE DEF A
  <1>2. Spec => [][A]_vars  BY <1>1, PlaybackInvariant, PTL DEF Spec
  <1> QED  BY <1>2 DEF LostOnlyBetweenSamples, A
============================================================================
