---------------------------- MODULE BeatScheduler ----------------------------
(***************************************************************************)
(* BeatScheduler: which pulses of the host's musical time fall into an     *)
(* audio block, at which sample, and whether the block follows the one     *)
(* before it.                                                              *)
(*                                                                         *)
(* Musical time is counted in quanta, a fraction of a quarter note so fine *)
(* that a sample, a beat and a subdivision are each a whole number of      *)
(* them; how many quanta a sample takes is the tempo.  The arithmetic is   *)
(* exact: the code's doubles stay within its tolerances, which are kept,   *)
(* as constants.                                                           *)
(*                                                                         *)
(* A timing is a record: isPlaying, quantaPerSample (the tempo),           *)
(* numerator and beatLength (the meter, 4/denominator in quanta),          *)
(* ppqPosition, lastBarStart (quanta), samplePosition, blockSize (samples).*)
(***************************************************************************)
EXTENDS Integers, FiniteSets, Sequences

CONSTANTS
    BeatLengths,         \* the beat lengths of the supported denominators
    PositionTolerance,   \* positionTolerance of a ppq position, in quanta
    OrdinalTolerance,    \* positionTolerance of an ordinal, in quanta
    SampleTolerance,     \* sampleTolerance, in quanta
    Capacity,            \* ScheduledBeatBuffer::capacity
    MaxSamplePosition,   \* the largest std::int64_t
    MaxSampleOffset      \* the largest int

ASSUME SchedulerAssumption ==
    /\ \A b \in BeatLengths : b \in Nat \ {0} /\ b % 3 = 0
    /\ {PositionTolerance, OrdinalTolerance, SampleTolerance} \subseteq Nat
    /\ {Capacity, MaxSamplePosition, MaxSampleOffset} \subseteq Nat \ {0}

VARIABLES wasPlaying, expectedNextSamplePosition, expectedNextPpqPosition

schedulerVars ==
    <<wasPlaying, expectedNextSamplePosition, expectedNextPpqPosition>>

Abs(x) == IF x < 0 THEN -x ELSE x

SubdivisionCounts == {1, 3}

IsValidTiming(t) ==
    /\ t.isPlaying
    /\ t.quantaPerSample > 0
    /\ t.numerator > 0
    /\ t.beatLength \in BeatLengths
    /\ t.ppqPosition >= 0
    /\ t.lastBarStart >= 0
    /\ t.lastBarStart <= t.ppqPosition + PositionTolerance
    /\ t.samplePosition >= 0
    /\ t.blockSize > 0

\* A plausible bug: the tolerance is left out.
CeilExactly(value, unit, tolerance) == - ((0 - value) \div unit)

\* tryCeilToInt64 and trySampleOffset: value / unit rounded up, except that a
\* value at most tolerance above a whole number is that number.
CeilWithin(value, unit, tolerance) == - ((tolerance - value) \div unit)

\* A plausible bug: the conversion truncates.
FloorWithin(value, unit, tolerance) == (value + tolerance) \div unit

\* The pulse of an ordinal, counted from the last bar start, and the sample of
\* the block at which it falls (before the block when negative).
SubdivisionLength(t, subdivisions) == t.beatLength \div subdivisions

PulsePpq(t, subdivisions, ordinal) ==
    t.lastBarStart + (ordinal \div subdivisions) * t.beatLength
        + (ordinal % subdivisions) * SubdivisionLength(t, subdivisions)

\* A plausible bug: the pulse is moved to the sample before it.
SampleOffsetRoundedDown(t, subdivisions, ordinal) ==
    FloorWithin(PulsePpq(t, subdivisions, ordinal) - t.ppqPosition,
                t.quantaPerSample, SampleTolerance)

SampleOffset(t, subdivisions, ordinal) ==
    CeilWithin(PulsePpq(t, subdivisions, ordinal) - t.ppqPosition,
               t.quantaPerSample, SampleTolerance)

FirstOrdinal(t, subdivisions) ==
    CeilWithin(t.ppqPosition - t.lastBarStart,
               SubdivisionLength(t, subdivisions), OrdinalTolerance)

\* The ordinals that the loop visits before it meets the end of the block, and
\* the one at which it does.  Offsets grow with ordinals.
OrdinalsBeforeEnd(t, subdivisions) ==
    LET first == FirstOrdinal(t, subdivisions)
        bound == first + (t.blockSize * t.quantaPerSample)
                            \div SubdivisionLength(t, subdivisions) + 2
    IN  {k \in first .. bound : SampleOffset(t, subdivisions, k) < t.blockSize}

EndOrdinal(t, subdivisions) ==
    FirstOrdinal(t, subdivisions) + Cardinality(OrdinalsBeforeEnd(t, subdivisions))

\* A plausible bug: the beat number runs on past the end of the bar.
ScheduledBeatUnwrapped(t, subdivisions, ordinal) ==
    [ppq |-> PulsePpq(t, subdivisions, ordinal),
     sampleOffset |-> SampleOffset(t, subdivisions, ordinal),
     beatNumber |-> ordinal \div subdivisions + 1,
     isBarStart |-> ordinal = 0,
     subdivisionIndex |-> ordinal % subdivisions]

\* ppq is history: the code forgets the position of a pulse it has scheduled.
ScheduledBeat(t, subdivisions, ordinal) ==
    LET beatIndex == (ordinal \div subdivisions) % t.numerator
    IN  [ppq |-> PulsePpq(t, subdivisions, ordinal),
         sampleOffset |-> SampleOffset(t, subdivisions, ordinal),
         beatNumber |-> beatIndex + 1,
         isBarStart |-> ordinal % subdivisions = 0 /\ beatIndex = 0,
         subdivisionIndex |-> ordinal % subdivisions]

NoSchedule == [beats |-> <<>>, overflowed |-> FALSE,
               transportDiscontinuity |-> FALSE, hostTimingValid |-> FALSE]

\* A plausible bug: the sample position alone tells of a jump.
IsContinuousBySamples(t) ==
    wasPlaying /\ t.samplePosition = expectedNextSamplePosition

\* A plausible bug: half a sample of drift is not tolerated.
IsContinuousExactly(t) ==
    /\ wasPlaying
    /\ t.samplePosition = expectedNextSamplePosition
    /\ t.ppqPosition = expectedNextPpqPosition

IsContinuous(t) ==
    /\ wasPlaying
    /\ t.samplePosition = expectedNextSamplePosition
    /\ LET drift == Abs(t.ppqPosition - expectedNextPpqPosition)
       IN  drift <= PositionTolerance \/ 2 * drift <= t.quantaPerSample

\* What schedule() returns for a timing it accepts.
BeatSchedule(t, subdivisions) ==
    LET inBlock == {k \in OrdinalsBeforeEnd(t, subdivisions) :
                        SampleOffset(t, subdivisions, k) >= 0}
        count   == Cardinality(inBlock)
        firstIn == EndOrdinal(t, subdivisions) - count
    IN  [beats |-> [i \in 1 .. (IF count <= Capacity THEN count ELSE Capacity) |->
                      ScheduledBeat(t, subdivisions, firstIn + i - 1)],
         overflowed |-> \/ count > Capacity
                        \/ SampleOffset(t, subdivisions, EndOrdinal(t, subdivisions))
                               > MaxSampleOffset,
         transportDiscontinuity |-> ~ IsContinuous(t),
         hostTimingValid |-> TRUE]

----------------------------------------------------------------------------
SchedulerInit ==
    /\ wasPlaying = FALSE
    /\ expectedNextSamplePosition = 0
    /\ expectedNextPpqPosition = 0

reset ==
    /\ wasPlaying' = FALSE
    /\ expectedNextSamplePosition' = 0
    /\ expectedNextPpqPosition' = 0

\* A plausible bug: the end of the block is not checked for overflow.
IsSchedulableUnguarded(t, subdivisions) ==
    IsValidTiming(t) /\ subdivisions \in SubdivisionCounts

\* schedule() accepts the timing ...
IsSchedulable(t, subdivisions) ==
    /\ IsValidTiming(t)
    /\ subdivisions \in SubdivisionCounts
    /\ t.samplePosition <= MaxSamplePosition - t.blockSize

\* ... and expects the next block where this one ends.
Advance(t) ==
    /\ wasPlaying' = TRUE
    /\ expectedNextSamplePosition' = t.samplePosition + t.blockSize
    /\ expectedNextPpqPosition' = t.ppqPosition + t.blockSize * t.quantaPerSample
============================================================================
