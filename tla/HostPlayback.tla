----------------------------- MODULE HostPlayback -----------------------------
(***************************************************************************)
(* The host's transport and the blocks in which it asks for audio, and how *)
(* processBlock uses the BeatScheduler on them: a block that cannot be     *)
(* scheduled resets the scheduler and is silent.                           *)
(*                                                                         *)
(* The host plays block after block; it may change the tempo between two   *)
(* blocks, stop, and locate to another position.  The position it reports  *)
(* deviates a little from the one that the blocks add up to.               *)
(***************************************************************************)
EXTENDS BeatScheduler, SequencesExt

CONSTANTS
    Tempos,          \* quanta per sample
    Meters,          \* records of numerator and beatLength
    BlockSizes,      \* in samples
    Deviations,      \* of the reported ppq position, in quanta
    Locations,       \* where the host may locate to, in quanta
    MaxPpq           \* bound: the end of the song, in quanta

ASSUME HostAssumption ==
    /\ Tempos \subseteq Nat \ {0}
    /\ BlockSizes \subseteq Nat \ {0}
    /\ Deviations \subseteq Int
    /\ MaxPpq \in Nat /\ Locations \subseteq 0 .. MaxPpq
    /\ \A m \in Meters : m.numerator \in Nat \ {0} /\ m.beatLength \in BeatLengths

\* What the tolerances of the scheduler are made for: the reported position
\* deviates by much less than a sample, and a tolerance is less than a pulse.
ASSUME DeviationAssumption ==
    /\ \A q \in Tempos, d, e \in Deviations :
          /\ Abs(d - e) + OrdinalTolerance + SampleTolerance < q
          /\ Abs(d - e) <= PositionTolerance \/ 2 * Abs(d - e) <= q
    /\ \A b \in BeatLengths : OrdinalTolerance < b \div 3

VARIABLES
    meter, subdivisions,     \* of the host, of the preset
    hostPpq, hostSample,     \* where the next block begins
    located,                 \* the host has located since the last block
    timing,                  \* what the host reported for the last block
    schedule,                \* what schedule() returned for it
    heard                    \* history: the beats of the last block, after the
                             \* beat before them in this uninterrupted run

vars == <<schedulerVars, meter, subdivisions, hostPpq, hostSample, located,
          timing, schedule, heard>>

BarLength == meter.numerator * meter.beatLength

Init ==
    /\ SchedulerInit
    /\ meter \in Meters
    /\ subdivisions \in SubdivisionCounts
    /\ hostPpq \in Locations
    /\ hostSample = 0
    /\ located = FALSE
    /\ timing = [isPlaying |-> FALSE]
    /\ schedule = NoSchedule
    /\ heard = <<>>

\* What the host reports: the start of the bar is that of the reported position.
Reported(quantaPerSample, blockSize, deviation) ==
    LET ppq == hostPpq + deviation
    IN  [isPlaying |-> TRUE,
         quantaPerSample |-> quantaPerSample,
         numerator |-> meter.numerator,
         beatLength |-> meter.beatLength,
         ppqPosition |-> ppq,
         lastBarStart |-> (ppq \div BarLength) * BarLength,
         samplePosition |-> hostSample,
         blockSize |-> blockSize]

\* A beat as it is heard: at which sample, and how late, in quanta.
Heard(t, beat) ==
    [ppq |-> beat.ppq,
     sample |-> t.samplePosition + beat.sampleOffset,
     late |-> t.ppqPosition + beat.sampleOffset * t.quantaPerSample - beat.ppq,
     quantaPerSample |-> t.quantaPerSample,
     beatNumber |-> beat.beatNumber,
     isBarStart |-> beat.isBarStart]

LastHeard == IF heard = <<>> THEN <<>> ELSE <<Last(heard)>>

\* The host's clock moves on by the block.
HostAdvances(t) ==
    /\ timing' = t
    /\ hostPpq' = hostPpq + t.blockSize * t.quantaPerSample
    /\ hostSample' = hostSample + t.blockSize
    /\ located' = FALSE
    /\ UNCHANGED <<meter, subdivisions>>

ProcessPlayingBlock(t) ==
    LET result == BeatSchedule(t, subdivisions)
    IN  /\ IsSchedulable(t, subdivisions)
        /\ ~ result.overflowed
        /\ Advance(t)
        /\ schedule' = result
        /\ heard' = (IF result.transportDiscontinuity THEN <<>> ELSE LastHeard)
                       \o [i \in DOMAIN result.beats |-> Heard(t, result.beats[i])]

\* processBlock resets the scheduler: nothing is heard, and the next block
\* begins anew.
ProcessSilentBlock(t) ==
    /\ IsSchedulable(t, subdivisions) => BeatSchedule(t, subdivisions).overflowed
    /\ reset
    /\ schedule' = NoSchedule
    /\ heard' = <<>>

\* The song ends at MaxPpq, and the sample position is one of the code's integers.
PlayBlock ==
    \E quantaPerSample \in Tempos, blockSize \in BlockSizes, deviation \in Deviations :
        LET t == Reported(quantaPerSample, blockSize, deviation)
        IN  /\ t.ppqPosition >= 0 /\ t.samplePosition <= MaxSamplePosition
            /\ hostPpq + blockSize * quantaPerSample <= MaxPpq
            /\ HostAdvances(t)
            /\ ProcessPlayingBlock(t) \/ ProcessSilentBlock(t)

\* The host calls processBlock while it stands still.
StoppedBlock ==
    /\ timing' = [isPlaying |-> FALSE]
    /\ ProcessSilentBlock(timing')
    /\ UNCHANGED <<meter, subdivisions, hostPpq, hostSample, located>>

\* Where the last block ended, as the host had reported it, and a position that
\* is farther from it than a host deviates when it plays on.
EndOfBlock(t) == t.ppqPosition + t.blockSize * t.quantaPerSample

IsElsewhere(ppq) ==
    timing.isPlaying =>
        \A q \in Tempos, d \in Deviations :
            LET distance == Abs(ppq + d - EndOfBlock(timing))
            IN  distance > PositionTolerance /\ 2 * distance > q

\* The host locates (a loop, a click on the ruler) without a stop between.  Its
\* sample position is that of the song, and begins anew, or it is a clock that
\* runs on, and only the ppq position tells of the jump.
Locate ==
    /\ hostPpq' \in Locations
    /\ \/ hostSample' = 0
       \/ hostSample' = hostSample /\ IsElsewhere(hostPpq')
    /\ located' = TRUE
    /\ UNCHANGED <<schedulerVars, meter, subdivisions, timing, schedule, heard>>

Next == PlayBlock \/ StoppedBlock \/ Locate

Spec == Init /\ [][Next]_vars
----------------------------------------------------------------------------
(* Properties *)

HeardBeat == [ppq : Nat, sample : Nat, late : Int, quantaPerSample : Tempos,
              beatNumber : Nat \ {0}, isBarStart : BOOLEAN]

HostTiming ==
    [isPlaying : {FALSE}] \union
    [isPlaying : {TRUE}, quantaPerSample : Tempos, numerator : Nat \ {0},
     beatLength : BeatLengths, ppqPosition : Nat, lastBarStart : Nat,
     samplePosition : Nat, blockSize : BlockSizes]

TypeOK ==
    /\ wasPlaying \in BOOLEAN
    /\ expectedNextSamplePosition \in 0 .. MaxSamplePosition
    /\ expectedNextPpqPosition \in Nat
    /\ meter \in Meters
    /\ subdivisions \in SubdivisionCounts
    /\ hostPpq \in 0 .. MaxPpq /\ hostSample \in Nat /\ located \in BOOLEAN
    /\ timing \in HostTiming
    /\ {schedule.overflowed, schedule.hostTimingValid,
        schedule.transportDiscontinuity} \subseteq BOOLEAN
    /\ heard \in Seq(HeardBeat)

PulseLength == meter.beatLength \div subdivisions

\* While the host plays on, no pulse sounds twice and none sounds out of
\* order, whatever the block sizes, the tempo changes and the deviation of the
\* reported position.
NeverTwice ==
    \A i \in 1 .. Len(heard) - 1 :
        /\ heard[i].ppq < heard[i + 1].ppq
        /\ heard[i].sample <= heard[i + 1].sample

\* A pulse sounds at the first sample that is not before it: never early, and
\* less than a sample late, in every block of the run.
OnTime ==
    \A i \in DOMAIN heard :
        heard[i].late + SampleTolerance \in 0 .. heard[i].quantaPerSample - 1

\* The beat number and the bar start of every beat agree with the host's bars,
\* also where a block runs over the end of a bar.
NumberedAsHostBars ==
    \A i \in DOMAIN heard :
        /\ heard[i].beatNumber =
               (heard[i].ppq % BarLength) \div meter.beatLength + 1
        /\ heard[i].isBarStart <=> heard[i].ppq % BarLength = 0

\* The scheduler expects the block that the host plays next, unless the host
\* has located; the first sample of a song is never expected, nor is a position
\* elsewhere.
ExpectsTheHost ==
    /\ wasPlaying = schedule.hostTimingValid
    /\ wasPlaying => /\ timing.isPlaying /\ expectedNextSamplePosition > 0
                     /\ expectedNextPpqPosition = EndOfBlock(timing)
    /\ located => hostSample = 0 \/ IsElsewhere(hostPpq)
    /\ wasPlaying /\ ~located =>
          /\ expectedNextSamplePosition = hostSample
          /\ \E d \in Deviations : expectedNextPpqPosition = hostPpq + d

\* What was heard lies before every position that the host may report next, by
\* more than a pulse may come early.
HeardIsOver ==
    /\ heard # <<>> => wasPlaying
    /\ heard # <<>> /\ ~located =>
          /\ Last(heard).sample < hostSample
          /\ \A d \in Deviations : Last(heard).ppq + OrdinalTolerance < hostPpq + d

LastSample(t) == t.ppqPosition + (t.blockSize - 1) * t.quantaPerSample

\* Every pulse up to the last sample of the block was heard.
BlockIsHeard ==
    wasPlaying =>
        \A p \in timing.ppqPosition .. LastSample(timing) + SampleTolerance :
            p % PulseLength = 0 => \E b \in Range(heard) : b.ppq = p

\* The inductive invariant from which the properties of playback follow.
PlaybackInv ==
    /\ TypeOK /\ ExpectsTheHost /\ HeardIsOver /\ BlockIsHeard
    /\ NeverTwice /\ OnTime /\ NumberedAsHostBars

\* The blocks of an uninterrupted playback are continuous: the small deviation
\* of the reported position and changes of tempo cut off no click.
NoFalseDiscontinuity ==
    [][PlayBlock /\ schedule.hostTimingValid /\ ~located
            => ~ schedule'.transportDiscontinuity]_vars

\* From block to block, the only pulses that are lost are those that fall
\* between the last sample of a block and the first of the next, by more than
\* the tolerances: one that falls on a sample is never lost, although the
\* reported position deviates.
LostOnlyBetweenSamples ==
    [][PlayBlock /\ schedule'.hostTimingValid /\ ~schedule'.transportDiscontinuity
         => \A p \in timing.ppqPosition .. timing'.ppqPosition :
                p % PulseLength = 0 =>
                    \/ /\ p > LastSample(timing) + SampleTolerance
                       /\ p < timing'.ppqPosition - OrdinalTolerance
                    \/ \E b \in Range(heard) \union Range(heard') : b.ppq = p]_vars

\* Every pulse of an uninterrupted playback sounds, once.
EveryPulseOnce ==
    \A i \in 1 .. Len(heard) - 1 : heard[i + 1].ppq = heard[i].ppq + PulseLength
============================================================================
