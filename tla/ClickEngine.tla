----------------------------- MODULE ClickEngine -----------------------------
(***************************************************************************)
(* SyntheticClickEngine and the loop of processBlock that plays it: the    *)
(* audio callback renders up to each pulse, triggers its click, and        *)
(* renders the rest of the block.  Everything here belongs to the audio    *)
(* callback; prepareToPlay and releaseResources do not run beside it.      *)
(*                                                                         *)
(* A voice is the click that it plays and the number of samples rendered   *)
(* of it, of which the amplitude is a function (ClickSounds).  Waveforms,  *)
(* frequencies and the mixed output are left out, and so is what an        *)
(* inactive voice holds, which nothing reads.  The seeds of the noise are  *)
(* numbered in the order in which nextNoise produces them: it repeats none *)
(* in 2^32 - 1 clicks.                                                     *)
(***************************************************************************)
EXTENDS ClickSounds, FiniteSets

CONSTANTS
    VoiceCount,
    SampleRates,    \* in 100 Hz; 0 stands for a rate prepare() refuses
    BlockSizes,     \* the numbers of samples of a block
    MaxSeed,        \* bound: how many clicks are triggered without a reset
    MaxPosition     \* bound: how many samples are rendered without a reset

ASSUME VoiceCountAssumption == VoiceCount \in Nat \ {0}
ASSUME SampleRatesAssumption == SampleRates \subseteq Nat /\ 0 \in SampleRates
ASSUME BlockSizesAssumption == BlockSizes \subseteq Nat \ {0}
ASSUME EngineBoundsAssumption == MaxSeed \in Nat /\ MaxPosition \in Nat

VARIABLES
    voices, currentSampleRate, nextNoiseSeed,   \* of the engine
    numSamples,        \* of processBlock: the samples of the block, 0 between two
    renderedSamples,   \* of processBlock
    blockStart         \* history: the samples rendered before, since the last reset

vars == <<voices, currentSampleRate, nextNoiseSeed, numSamples, renderedSamples,
          blockStart>>

Voices == 1 .. VoiceCount
Free   == [sound |-> "mute", rendered |-> 0, seed |-> 0]

Clicks == [sound : Audible, rendered : Nat, seed : Nat \ {0}]

IsActive(i) == voices[i] # Free

LevelOf(v) == Level(v.sound, v.rendered, currentSampleRate)

Init ==
    /\ voices = [i \in Voices |-> Free]
    /\ currentSampleRate = 0
    /\ nextNoiseSeed = 1
    /\ numSamples = 0 /\ renderedSamples = 0 /\ blockStart = 0

----------------------------------------------------------------------------
(* SyntheticClickEngine *)

\* A plausible bug: what sounds goes on.
resetSeed ==
    /\ nextNoiseSeed' = 1
    /\ blockStart' = 0
    /\ UNCHANGED voices

reset ==
    /\ voices' = [i \in Voices |-> Free]
    /\ nextNoiseSeed' = 1
    /\ blockStart' = 0

\* A plausible bug: a click that has become inaudible keeps its voice.
RenderedForever(samples) ==
    [i \in Voices |->
        IF ~IsActive(i) THEN Free ELSE [voices[i] EXCEPT !.rendered = @ + samples]]

\* The voices after some more samples.  One that has decayed becomes free.
Rendered(samples) ==
    [i \in Voices |->
        IF /\ IsActive(i)
           /\ Level(voices[i].sound, voices[i].rendered + samples, currentSampleRate) >= 0
        THEN [voices[i] EXCEPT !.rendered = @ + samples]
        ELSE Free]

FreeVoices(playing) == {i \in Voices : playing[i] = Free}

QuietestOf(playing) ==
    {i \in Voices : \A j \in Voices : LevelOf(playing[i]) <= LevelOf(playing[j])}

IsFirstOf(i, indices) == i \in indices /\ \A j \in indices : i <= j

\* i is the first free voice, or else the first of the quietest.
voiceForTrigger(i, playing) ==
    IF FreeVoices(playing) # {} THEN IsFirstOf(i, FreeVoices(playing))
    ELSE IsFirstOf(i, QuietestOf(playing))

Triggers(sound) == currentSampleRate > 0 /\ sound \in Audible

\* trigger() and triggerTripletSubdivision(), on the voices just rendered.
trigger(sound, playing) ==
    IF Triggers(sound)
    THEN /\ \E i \in Voices :
               /\ voiceForTrigger(i, playing)
               /\ voices' = [playing EXCEPT ![i] =
                     [sound |-> sound, rendered |-> 0, seed |-> nextNoiseSeed]]
         /\ nextNoiseSeed' = nextNoiseSeed + 1
    ELSE voices' = playing /\ UNCHANGED nextNoiseSeed

----------------------------------------------------------------------------
(* The audio callback *)

\* A block with usable timing, which is only so at a valid sample rate, and a
\* transport that goes on as expected or not, as after the adoption of a preset.
BeginBlock(samples, transportDiscontinuity) ==
    /\ numSamples = 0 /\ currentSampleRate > 0
    /\ numSamples' = samples /\ renderedSamples' = 0
    /\ IF transportDiscontinuity THEN reset
       ELSE /\ blockStart + samples <= MaxPosition
            /\ UNCHANGED <<voices, nextNoiseSeed, blockStart>>
    /\ UNCHANGED currentSampleRate

\* The pulses of the block come in order, several at one sample perhaps.
PulseDue(sampleOffset) ==
    /\ numSamples > 0 /\ sampleOffset \in renderedSamples .. numSamples - 1
    /\ nextNoiseSeed <= MaxSeed

\* A plausible bug: the samples up to the pulse are counted from the block.
PlayPulseFromStart(sampleOffset, sound) ==
    /\ PulseDue(sampleOffset)
    /\ trigger(sound, Rendered(sampleOffset))
    /\ renderedSamples' = sampleOffset
    /\ UNCHANGED <<currentSampleRate, numSamples, blockStart>>

\* An iteration of the loop over the scheduled beats.
PlayPulse(sampleOffset, sound) ==
    /\ PulseDue(sampleOffset)
    /\ trigger(sound, Rendered(sampleOffset - renderedSamples))
    /\ renderedSamples' = sampleOffset
    /\ UNCHANGED <<currentSampleRate, numSamples, blockStart>>

FinishBlock ==
    /\ numSamples > 0
    /\ voices' = Rendered(numSamples - renderedSamples)
    /\ blockStart' = blockStart + numSamples
    /\ numSamples' = 0 /\ renderedSamples' = 0
    /\ UNCHANGED <<currentSampleRate, nextNoiseSeed>>

\* A block without usable timing; releaseResources.
Silence ==
    /\ numSamples = 0
    /\ reset
    /\ UNCHANGED <<currentSampleRate, numSamples, renderedSamples>>

\* prepareToPlay, with a sample rate of the host.
prepare(sampleRate) ==
    /\ numSamples = 0
    /\ reset
    /\ currentSampleRate' = sampleRate
    /\ UNCHANGED <<numSamples, renderedSamples>>

Next ==
    \/ \E samples \in BlockSizes, discontinuity \in BOOLEAN :
          BeginBlock(samples, discontinuity)
    \/ \E sound \in Sounds : \E sampleOffset \in 0 .. numSamples - 1 :
          PlayPulse(sampleOffset, sound)
    \/ FinishBlock
    \/ Silence
    \/ \E sampleRate \in SampleRates : prepare(sampleRate)

Spec == Init /\ [][Next]_vars

----------------------------------------------------------------------------
(* Properties *)

position == blockStart + renderedSamples

ClickOf(v, time) == [seed |-> v.seed, sound |-> v.sound, due |-> time - v.rendered]

SoundingOf(playing, time) ==
    {ClickOf(playing[i], time) : i \in {j \in Voices : playing[j] # Free}}

Sounding == SoundingOf(voices, position)

\* Voices play audible clicks or nothing; the loop stays in its block.
TypeOK ==
    /\ voices \in [Voices -> Clicks \union {Free}]
    /\ currentSampleRate \in SampleRates
    /\ nextNoiseSeed \in Nat \ {0}
    /\ numSamples \in BlockSizes \union {0}
    /\ renderedSamples \in 0 .. numSamples
    /\ blockStart \in Nat

\* A click ends within the time the plug-in announces to the host
\* (getTailLengthSeconds), whatever blocks it is rendered in.
TailsEnd ==
    \A i \in Voices : IsActive(i) => voices[i].rendered < TailSamples(currentSampleRate)

\* No click sounds in two voices; each began after the last reset.
VoicesApart ==
    /\ \A i, j \in Voices : IsActive(i) /\ voices[i].seed = voices[j].seed => i = j
    /\ \A i \in Voices : IsActive(i) => /\ voices[i].seed < nextNoiseSeed
                                        /\ voices[i].rendered <= position
                                        /\ LevelOf(voices[i]) >= 0
    /\ numSamples > 0 \/ (\E i \in Voices : IsActive(i)) => currentSampleRate > 0

\* The inductive invariant.
EngineInv == TypeOK /\ VoicesApart

\* The engine plays what ClickMix promises: the click of every pulse from the
\* sample of the pulse on, wherever blocks begin, until it has decayed, unless
\* it is the quietest when a new click finds all voices taken.
Mix == INSTANCE ClickMix WITH
          sampleRate <- currentSampleRate, now <- position, sounding <- Sounding
ImplementsMix == Mix!MixSpec

=============================================================================
