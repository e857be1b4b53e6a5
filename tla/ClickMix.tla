------------------------------- MODULE ClickMix -------------------------------
(***************************************************************************)
(* What SyntheticClickEngine promises, voices aside: the clicks that were  *)
(* struck sound from the sample they were due at until they have decayed.  *)
(* A click may be cut off only when all voices are taken, only by a new    *)
(* click, and only if none that sounds is quieter.                         *)
(***************************************************************************)
EXTENDS ClickSounds, FiniteSets

CONSTANTS VoiceCount, SampleRates

VARIABLES sampleRate, now, sounding

mixVars == <<sampleRate, now, sounding>>

MixInit == sampleRate = 0 /\ now = 0 /\ sounding = {}

LevelAt(click, time) == Level(click.sound, time - click.due, sampleRate)

\* The clicks that have not decayed at a later time.
Remaining(time) == {click \in sounding : LevelAt(click, time) >= 0}

IsQuietest(click, time) ==
    \A other \in Remaining(time) : LevelAt(click, time) <= LevelAt(other, time)

Elapse ==
    /\ now' \in Nat /\ now' >= now
    /\ sounding' = Remaining(now')
    /\ UNCHANGED sampleRate

\* A new click, which takes the voice of another only if all are taken.
Strike ==
    /\ now' \in Nat /\ now' >= now
    /\ \E new \in sounding' :
          /\ new.sound \in Audible /\ new.due = now'
          /\ \A click \in sounding : click.seed # new.seed
          /\ \/ sounding' = Remaining(now') \union {new}
             \/ /\ Cardinality(Remaining(now')) >= VoiceCount
                /\ \E click \in Remaining(now') :
                      /\ IsQuietest(click, now')
                      /\ sounding' = (Remaining(now') \ {click}) \union {new}
    /\ UNCHANGED sampleRate

Silence == sounding' = {} /\ now' = 0 /\ sampleRate' \in SampleRates

MixNext == Elapse \/ Strike \/ Silence

MixSpec == MixInit /\ [][MixNext]_mixVars
=============================================================================
