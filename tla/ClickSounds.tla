----------------------------- MODULE ClickSounds -----------------------------
(***************************************************************************)
(* How loud the clicks of SyntheticClickEngine are, and for how long.      *)
(*                                                                         *)
(* Every sample multiplies the amplitude of a click by the same factor,    *)
(* which takes 60 dB in decaySeconds.  On a logarithmic scale the fall is  *)
(* linear: amplitudes are counted in 1/210 dB above silenceThreshold,      *)
(* times, in parametersFor, in milliseconds, and sample rates in 100 Hz.   *)
(* The rounding of the floats that hold them is left out.                  *)
(***************************************************************************)
EXTENDS Integers

\* 0.22 above 1e-5.  The triplet subdivision is no ClickType:
\* triggerTripletSubdivision() gives its parameters.
tripletParameters == [amplitude |-> 18238, decay |-> 8]

\* 0.80, 0.55, 0.50, 0.60 and 0.65 above 1e-5.
parametersFor ==
    [accent  |-> [amplitude |-> 20593, decay |-> 30],
     normal  |-> [amplitude |-> 19909, decay |-> 25],
     high    |-> [amplitude |-> 19736, decay |-> 18],
     low     |-> [amplitude |-> 20068, decay |-> 35],
     wood    |-> [amplitude |-> 20214, decay |-> 12],
     triplet |-> tripletParameters,
     mute    |-> [amplitude |->     0, decay |->  0]]

Sounds  == DOMAIN parametersFor
Audible == {s \in Sounds : parametersFor[s].amplitude > 0}

\* The level of a sound, scaled by the sample rate, after so many samples:
\* 60 dB are lost in a decay.
Level(sound, samples, rate) ==
    parametersFor[sound].amplitude * rate
        - samples * (126000 \div parametersFor[sound].decay)

\* maximumTailSeconds, in samples.
TailSamples(rate) == 10 * rate
=============================================================================
