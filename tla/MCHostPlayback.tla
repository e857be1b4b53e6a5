--------------------------- MODULE MCHostPlayback ---------------------------
(* Instances of HostPlayback for TLC. *)
EXTENDS HostPlayback

\* At 7 quanta a sample most pulses fall between two samples, at 6 none
\* does unless the tempo changes.
TwoFour    == [numerator |-> 2, beatLength |-> 24]
ThreeEight == [numerator |-> 3, beatLength |-> 12]

FractionalBeatLengths == {12, 24}
FractionalMeters      == {TwoFour, ThreeEight}
FractionalTempos      == {6, 7}
FractionalDeviations  == {-1, 0, 1}

\* One tempo at which pulses fall between samples, and an exact position.
ExactTempo     == {7}
ExactDeviation == {0}
============================================================================
