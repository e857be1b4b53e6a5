\* Playback with fractional pulses, tempo changes and a deviating position.
SPECIFICATION Spec
CONSTANTS
    BeatLengths <- FractionalBeatLengths
    PositionTolerance = 1
    OrdinalTolerance = 1
    SampleTolerance = 1
    Capacity = 3
    MaxSamplePosition = 7
    MaxSampleOffset = 5
    Tempos <- FractionalTempos
    Meters <- FractionalMeters
    BlockSizes = {1, 3}
    Deviations <- FractionalDeviations
    Locations = {0, 13}
    MaxPpq = 66
INVARIANTS
    PlaybackInv
    NeverTwice
    OnTime
    NumberedAsHostBars
PROPERTIES
    NoFalseDiscontinuity
    LostOnlyBetweenSamples
