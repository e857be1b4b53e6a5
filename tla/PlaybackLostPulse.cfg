\* The code loses a pulse that falls after the last sample of a block.
SPECIFICATION Spec
CONSTANTS
    BeatLengths <- FractionalBeatLengths
    PositionTolerance = 1
    OrdinalTolerance = 1
    SampleTolerance = 1
    Capacity = 64
    MaxSamplePosition = 100
    MaxSampleOffset = 100
    Tempos <- ExactTempo
    Meters <- FractionalMeters
    BlockSizes = {1, 3}
    Deviations <- ExactDeviation
    Locations = {0, 13}
    MaxPpq = 66
INVARIANT
    EveryPulseOnce
