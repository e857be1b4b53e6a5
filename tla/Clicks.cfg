SPECIFICATION Spec
CONSTANTS
    VoiceCount = 2
    SampleRates = {0, 1, 2}
    BlockSizes = {2, 5}
    MaxSeed = 4
    MaxPosition = 14
INVARIANTS EngineInv TailsEnd
PROPERTY ImplementsMix
