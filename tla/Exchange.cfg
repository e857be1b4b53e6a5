\* The triple buffer, safety and liveness: two words, six publications.
SPECIFICATION FairSpec
CONSTANTS
    beats = beats
    meter = meter
    StateWords <- MCStateWords
    MaxGeneration = 6
INVARIANTS
    TypeOK
    NoSlotRace
    ConsistentSnapshot
    ExchangeInv
PROPERTIES
    AdoptsFresh
    GivesUpOnlyWhenOvertaken
    ImplementsRegister
    ConvergesToLastPublished
