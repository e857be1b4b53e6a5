\* The generator on a file system that ignores case, run three times; a last run ends it.
SPECIFICATION Spec
CONSTANTS
    rock = rock
    rock2 = rock2
    Rock = Rock
    jazz = jazz
    Sources <- MCSources
    Names <- MCNames
    Files <- MCFiles
    NameOf <- MCNameOf
    FileOf <- MCFileOf
    Garbled = Garbled
    Absent = Absent
    MaxRuns = 3
CHECK_DEADLOCK FALSE
INVARIANTS
    TypeOK
    VerifiedBeforeWritten
    OnlyVerifiedPresets
    SuccessIsComplete
    ComponentsTerminated
