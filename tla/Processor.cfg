\* The processor, safety and liveness: two host threads, three operations.  No
\* symmetry, which would not be sound for the liveness properties.
SPECIFICATION ProcessorFairSpec
CONSTANTS
    state = state
    h1 = h1
    h2 = h2
    default = default
    other = other
    invalid = invalid
    StateWords <- MCStateWords
    HostThreads <- MCHostThreads
    NoThread = NoThread
    Documents <- MCDocuments
    ValidDocuments <- MCValidDocuments
    DefaultPreset = default
    Undecodable = Undecodable
    MaxOperations = 3
    MaxGeneration = 4
INVARIANTS
    ProcessorTypeOK
    ProcessorInv
    PersistedIsPublished
    OnlyValidDocumentsActive
    NoStaleTails
PROPERTIES
    PlaysPersisted
    OperationsFinish
