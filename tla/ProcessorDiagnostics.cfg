\* The errors of an invalid file are visible without its path.
SPECIFICATION ProcessorSpec
CONSTANTS
    state = state
    h1 = h1
    h2 = h2
    default = default
    other = other
    invalid = invalid
    StateWords <- MCStateWords
    HostThreads <- MCHostThreads
    NoThread = NoThread
    Documents <- MCDocuments
    ValidDocuments <- MCValidDocuments
    DefaultPreset = default
    Undecodable = Undecodable
    MaxOperations = 1
    MaxGeneration = 2
INVARIANT
    DiagnosticsNamePath
