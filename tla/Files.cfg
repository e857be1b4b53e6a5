\* The validator command on files that change while it runs.
SPECIFICATION FairSpec
CONSTANTS
    a = a
    b = b
    c = c
    top = top
    sub = sub
    deep = deep
    Root = Root
    NoDirectory = NoDirectory
    NoFile = NoFile
    Limit = Limit
    Files <- MCFiles
    Directories <- MCDirectories
    Tempoflow <- MCTempoflow
    Parent <- MCParent
    comparisonPath <- MCcomparisonPath
    Calls <- MCCalls
    Nodes <- MCNodes
    MaxDepth = 1
    MaxEntries = 4
    MaxFiles = 2
    MaxTotalBytes = 3
    MaxFileBytes = 2
    BufferSize = 2
    MaxChanges = 1
CHECK_DEADLOCK FALSE
INVARIANTS
    TypeOK
    EveryPresetIsValidated
    NoFalseAlarm
    BytesBounded
PROPERTY
    Terminates
