\* Every text of up to fourteen characters, and every stage of a document; a
\* refused text or document ends it.
SPECIFICATION Spec
CONSTANTS
    Bad = Bad
    Absent = Absent
    Empty = Empty
    Families <- MCFamilies
    MaxContainers = 3
    MaxNesting = 2
    MaxPropertiesPerObject = 1
    MaxTotalProperties = 1
    MaxArrayElements = 3
    MaxTotalElements = 4
    MaxLength = 14
    MaxInteger = 7
    HostNumerators = {2, 3, 5}
    HostDenominators = {4, 8}
CHECK_DEADLOCK FALSE
INVARIANTS
    TypeOK
    AcceptsWithinLimits
    RefusesBeyondLimits
    AcceptsTheFormat
    AcceptedConverts
    PulsesFollowTheFormat
