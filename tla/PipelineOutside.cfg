\* What sounds beyond the end of the pattern.
SPECIFICATION Spec
CONSTANTS
    Bad = Bad
    Absent = Absent
    Empty = Empty
    Families <- RoleFamilies
    MaxContainers = 3
    MaxNesting = 2
    MaxPropertiesPerObject = 1
    MaxTotalProperties = 1
    MaxArrayElements = 3
    MaxTotalElements = 4
    MaxLength = 2
    MaxInteger = 7
    HostNumerators = {2, 3, 5}
    HostDenominators = {4, 8}
CHECK_DEADLOCK FALSE
INVARIANTS
    OutsidePatternSilent
