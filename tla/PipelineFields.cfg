\* A name of white space, and a second 60 at noon.
SPECIFICATION Spec
CONSTANTS
    Bad = Bad
    Absent = Absent
    Empty = Empty
    Families <- DepartingFamilies
    MaxContainers = 3
    MaxNesting = 2
    MaxPropertiesPerObject = 1
    MaxTotalProperties = 1
    MaxArrayElements = 3
    MaxTotalElements = 4
    MaxLength = 2
    MaxInteger = 7
    HostNumerators = {2, 3, 5}
    HostDenominators = {4, 8}
CHECK_DEADLOCK FALSE
INVARIANTS
    ReportsFieldsOfTheFormat
