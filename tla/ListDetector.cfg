CONSTANTS
    OctetBits = 1
    V4Octets = 1
    V6Octets = 2
    IndexModulus = 3
    Fields <- Header
    TypeOf <- Types
    CsvFiles <- MCFiles
    Records <- MCRecords
    SizeOfNumber = 1
    None = None
    MaxRecords = 2
SPECIFICATION Spec
INVARIANTS TypeOK CountsAddUp
PROPERTY ImplementsFilter
CHECK_DEADLOCK FALSE
