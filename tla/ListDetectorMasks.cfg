CONSTANTS
    OctetBits = 1
    V4Octets = 1
    V6Octets = 2
    IndexModulus = 4
    Fields <- PortHeader
    TypeOf <- PortTypes
    CsvFiles <- PortFiles
    Records <- PortRecords
    SizeOfNumber = 2
    None = None
    MaxRecords = 2
SPECIFICATION Spec
INVARIANT SentAsDocumented
CHECK_DEADLOCK FALSE
