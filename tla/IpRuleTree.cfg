CONSTANTS
    OctetBits = 2
    V4Octets = 2
    V6Octets = 3
    IndexModulus = 4
    MaxRules = 4
    PrefixSet <- MCPrefixSet
    AddressSet <- MCAddressSet
SPECIFICATION Spec
INVARIANTS TypeOK OneLastNodePerRule GroupedListsAreExact
CHECK_DEADLOCK FALSE
