CONSTANTS
    OctetBits = 2
    V4Octets = 2
    V6Octets = 3
    IndexModulus = 4
    MaxRules = 3
    PrefixSet <- MCPrefixSet
    AddressSet <- MCAddressSet
SPECIFICATION Spec
INVARIANT ListsAreExact
CHECK_DEADLOCK FALSE
