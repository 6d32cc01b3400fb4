\* Explicit entity types.
SPECIFICATION HistorySpec
CONSTANTS
    v1 = v1
    v2 = v2
    a1 = a1
    a2 = a2
    NULL = NULL
    Values <- MCValues
    Addresses <- MCAddresses
INVARIANT ExplicitTypeSupersedes
