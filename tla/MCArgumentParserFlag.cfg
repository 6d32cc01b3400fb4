\* A plugin invoked with a flag, as check_nrpe with -n.
SPECIFICATION Spec
CONSTANTS
    Valued <- MCValued
    Flags <- MCFlags
    Others <- MCOthers
    MaxTokens = 2
    MaxArgs = 5
INVARIANT ScanReturns
CHECK_DEADLOCK FALSE
