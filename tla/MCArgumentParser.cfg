\* Every string of up to four tokens, of which argv has room for three.
SPECIFICATION Spec
CONSTANTS
    Valued <- MCValued
    Flags <- MCFlags
    Others <- MCOthers
    MaxTokens = 4
    MaxArgs = 5
INVARIANTS TypeOK OptionListFits AllCollected
CHECK_DEADLOCK FALSE
