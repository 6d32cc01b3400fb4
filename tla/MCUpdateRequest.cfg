\* Every body of up to four lines, and names of up to two characters.
SPECIFICATION Spec
CONSTANTS
    MaxLines = 4
    Names <- MCNames
    BrokerPaths <- MCBrokerPaths
INVARIANTS TypeOK GrammarDecided NoLineLost EntityKept NeighbourSpared
CHECK_DEADLOCK FALSE
