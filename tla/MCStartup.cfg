\* Paths of up to two names, and up to two endpoints over two addresses that other
\* programs may have.
SPECIFICATION FairSpec
CONSTANTS
    Names <- MCNames
    DefaultName <- MCDefault
    Resolve <- MCResolve
    MaxPath = 2
    Addresses <- MCAddresses
    Parsers <- MCParsers
    NoParser <- MCNoParser
    MaxEndpoints = 2
INVARIANTS TypeOK EndpointsApart PathNormalized
PROPERTY ServesHttpOrExits
