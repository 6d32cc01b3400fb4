\* One probe, two directories, any change of the files at any time.
SPECIFICATION Spec
CONSTANTS
    Names <- MCProbes
    Inherited <- MCNone
    Dirs = 2
INVARIANT TypeOK
PROPERTIES RefusalIsCurrent FirstDirectoryWins ParserIsStable InvalidIsReported
