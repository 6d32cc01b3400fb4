\* A probe whose name every object literal has as an inherited property.
SPECIFICATION Spec
CONSTANTS
    Names <- MCNames
    Inherited <- MCInherited
    Dirs = 1
INVARIANT UnknownIsRefused
