SPECIFICATION Spec
CONSTANTS
    FILES = 1
    Objects = {d1, d2}
    Handles = {f, g}
    PathPrefixes = {p, q}
    Elements = {1, 2}
    Nothing = Nothing
    MaxElements = 2
    MaxFailures = 1
SYMMETRY Symmetry
CONSTRAINT ReadsUndisturbed
INVARIANTS
    NothingIsLeaked
    PartsAreInStep
PROPERTIES
    ImplementsStore
    ImplementsCursor
CHECK_DEADLOCK FALSE
