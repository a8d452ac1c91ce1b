SPECIFICATION Spec
CONSTANTS
    Keys = {k1, k2}
    SnapIds = {s1}
    Others = TRUE
    MaxWrites = 2
    MaxRoot = 5
    MaxFaults = 1
    None = None
SYMMETRY Symmetry
INVARIANT TypeOK
INVARIANT PurgeKeepsItsWord
INVARIANT RowsAreLogged
PROPERTY RollbackKeepsItsWord
