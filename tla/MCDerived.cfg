SPECIFICATION MCSpec
CONSTANTS
    Procs = {p1, p2}
    Keys = {k1, k2}
    e1 = e1
    e2 = e2
    c1 = c1
    t1 = t1
    t2 = t2
    Entities = {e1, e2}
    Claims = {c1}
    Rows <- MCRows
    Serialized = TRUE
    MaxFaults = 1
    MaxWrites = 2
    MaxRows = 2
    Memories = {1, 2, 3}
    Names = {1, 4, 5, 6}
    Sayings <- ThreeSayings
    Fold <- TwoSpellings
    PerEntity = 1
    PerEntry = 1
    MaxStale = 2
    MaxUnheard = 1
    Texts = {t1, t2}
    Batch = 1
    MaxStamp = 3
    OlderFills = FALSE
    Threads = {e1, e2}
    Spaces = {c1}
    Covers <- OneNameless
    CoversPending = {e1}
    Compressed = TRUE
    MaxPuts = 2
    MaxTime = 2
    MaxPending = 1
    Absent = Absent
    None = None
SYMMETRY Symmetry
INVARIANT TypesOK
INVARIANT MemoriesAreFound
INVARIANT PurgeKeepsItsWord
PROPERTY IndexIsRight
