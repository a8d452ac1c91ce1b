SPECIFICATION MCSpec
CONSTANTS
    p1 = p1
    Procs = {p1, p2}
    Keys = {k1}
    Values = {v1, v2}
    Levels = {1, 2, 4}
    Neutral = 3
    Strategies = {"entrenchment", "recency", "importance"}
    Background = {"decay", "prune", "consolidate"}
    MaxWrites = 5
    SharedWrites = 2
    Offers <- RunOffers
    Middle = 2
    LogSize = 2
    MaxOps = 3
    RemoteLevels = {1, 3}
    RemoteStrategies = {"entrenchment"}
    MaxClock = 3
    MaxLost = 1
    MaxFaults = 1
    Absent = Absent
SYMMETRY Symmetry
INVARIANT TypesOK
INVARIANT BeliefsHeal
INVARIANT AloneIsSequential
INVARIANT EngineRemembers
INVARIANT WritersSeeWhatTheyReplace
