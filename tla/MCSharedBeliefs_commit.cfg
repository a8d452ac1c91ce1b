SPECIFICATION Spec
CONSTANTS
    Procs = {p1, p2}
    Keys = {k1}
    Values = {v1, v2}
    Levels = {3, 4}
    Neutral = 3
    Strategies = {"entrenchment"}
    Background = {}
    MaxWrites = 3
    MaxFaults = 0
    Absent = Absent
SYMMETRY Symmetry
PROPERTY CommitNoticesConflict
