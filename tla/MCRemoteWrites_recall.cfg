SPECIFICATION Spec
CONSTANTS
    Clients = {c1, c2}
    Values = {va, vb}
    Levels = {1, 3}
    Neutral = 2
    Strategies = {"entrenchment", "recency"}
    MaxClock = 3
    MaxFaults = 1
    MaxLost = 1
    None = None
SYMMETRY Symmetry
CHECK_DEADLOCK FALSE
INVARIANT RecalledVersionsSee
