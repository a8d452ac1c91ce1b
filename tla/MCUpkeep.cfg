SPECIFICATION MCSpec
CONSTANTS
    Writers = {w1, w2}
    MemKeys = {m1}
    MaxEvents = 3
    MaxClock = 1
    MaxLost = 1
    NoOne = NoOne
    Nothing = Nothing
    EntryKeys = {x1, x2}
    Words = {good, bad}
    Unembeddable = {bad}
    PerPass = 1
    MaxDelay = 1
    MaxStamp = 2
    MaxTrouble = 1
    LastRow = 2
    Contents = {good, bad, blank}
    Blank = blank
    Rejects = {bad}
    PassSize = 2
    MaxInARow = 1
    LongestWait = 2
    MaxEdits = 2
    MaxOutages = 1
    Jobs <- TwoJobs
    Interval <- Intervals
    MaxSetBack = 1
    MaxRaises = 1
CHECK_DEADLOCK FALSE
INVARIANT TypesOK
INVARIANT LedgerIsWhole
INVARIANT VectorsAreRight
PROPERTY IsAppendOnly
PROPERTY UpkeepGoesOn
