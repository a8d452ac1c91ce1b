SPECIFICATION MCSpec
CONSTANTS
    g1 = g1
    g2 = g2
    g3 = g3
    yes = yes
    no = no
    u1 = u1
    m1 = m1
    m2 = m2
    wa = wa
    wb = wb
    wc = wc
    wx = wx
    Nil = Nil
    Clients = {g1, g2, g3}
    Burst = 3
    Price = 2
    MaxEntries = 2
    KeepAtLeast = 1
    MaxBack = 1
    Agents = {g1, g2, g3}
    Subjects = {b1}
    Views = {yes, no}
    MaxMade = 2
    MaxRely = 1
    MaxCalls = 4
    Inputs = {u1, u2}
    Outputs = {o1, o2}
    Sensitive = {o2}
    Worth <- OneInCommon
    Events = {v1}
    MaxRaises = 1
    LastKey = 3
    Sources = {yes, no}
    Sizes <- TwoOrOne
    MaxBytes = 2
    Large = {2}
    Attempts = 2
    MaxChanges = 1
    UserKeys = {yes, no}
    SummaryKey = summary
    System = system
    Values = {va}
    Digest = digest
    Slots = 1
    AutoAt = 1
    MinEpisodes = 2
    MaxRows = 3
    MaxFaults = 1
    CommitKinds = {"semantic"}
    Absent = Absent
    NoValue = vacant
SYMMETRY Symmetry
CHECK_DEADLOCK FALSE
INVARIANT TypesOK
INVARIANT StoreIsCovered
PROPERTY SideEffectsAreSafe
PROPERTY PlaneRollbackRestores
INVARIANT WalkIsComplete
INVARIANT BucketsAreFair
PROPERTY SyncKeepsItsWord
 
PROPERTY TurnsAreKept
