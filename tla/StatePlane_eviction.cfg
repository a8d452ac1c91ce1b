SPECIFICATION Spec
CONSTANTS
    UserKeys = {k1, k2}
    SummaryKey = summary
    System = system
    Values = {v1, v2}
    Digest = digest
    Slots = 1
    AutoAt = 1
    MinEpisodes = 2
    MaxRows = 4
    MaxFaults = 0
    CommitKinds = {"semantic"}
    Absent = Absent
    NoValue = NoValue
PROPERTY EvictionKeepsLongTerm
