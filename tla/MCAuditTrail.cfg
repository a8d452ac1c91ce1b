SPECIFICATION Spec
CONSTANTS
    None = None
    Procs = {p1, p2}
    Keys = {k1}
    Values = {v1}
    Ops = {"create", "forget"}
    MaxRows = 4
    MaxClock = 1
SYMMETRY Symmetry
INVARIANT TypeOK
INVARIANT ChainVerifies
INVARIANT AlterationDetected
INVARIANT CachedRootOnChain
PROPERTY PastIsSettled
