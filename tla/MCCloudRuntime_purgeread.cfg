SPECIFICATION Spec
CONSTANTS
    Calls = {c1, c2}
    Projects = {a}
    Kinds = {"read", "purge"}
    Cap = 0
    IdleLimit = FALSE
    None = None
SYMMETRY Symmetry
CHECK_DEADLOCK FALSE
INVARIANT NeverEvictedInFlight
