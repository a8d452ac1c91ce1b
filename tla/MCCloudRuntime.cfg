SPECIFICATION FairSpec
CONSTANTS
    Calls = {c1, c2, c3}
    Projects = {a, b}
    Kinds = {"read", "write", "purge"}
    Cap = 1
    IdleLimit = TRUE
    None = None
CHECK_DEADLOCK FALSE
INVARIANT TypeOK
INVARIANT LeasesCount
INVARIANT OnePlanePerProject
INVARIANT WritesKeepTheirPlane
INVARIANT OnlyAPurgeTakesAPlaneInUse
INVARIANT AllClosedWhenDown
PROPERTY NoDropWhileClosing
PROPERTY CallsEnd
