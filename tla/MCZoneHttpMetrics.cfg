SPECIFICATION Spec
CONSTANTS
    z1 = z1
    other = other
    v1 = v1
    v2 = v2
    Zones = {z1, other}
    InScope = {z1}
    Minutes <- MCMinutes
    QueryLimit = 2
    MaxBuckets = 3
INVARIANTS
    TypeOK
    AllOrNothing
    NoDuplicateLabels
    WindowSummed
    RatiosSound
